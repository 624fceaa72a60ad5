------------------------- MODULE StratumServerProofs -------------------------
(***************************************************************************)
(* The server and its sockets, proved for every set of connections and of  *)
(* streams, any size of the chunks and the buffer, and any limits of the   *)
(* two counters: messages are handed on whole and in order, only a large   *)
(* one floods, and clients that share an id or an extraNonce1 are a whole  *)
(* round of the counter apart.                                             *)
(***************************************************************************)
EXTENDS StratumServer, WellFoundedInduction, TLAPS

-----------------------------------------------------------------------------
\* Least and greatest elements.

Less == OpToRel(<, Nat)

LEMMA LessIs == \A a, b \in Nat : <<a, b>> \in Less <=> a < b
BY DEF Less, OpToRel

LEMMA LeastOf ==
    ASSUME NEW T \in SUBSET Nat, T # {}
    PROVE  \E x \in T : \A y \in T : x <= y
<1>1. IsWellFoundedOn(Less, Nat)  BY NatLessThanWellFounded DEF Less
<1>2. PICK x \in T : \A y \in T : <<y, x>> \notin Less  BY <1>1, WFMin
<1>3. \A y \in T : y \in Nat /\ ~(y < x)  BY <1>2, LessIs
<1>4. \A y \in T : x <= y  BY <1>3
<1>5. QED  BY <1>4

LEMMA GreatestOf ==
    ASSUME NEW n \in Nat, NEW T \in SUBSET (0 .. n), T # {}
    PROVE  Max(T) \in T /\ \A y \in T : y <= Max(T)
<1> DEFINE U == {n - y : y \in T}
<1>1. U \in SUBSET Nat /\ U # {}  OBVIOUS
<1>2. PICK u \in U : \A v \in U : u <= v  BY <1>1, LeastOf
<1>3. PICK x \in T : u = n - x  BY <1>2
<1>4. ASSUME NEW y \in T PROVE x >= y
  <2>1. n - y \in U  OBVIOUS
  <2>2. n - x <= n - y  BY <1>2, <1>3, <2>1
  <2>3. QED  BY <2>2
<1>5. Max(T) \in T /\ \A y \in T : Max(T) >= y  BY <1>4 DEF Max
<1>6. \A y \in T : y <= Max(T)
  <2>1. ASSUME NEW y \in T PROVE y <= Max(T)
    <3>1. y \in Nat /\ Max(T) \in Nat
      <4>1. \A z \in T : z \in Nat  OBVIOUS
      <4>2. QED  BY <1>5, <4>1
    <3>2. Max(T) >= y  BY <1>5
    <3>3. QED  BY <3>1, <3>2
  <2>2. QED  BY <2>1
<1>7. QED  BY <1>5, <1>6

-----------------------------------------------------------------------------
\* The sockets.

\* A connection that is open has handed on all messages that have come, and
\* its buffer begins where the last one ended.
BufferFollows(c) ==
    sock[c] = "open" =>
        /\ handled[c] = {e \in stream[c].ends : e <= received[c]}
        /\ \A e \in handled[c] : e <= start[c]
        /\ start[c] = 0 \/ start[c] \in handled[c]

HandledInOrder(c) ==
    \A e \in handled[c], f \in stream[c].ends : f < e => f \in handled[c]

FloodedByLarge(c) ==
    flooded[c] =>
        \E e \in stream[c].ends \cup {stream[c].size} :
            Size(stream[c], e) + MaxChunk > MaxBuffer + 1

SocketInv ==
    /\ SocketTypeOK
    /\ \A c \in Conn : BufferFollows(c) /\ HandledInOrder(c) /\ FloodedByLarge(c)

LEMMA StreamsAre ==
    ASSUME NEW s \in Stream
    PROVE  s.size \in Nat /\ s.ends \subseteq 1 .. s.size
BY StreamAssumption

LEMMA SocketInitInv == SocketInit => SocketInv
<1> SUFFICES ASSUME SocketInit PROVE SocketInv
  OBVIOUS
<1>1. (CHOOSE s \in Stream : TRUE) \in Stream  BY StreamAssumption
<1>2. SocketTypeOK  BY <1>1, StreamsAre DEF SocketInit, SocketTypeOK
<1>3. \A c \in Conn : BufferFollows(c) /\ HandledInOrder(c) /\ FloodedByLarge(c)
  BY DEF SocketInit, BufferFollows, HandledInOrder, FloodedByLarge
<1>4. QED  BY <1>2, <1>3 DEF SocketInv

LEMMA AcceptKeepsInv ==
    ASSUME SocketInv, NEW c \in Conn, NEW s \in Stream, Accept(c, s)
    PROVE  SocketInv'
<1> USE DEF SocketInv
<1>1. /\ sock'[c] = "open" /\ stream'[c] = s /\ received'[c] = 0
      /\ start'[c] = 0 /\ handled'[c] = {} /\ flooded'[c] = FALSE
      /\ \A d \in Conn \ {c} :
            /\ sock'[d] = sock[d] /\ stream'[d] = stream[d]
            /\ received'[d] = received[d] /\ start'[d] = start[d]
            /\ handled'[d] = handled[d] /\ flooded'[d] = flooded[d]
  BY DEF Accept, SocketTypeOK
<1>2. \A e \in s.ends : ~(e <= 0)  BY StreamsAre
<1>3. SocketTypeOK'  BY <1>1, StreamsAre DEF Accept, SocketTypeOK
<1>4. ASSUME NEW d \in Conn
      PROVE  BufferFollows(d)' /\ HandledInOrder(d)' /\ FloodedByLarge(d)'
  <2>1. CASE d = c
    BY <1>1, <1>2, <2>1 DEF BufferFollows, HandledInOrder, FloodedByLarge
  <2>2. CASE d # c
    BY <1>1, <2>2 DEF BufferFollows, HandledInOrder, FloodedByLarge
  <2>3. QED  BY <2>1, <2>2
<1>5. QED  BY <1>3, <1>4

\* A connection that ends stays as it was read.
LEMMA SocketEndsKeepsInv ==
    ASSUME SocketInv, NEW c \in Conn, NEW end \in {"destroyed", "closed"},
           sock' = [sock EXCEPT ![c] = end],
           UNCHANGED <<stream, received, start, handled, flooded>>
    PROVE  SocketInv'
<1> USE DEF SocketInv
<1>1. SocketTypeOK'  BY DEF SocketTypeOK
<1>2. \A d \in Conn : sock'[d] = "open" => sock[d] = "open"
  BY DEF SocketTypeOK
<1>3. QED
  BY <1>1, <1>2 DEF BufferFollows, HandledInOrder, FloodedByLarge

\* Where the buffer overruns, the message being read is large.
LEMMA OverrunByLarge ==
    ASSUME SocketInv, NEW c \in Conn, sock[c] = "open",
           NEW chunk \in 1 .. MaxChunk, received[c] + chunk <= stream[c].size,
           Overruns(c, received[c] + chunk)
    PROVE  \E e \in stream[c].ends \cup {stream[c].size} :
               Size(stream[c], e) + MaxChunk > MaxBuffer + 1
<1> DEFINE s == stream[c]
           later == {e \in s.ends \cup {s.size} : e > received[c]}
<1>1. /\ s \in Stream /\ received[c] \in Nat /\ start[c] \in 0 .. received[c]
      /\ handled[c] \in SUBSET s.ends
  BY StreamsAre DEF SocketInv, SocketTypeOK
<1>2. s.size \in Nat /\ s.ends \subseteq 1 .. s.size  BY <1>1, StreamsAre
<1>3. /\ handled[c] = {e \in s.ends : e <= received[c]}
      /\ \A e \in handled[c] : e <= start[c]
      /\ start[c] = 0 \/ start[c] \in handled[c]
  BY DEF SocketInv, BufferFollows
<1>4. chunk \in Nat /\ chunk >= 1 /\ chunk <= MaxChunk /\ MaxChunk \in Nat
      /\ MaxBuffer \in Nat
  BY BufferBounds
<1>5. s.size \in later  BY <1>1, <1>2, <1>4
<1>6. later \in SUBSET Nat /\ later # {}  BY <1>2, <1>5
<1>7. PICK e \in later : \A f \in later : e <= f  BY <1>6, LeastOf
<1> DEFINE before == {0} \cup {f \in s.ends : f < e}
<1>8. e \in Nat /\ e > received[c] /\ e <= s.size  BY <1>2, <1>7
<1>9. before \in SUBSET (0 .. s.size) /\ before # {}  BY <1>2
<1>10. Max(before) \in before /\ \A f \in before : f <= Max(before)
  BY <1>2, <1>9, GreatestOf
<1>11. \A f \in before : f <= start[c]
  <2>1. ASSUME NEW f \in s.ends, f < e
        PROVE  f <= start[c]
    <3>1. f \notin later /\ f \in Nat  BY <1>2, <1>7, <1>8, <2>1
    <3>2. f <= received[c]  BY <1>1, <3>1
    <3>3. QED  BY <1>3, <3>2
  <2>2. QED  BY <1>1, <2>1
<1>12. Max(before) <= start[c] /\ Max(before) \in Nat  BY <1>9, <1>10, <1>11
<1>13. Size(s, e) >= e - start[c] /\ Size(s, e) \in Int
  BY <1>1, <1>8, <1>12 DEF Size
<1>14. received[c] + chunk - start[c] > MaxBuffer
  BY <1>1, <1>4 DEF Overruns
<1> HIDE DEF s, later, before
<1>15. Size(s, e) + MaxChunk > MaxBuffer + 1
  BY <1>1, <1>4, <1>8, <1>13, <1>14
<1>16. QED  BY <1>15 DEF later, s

LEMMA DataKeepsInv ==
    ASSUME SocketInv, NEW c \in Conn, NEW chunk \in 1 .. MaxChunk,
           Data(c, chunk)
    PROVE  SocketInv'
<1> DEFINE to == received[c] + chunk
           s  == stream[c]
<1>1. /\ sock[c] = "open" /\ to <= s.size
      /\ received' = [received EXCEPT ![c] = to]
      /\ flooded' = [flooded EXCEPT ![c] = Overruns(c, to)]
      /\ stream' = stream
  BY DEF Data
<1>2. /\ s \in Stream /\ received[c] \in Nat /\ start[c] \in 0 .. received[c]
      /\ handled[c] \in SUBSET s.ends
      /\ s.size \in Nat /\ s.ends \subseteq 1 .. s.size
      /\ chunk \in Nat /\ chunk >= 1
  BY StreamsAre, BufferBounds DEF SocketInv, SocketTypeOK
<1>3. /\ handled[c] = {e \in s.ends : e <= received[c]}
      /\ \A e \in handled[c] : e <= start[c]
      /\ start[c] = 0 \/ start[c] \in handled[c]
      /\ HandledInOrder(c)
  BY <1>1 DEF SocketInv, BufferFollows
<1>4. to \in 0 .. s.size /\ start[c] <= to  BY <1>1, <1>2
<1>5. Whole(c, to) = {e \in s.ends : start[c] < e /\ e <= to}  BY DEF Whole
<1>6. FloodedByLarge(c)'
  <2>1. flooded'[c] = Overruns(c, to)
    BY <1>1 DEF SocketInv, SocketTypeOK
  <2>2. Overruns(c, to) => \E e \in s.ends \cup {s.size} :
                              Size(s, e) + MaxChunk > MaxBuffer + 1
    BY <1>1, OverrunByLarge
  <2>3. QED  BY <1>1, <2>1, <2>2 DEF FloodedByLarge
<1> SUFFICES /\ sock' \in [Conn -> {"none", "open", "destroyed", "closed"}]
             /\ start' \in [Conn -> Nat] /\ handled' \in [Conn -> SUBSET Nat]
             /\ \A d \in Conn \ {c} :
                   /\ sock'[d] = sock[d] /\ start'[d] = start[d]
                   /\ handled'[d] = handled[d]
             /\ start'[c] \in 0 .. to
             /\ handled'[c] \in SUBSET s.ends
             /\ BufferFollows(c)' /\ HandledInOrder(c)'
  <2> SUFFICES ASSUME /\ sock' \in [Conn -> {"none", "open", "destroyed", "closed"}]
                      /\ start' \in [Conn -> Nat]
                      /\ handled' \in [Conn -> SUBSET Nat]
                      /\ \A d \in Conn \ {c} :
                            /\ sock'[d] = sock[d] /\ start'[d] = start[d]
                            /\ handled'[d] = handled[d]
                      /\ start'[c] \in 0 .. to
                      /\ handled'[c] \in SUBSET s.ends
                      /\ BufferFollows(c)' /\ HandledInOrder(c)'
               PROVE  SocketInv'
    OBVIOUS
  <2>1. /\ received'[c] = to
        /\ \A d \in Conn \ {c} :
              received'[d] = received[d] /\ flooded'[d] = flooded[d]
        /\ flooded' \in [Conn -> BOOLEAN]
    <3>1. Overruns(c, to) \in BOOLEAN  BY DEF Overruns
    <3>2. QED  BY <1>1, <3>1 DEF SocketInv, SocketTypeOK
  <2>2. SocketTypeOK'
    <3>1. received' \in [Conn -> Nat]
      BY <1>1, <1>2, <1>4, <2>1 DEF SocketInv, SocketTypeOK
    <3>2. ASSUME NEW d \in Conn
          PROVE  /\ received'[d] <= stream'[d].size
                 /\ start'[d] <= received'[d]
                 /\ handled'[d] \subseteq stream'[d].ends
      BY <1>1, <1>4, <2>1 DEF SocketInv, SocketTypeOK
    <3>3. QED  BY <1>1, <2>1, <3>1, <3>2 DEF SocketInv, SocketTypeOK
  <2>3. \A d \in Conn \ {c} :
           BufferFollows(d)' /\ HandledInOrder(d)' /\ FloodedByLarge(d)'
    BY <1>1, <2>1 DEF SocketInv, BufferFollows, HandledInOrder, FloodedByLarge
  <2>4. QED  BY <1>6, <2>2, <2>3 DEF SocketInv
<1>7. CASE Discard(c, to)
  <2>1. sock'[c] = "destroyed" /\ start'[c] = to /\ handled'[c] = handled[c]
    BY <1>7 DEF Discard, SocketInv, SocketTypeOK
  <2>2. QED
    BY <1>1, <1>2, <1>3, <1>4, <1>7, <2>1
    DEF Discard, SocketInv, SocketTypeOK, BufferFollows, HandledInOrder
<1>8. CASE HandOn(c, to)
  <2> DEFINE whole == Whole(c, to)
  <2>1. whole # {} /\ whole \in SUBSET (0 .. s.size)
    BY <1>2, <1>5, <1>8 DEF HandOn
  <2>2. Max(whole) \in whole /\ \A e \in whole : e <= Max(whole)
    BY <1>2, <2>1, GreatestOf
  <2>3. /\ handled' = [handled EXCEPT ![c] = handled[c] \cup whole]
        /\ start' = [start EXCEPT ![c] = Max(whole)]
        /\ sock' = sock
    BY <1>8 DEF HandOn
  <2>4. /\ handled'[c] = handled[c] \cup whole /\ start'[c] = Max(whole)
        /\ \A d \in Conn \ {c} :
              start'[d] = start[d] /\ handled'[d] = handled[d]
    BY <2>3 DEF SocketInv, SocketTypeOK
  <2>5. handled'[c] = {e \in s.ends : e <= to}
    <3>1. \A e \in s.ends : e \in Nat  BY <1>2
    <3>2. \A e \in s.ends : e <= to <=> e <= received[c] \/ (start[c] < e /\ e <= to)
      BY <1>2, <3>1
    <3>3. QED  BY <1>3, <1>5, <2>4, <3>2
  <2>6. start'[c] \in handled'[c] /\ start'[c] \in 0 .. to
    BY <1>2, <1>4, <1>5, <2>2, <2>4
  <2>7. \A e \in handled'[c] : e <= start'[c]
    <3>1. start[c] <= Max(whole)  BY <1>2, <1>5, <2>1, <2>2
    <3>2. ASSUME NEW e \in handled[c] PROVE e <= Max(whole)
      <4>1. e \in Nat /\ Max(whole) \in Nat /\ start[c] \in Nat /\ e <= start[c]
        BY <1>2, <1>3, <2>1, <2>2
      <4>2. QED  BY <3>1, <4>1
    <3>3. QED  BY <2>2, <2>4, <3>2
  <2>8. HandledInOrder(c)'
    <3>1. ASSUME NEW e \in s.ends, e <= to, NEW f \in s.ends, f < e
          PROVE  f <= to
      BY <1>2, <1>4, <3>1
    <3>2. QED  BY <1>1, <2>5, <3>1 DEF HandledInOrder
  <2>9. BufferFollows(c)'
    <3>1. received'[c] = to /\ stream'[c] = s
      BY <1>1 DEF SocketInv, SocketTypeOK
    <3>2. QED  BY <2>5, <2>6, <2>7, <3>1 DEF BufferFollows
  <2>10. QED
    <3>1. Max(whole) \in Nat /\ handled[c] \cup whole \in SUBSET Nat
      BY <1>2, <2>1, <2>2
    <3>2. start' \in [Conn -> Nat] /\ handled' \in [Conn -> SUBSET Nat]
      BY <2>3, <3>1 DEF SocketInv, SocketTypeOK
    <3>3. handled'[c] \in SUBSET s.ends  BY <2>5
    <3>4. sock' \in [Conn -> {"none", "open", "destroyed", "closed"}]
      BY <2>3 DEF SocketInv, SocketTypeOK
    <3>5. QED  BY <2>3, <2>4, <2>6, <2>8, <2>9, <3>2, <3>3, <3>4
<1>9. CASE Whole(c, to) = {} /\ UNCHANGED <<sock, start, handled>>
  <2>1. handled'[c] = {e \in s.ends : e <= to}
    <3>1. \A e \in s.ends : e <= to <=> e <= received[c]
      BY <1>2, <1>5, <1>9
    <3>2. QED  BY <1>3, <1>9, <3>1
  <2>2. received'[c] = to /\ stream'[c] = s
    BY <1>1 DEF SocketInv, SocketTypeOK
  <2>3. BufferFollows(c)' /\ HandledInOrder(c)'
    BY <1>3, <1>9, <2>1, <2>2 DEF BufferFollows, HandledInOrder
  <2>4. start'[c] \in 0 .. to  BY <1>2, <1>4, <1>9
  <2>5. QED  BY <1>2, <1>9, <2>3, <2>4 DEF SocketInv, SocketTypeOK
<1>10. QED  BY <1>7, <1>8, <1>9 DEF Data

-----------------------------------------------------------------------------
\* The ids.

\* On a round of n numbers y comes k steps after x.
After(x, y, k, n) == y = x + k \/ y = x + k - n

LEMMA NotAfterItself ==
    ASSUME NEW n \in Nat, NEW x \in Nat, NEW k \in 1 .. n - 1,
           After(x, x, k, n)
    PROVE  FALSE
BY DEF After

LEMMA NextIdAfter ==
    ASSUME NEW y \in SubId
    PROVE  /\ NextId(y) \in SubId
           /\ \A x \in SubId, k \in Nat :
                 k + 1 < SubLimit /\ After(x, y, k, SubLimit)
                    => After(x, NextId(y), k + 1, SubLimit)
BY LimitAssumption DEF SubId, NextId, After

LEMMA NextNonceAfter ==
    ASSUME NEW y \in 0 .. NonceLimit
    PROVE  /\ NextNonce(y) \in 1 .. NonceLimit
           /\ \A x \in 1 .. NonceLimit, k \in Nat :
                 k + 1 < NonceLimit /\ After(x, y, k, NonceLimit)
                    => After(x, NextNonce(y), k + 1, NonceLimit)
BY LimitAssumption DEF NextNonce, After

\* The sockets that stand for a connection, or did.
Numbered == {c \in Conn : serial[c] > 0}

\* A connection was made while less than a round ago: the counters have gone
\* on from its numbers by as many steps as connections were made since.
CountersFollow ==
    \A c \in Numbered :
        /\ extraNonce1[c] \in 1 .. NonceLimit
        /\ serial[c] <= made
        /\ made - serial[c] < NonceLimit =>
              After(extraNonce1[c], counter, made - serial[c], NonceLimit)
        /\ made - serial[c] < SubLimit =>
              After(subId[c], count, made - serial[c], SubLimit)

\* The same between a connection and a later one.
NumbersFollow ==
    \A c, d \in Numbered :
        /\ c # d => serial[c] # serial[d]
        /\ serial[c] < serial[d] /\ serial[d] - serial[c] < NonceLimit =>
              After(extraNonce1[c], extraNonce1[d], serial[d] - serial[c],
                    NonceLimit)
        /\ serial[c] < serial[d] /\ serial[d] - serial[c] < SubLimit =>
              After(subId[c], subId[d], serial[d] - serial[c], SubLimit)

\* The map files a connection under its own id, and it is the youngest one
\* with that id.
MapHoldsYoungest ==
    \A id \in SubId :
        clientMap[id] # NoConn =>
            /\ clientMap[id] \in Connected
            /\ subId[clientMap[id]] = id
            /\ \A d \in Connected :
                  subId[d] = id => serial[d] <= serial[clientMap[id]]

IdTypeOK ==
    /\ count \in SubId
    /\ counter \in 0 .. NonceLimit
    /\ made \in 0 .. MaxMade
    /\ serial \in [Conn -> 0 .. MaxMade]
    /\ subId \in [Conn -> SubId]
    /\ extraNonce1 \in [Conn -> 0 .. NonceLimit]
    /\ clientMap \in [SubId -> Conn \cup {NoConn}]
    /\ removed \in SUBSET Conn
    /\ isStopped \in BOOLEAN

IdInv ==
    /\ IdTypeOK
    /\ Connected \subseteq Numbered
    /\ CountersFollow
    /\ NumbersFollow
    /\ MapHoldsYoungest
    /\ LostOnlyToANamesake

LEMMA IdInitInv == ServerInit => IdInv
<1> SUFFICES ASSUME ServerInit PROVE IdInv
  OBVIOUS
<1>1. 0 \in SubId /\ 0 \in 0 .. NonceLimit /\ 0 \in 0 .. MaxMade
  BY LimitAssumption DEF SubId
<1>2. IdTypeOK  BY <1>1 DEF ServerInit, IdTypeOK
<1>3. Connected = {} /\ Numbered = {}
  BY DEF ServerInit, SocketInit, Connected, Numbered
<1>4. QED
  BY <1>2, <1>3 DEF ServerInit, IdInv, CountersFollow, NumbersFollow,
                    MapHoldsYoungest, LostOnlyToANamesake

\* Two connections with one id are a round of the ids apart.
LEMMA SameIdApart ==
    ASSUME IdInv, NEW c \in Connected, NEW d \in Connected, c # d,
           subId[c] = subId[d]
    PROVE  \/ serial[c] >= serial[d] + SubLimit
           \/ serial[d] >= serial[c] + SubLimit
<1>1. c \in Numbered /\ d \in Numbered  BY DEF IdInv
<1>2. /\ serial[c] \in Nat /\ serial[d] \in Nat /\ serial[c] # serial[d]
      /\ subId[c] \in Nat /\ SubLimit \in Nat
  BY <1>1, LimitAssumption DEF IdInv, IdTypeOK, NumbersFollow, Numbered, SubId
<1>3. ASSUME NEW a \in Numbered, NEW b \in Numbered, subId[a] = subId[c],
             subId[b] = subId[c], serial[a] \in Nat, serial[b] \in Nat,
             serial[a] < serial[b]
      PROVE  serial[b] >= serial[a] + SubLimit
  <2>1. SUFFICES ASSUME serial[b] - serial[a] < SubLimit PROVE FALSE
    BY <1>2, <1>3
  <2>2. After(subId[c], subId[c], serial[b] - serial[a], SubLimit)
    BY <1>3, <2>1 DEF IdInv, NumbersFollow
  <2>3. serial[b] - serial[a] \in 1 .. SubLimit - 1  BY <1>2, <1>3, <2>1
  <2>4. QED  BY <1>2, <2>2, <2>3, NotAfterItself
<1>4. CASE serial[c] < serial[d]  BY <1>1, <1>2, <1>3, <1>4
<1>5. CASE serial[d] < serial[c]  BY <1>1, <1>2, <1>3, <1>5
<1>6. QED  BY <1>2, <1>4, <1>5

\* What happens to a connection's bytes leaves the numbers as they are.
LEMMA SameConnectedKeepsInv ==
    ASSUME IdInv, UNCHANGED <<idVars, clientMap, removed>>,
           isStopped' \in BOOLEAN, Connected' = Connected
    PROVE  IdInv'
<1> USE DEF IdInv, idVars
<1>1. Numbered' = Numbered  BY DEF Numbered
<1>2. IdTypeOK' /\ Connected' \subseteq Numbered'  BY <1>1 DEF IdTypeOK
<1>3. CountersFollow'  BY <1>1 DEF CountersFollow
<1>4. NumbersFollow'  BY <1>1 DEF NumbersFollow
<1>5. MapHoldsYoungest'  BY DEF MapHoldsYoungest
<1>6. LostOnlyToANamesake'  BY DEF LostOnlyToANamesake
<1>7. QED  BY <1>2, <1>3, <1>4, <1>5, <1>6

LEMMA ConnectKeepsInv ==
    ASSUME IdInv, SocketTypeOK, NEW c \in Conn, NEW s \in Stream, Connect(c, s)
    PROVE  IdInv'
<1> USE DEF IdInv
<1>1. /\ made \in Nat /\ made < MaxMade /\ MaxMade \in Nat
      /\ count \in SubId /\ counter \in 0 .. NonceLimit
      /\ SubLimit \in Nat \ {0} /\ NonceLimit \in Nat \ {0}
  BY LimitAssumption DEF Connect, IdTypeOK
<1>2. /\ count' = NextId(count) /\ count' \in SubId
      /\ counter' = NextNonce(counter) /\ counter' \in 1 .. NonceLimit
      /\ made' = made + 1
  BY <1>1, NextIdAfter, NextNonceAfter DEF Connect
<1>3. /\ serial'[c] = made + 1 /\ subId'[c] = count'
      /\ extraNonce1'[c] = counter'
      /\ \A d \in Conn \ {c} :
            /\ serial'[d] = serial[d] /\ subId'[d] = subId[d]
            /\ extraNonce1'[d] = extraNonce1[d]
      /\ clientMap'[count'] = c
      /\ \A id \in SubId \ {count'} : clientMap'[id] = clientMap[id]
      /\ removed' = removed \ {c}
  BY <1>2 DEF Connect, IdTypeOK
<1>4. IdTypeOK'
  <2>1. /\ made' \in 0 .. MaxMade /\ counter' \in 0 .. NonceLimit
    BY <1>1, <1>2
  <2>2. QED  BY <1>2, <2>1 DEF Connect, IdTypeOK
<1>5. /\ c \notin Connected
      /\ Connected' = Connected \cup {c}
  BY DEF Connect, Accept, SocketTypeOK, Connected
<1>6. Numbered' = Numbered \cup {c}
  BY <1>1, <1>3 DEF Numbered
<1>7. Connected' \subseteq Numbered'  BY <1>5, <1>6
<1>8. ASSUME NEW d \in Numbered \ {c}
      PROVE  /\ d \in Conn /\ serial[d] \in Nat /\ serial[d] <= made
             /\ serial[d] > 0
             /\ subId[d] \in SubId /\ extraNonce1[d] \in 1 .. NonceLimit
             /\ made + 1 - serial[d] < NonceLimit =>
                   After(extraNonce1[d], counter', made + 1 - serial[d],
                         NonceLimit)
             /\ made + 1 - serial[d] < SubLimit =>
                   After(subId[d], count', made + 1 - serial[d], SubLimit)
  <2>1. /\ d \in Conn /\ serial[d] \in Nat /\ serial[d] <= made
        /\ serial[d] > 0
        /\ subId[d] \in SubId /\ extraNonce1[d] \in 1 .. NonceLimit
    BY DEF Numbered, IdTypeOK, CountersFollow
  <2> DEFINE k == made - serial[d]
  <2>2. k \in Nat /\ made + 1 - serial[d] = k + 1  BY <1>1, <2>1
  <2>3. k < NonceLimit => After(extraNonce1[d], counter, k, NonceLimit)
    BY DEF CountersFollow
  <2>4. k < SubLimit => After(subId[d], count, k, SubLimit)
    BY DEF CountersFollow
  <2> HIDE DEF k
  <2>5. k + 1 < NonceLimit =>
           After(extraNonce1[d], counter', k + 1, NonceLimit)
    BY <1>1, <1>2, <2>1, <2>2, <2>3, NextNonceAfter
  <2>6. k + 1 < SubLimit => After(subId[d], count', k + 1, SubLimit)
    BY <1>1, <1>2, <2>1, <2>2, <2>4, NextIdAfter
  <2>7. QED  BY <2>1, <2>2, <2>5, <2>6
<1>9. CountersFollow'
  <2>1. ASSUME NEW d \in Numbered'
        PROVE  /\ extraNonce1'[d] \in 1 .. NonceLimit
               /\ serial'[d] <= made'
               /\ made' - serial'[d] < NonceLimit =>
                     After(extraNonce1'[d], counter', made' - serial'[d],
                           NonceLimit)
               /\ made' - serial'[d] < SubLimit =>
                     After(subId'[d], count', made' - serial'[d], SubLimit)
    <3>1. CASE d = c
      <4>1. made' - serial'[d] = 0 /\ counter' \in Nat /\ count' \in Nat
        BY <1>1, <1>2, <1>3, <3>1 DEF SubId
      <4>2. QED  BY <1>1, <1>2, <1>3, <3>1, <4>1 DEF After
    <3>2. CASE d # c
      <4>1. d \in Numbered \ {c}  BY <1>6, <2>1, <3>2
      <4>2. serial[d] <= made + 1  BY <1>1, <1>8, <4>1
      <4>3. /\ made' - serial'[d] = made + 1 - serial[d]
            /\ extraNonce1'[d] = extraNonce1[d] /\ subId'[d] = subId[d]
            /\ serial'[d] <= made'
        BY <1>1, <1>2, <1>3, <1>8, <4>1, <4>2
      <4>4. /\ extraNonce1[d] \in 1 .. NonceLimit
            /\ made + 1 - serial[d] < NonceLimit =>
                  After(extraNonce1[d], counter', made + 1 - serial[d],
                        NonceLimit)
            /\ made + 1 - serial[d] < SubLimit =>
                  After(subId[d], count', made + 1 - serial[d], SubLimit)
        BY <1>8, <4>1
      <4>5. QED  BY <4>3, <4>4
    <3>3. QED  BY <3>1, <3>2
  <2>2. QED  BY <2>1 DEF CountersFollow
<1>10. NumbersFollow'
  <2>1. ASSUME NEW a \in Numbered', NEW b \in Numbered'
        PROVE  /\ a # b => serial'[a] # serial'[b]
               /\ serial'[a] < serial'[b] /\ serial'[b] - serial'[a] < NonceLimit
                     => After(extraNonce1'[a], extraNonce1'[b],
                              serial'[b] - serial'[a], NonceLimit)
               /\ serial'[a] < serial'[b] /\ serial'[b] - serial'[a] < SubLimit
                     => After(subId'[a], subId'[b], serial'[b] - serial'[a],
                              SubLimit)
    <3>1. CASE a # c /\ b # c
      <4>1. a \in Numbered \ {c} /\ b \in Numbered \ {c}  BY <1>6, <2>1, <3>1
      <4>2. QED  BY <1>3, <1>8, <4>1 DEF NumbersFollow
    <3>2. CASE a # c /\ b = c
      <4>1. a \in Numbered \ {c}  BY <1>6, <2>1, <3>2
      <4>2. serial[a] # made + 1  BY <1>1, <1>8, <4>1
      <4>3. /\ serial'[a] = serial[a] /\ serial'[b] = made + 1
            /\ extraNonce1'[a] = extraNonce1[a] /\ extraNonce1'[b] = counter'
            /\ subId'[a] = subId[a] /\ subId'[b] = count'
        BY <1>3, <1>8, <3>2, <4>1
      <4>4. /\ made + 1 - serial[a] < NonceLimit =>
                  After(extraNonce1[a], counter', made + 1 - serial[a],
                        NonceLimit)
            /\ made + 1 - serial[a] < SubLimit =>
                  After(subId[a], count', made + 1 - serial[a], SubLimit)
        BY <1>8, <4>1
      <4>5. serial'[b] - serial'[a] = made + 1 - serial[a]
        BY <1>1, <1>8, <4>1, <4>3
      <4>6. serial'[a] # serial'[b]  BY <4>2, <4>3
      <4>7. QED  BY <4>3, <4>4, <4>5, <4>6
    <3>3. CASE a = c /\ b # c
      <4>1. b \in Numbered \ {c}  BY <1>6, <2>1, <3>3
      <4>2. serial[b] # made + 1 /\ ~(made + 1 < serial[b])
        BY <1>1, <1>8, <4>1
      <4>3. QED  BY <1>3, <1>8, <3>3, <4>1, <4>2
    <3>4. CASE a = c /\ b = c
      <4>1. ~(serial'[a] < serial'[b])  BY <1>1, <1>3, <3>4
      <4>2. QED  BY <3>4, <4>1
    <3>5. QED  BY <3>1, <3>2, <3>3, <3>4
  <2>2. QED  BY <2>1 DEF NumbersFollow
<1>11. MapHoldsYoungest'
  <2>1. ASSUME NEW id \in SubId, clientMap'[id] # NoConn
        PROVE  /\ clientMap'[id] \in Connected'
               /\ subId'[clientMap'[id]] = id
               /\ \A d \in Connected' :
                     subId'[d] = id => serial'[d] <= serial'[clientMap'[id]]
    <3>1. CASE id = count'
      <4>1. \A d \in Connected' : serial'[d] <= made + 1
        BY <1>1, <1>3, <1>5, <1>7, <1>8
      <4>2. QED  BY <1>3, <1>5, <3>1, <4>1
    <3>2. CASE id # count'
      <4>1. clientMap'[id] = clientMap[id]  BY <1>3, <3>2
      <4>2. clientMap[id] \in Connected /\ clientMap[id] # c
            /\ clientMap[id] \in Conn
        BY <1>5, <2>1, <4>1 DEF MapHoldsYoungest, Connected
      <4>3. \A d \in Connected' : subId'[d] = id =>
               d \in Connected /\ d # c /\ d \in Conn
        BY <1>3, <1>5, <3>2 DEF Connected
      <4>4. QED
        BY <1>3, <1>5, <2>1, <4>1, <4>2, <4>3 DEF MapHoldsYoungest
    <3>3. QED  BY <3>1, <3>2
  <2>2. QED  BY <2>1 DEF MapHoldsYoungest
<1>12. LostOnlyToANamesake'
  <2>1. ASSUME NEW d \in Connected'
        PROVE  /\ clientMap'[subId'[d]] # d =>
                     made' >= serial'[d] + SubLimit \/ serial'[d] > SubLimit
               /\ d \in removed' => serial'[d] > SubLimit
    <3>1. CASE d = c  BY <1>3, <3>1
    <3>2. CASE d # c
      <4>1. d \in Connected /\ d \in Numbered \ {c}  BY <1>5, <2>1, <3>2
      <4>2. /\ clientMap[subId[d]] # d =>
                  made >= serial[d] + SubLimit \/ serial[d] > SubLimit
            /\ d \in removed => serial[d] > SubLimit
        BY <4>1 DEF LostOnlyToANamesake
      <4>3. serial'[d] = serial[d] /\ subId'[d] = subId[d]
            /\ serial[d] \in Nat /\ subId[d] \in SubId
        BY <1>3, <1>8, <4>1
      <4>4. CASE subId[d] = count'
        <5>1. ~(made + 1 - serial[d] < SubLimit)
          <6>1. SUFFICES ASSUME made + 1 - serial[d] < SubLimit PROVE FALSE
            OBVIOUS
          <6>2. After(count', count', made + 1 - serial[d], SubLimit)
            BY <1>8, <4>1, <4>4, <6>1
          <6>3. made + 1 - serial[d] \in 1 .. SubLimit - 1
            BY <1>1, <1>8, <4>1, <6>1
          <6>4. count' \in Nat  BY <1>2 DEF SubId
          <6>5. QED  BY <1>1, <6>2, <6>3, <6>4, NotAfterItself
        <5>2. made' >= serial'[d] + SubLimit  BY <1>1, <1>2, <4>3, <5>1
        <5>3. QED  BY <1>3, <4>2, <4>3, <5>2
      <4>5. CASE subId[d] # count'
        <5>1. clientMap'[subId'[d]] = clientMap[subId[d]]
          BY <1>3, <4>3, <4>5
        <5>2. made >= serial[d] + SubLimit => made' >= serial'[d] + SubLimit
          BY <1>1, <1>2, <4>3
        <5>3. QED  BY <1>3, <4>2, <4>3, <5>1, <5>2
      <4>6. QED  BY <4>4, <4>5
    <3>3. QED  BY <3>1, <3>2
  <2>2. QED  BY <2>1 DEF LostOnlyToANamesake
<1>13. QED  BY <1>4, <1>7, <1>9, <1>10, <1>11, <1>12

LEMMA CloseKeepsInv ==
    ASSUME IdInv, SocketTypeOK, NEW c \in Conn, Close(c)
    PROVE  IdInv'
<1> USE DEF IdInv
<1> DEFINE i == subId[c]
<1>1. /\ i \in SubId /\ UNCHANGED <<idVars, isStopped>>
      /\ clientMap' = [clientMap EXCEPT ![i] = NoConn]
      /\ removed' = removed \cup ({clientMap[i]} \ {NoConn})
  BY DEF Close, Remove, IdTypeOK
<1>2. c \in Connected /\ Connected' = Connected \ {c}
  BY DEF Close, Connected, SocketTypeOK
<1>3. /\ clientMap'[i] = NoConn
      /\ \A id \in SubId \ {i} : clientMap'[id] = clientMap[id]
  BY <1>1 DEF IdTypeOK
<1>4. Numbered' = Numbered  BY <1>1 DEF Numbered, idVars
<1>5. IdTypeOK' /\ Connected' \subseteq Numbered'
  BY <1>1, <1>2, <1>4 DEF IdTypeOK, idVars
<1>6. CountersFollow' /\ NumbersFollow'
  BY <1>1, <1>4 DEF CountersFollow, NumbersFollow, idVars
<1>7. MapHoldsYoungest'
  <2>1. ASSUME NEW id \in SubId, clientMap'[id] # NoConn
        PROVE  /\ clientMap'[id] \in Connected'
               /\ subId'[clientMap'[id]] = id
               /\ \A d \in Connected' :
                     subId'[d] = id => serial'[d] <= serial'[clientMap'[id]]
    <3>1. id # i /\ clientMap'[id] = clientMap[id]  BY <1>3, <2>1
    <3>2. clientMap[id] # c  BY <2>1, <3>1 DEF MapHoldsYoungest
    <3>3. QED
      BY <1>1, <1>2, <2>1, <3>1, <3>2 DEF MapHoldsYoungest, idVars
  <2>2. QED  BY <2>1 DEF MapHoldsYoungest
<1>8. LostOnlyToANamesake'
  <2>1. ASSUME NEW d \in Connected'
        PROVE  /\ clientMap'[subId'[d]] # d =>
                     made' >= serial'[d] + SubLimit \/ serial'[d] > SubLimit
               /\ d \in removed' => serial'[d] > SubLimit
    <3>1. d \in Connected /\ d # c /\ d \in Conn
      BY <1>2, <2>1 DEF Connected
    <3>2. made' = made /\ serial'[d] = serial[d] /\ subId'[d] = subId[d]
      BY <1>1 DEF idVars
    <3>3. /\ clientMap[subId[d]] # d =>
                made >= serial[d] + SubLimit \/ serial[d] > SubLimit
          /\ d \in removed => serial[d] > SubLimit
      BY <3>1 DEF LostOnlyToANamesake
    <3>4. c \in Numbered /\ d \in Numbered  BY <1>2, <3>1
    <3>5. /\ serial[c] \in Nat \ {0} /\ serial[d] \in Nat \ {0}
          /\ serial[c] <= made /\ made \in Nat /\ SubLimit \in Nat
          /\ subId[d] \in SubId
      BY <3>1, <3>4, LimitAssumption DEF Numbered, IdTypeOK, CountersFollow
    <3>6. CASE subId[d] = i
      <4>1. \/ serial[c] >= serial[d] + SubLimit
            \/ serial[d] >= serial[c] + SubLimit
        BY <1>2, <3>1, <3>6, SameIdApart
      <4>2. made >= serial[d] + SubLimit \/ serial[d] > SubLimit
        BY <3>5, <4>1
      <4>3. ASSUME clientMap[i] = d PROVE serial[d] > SubLimit
        <5>1. d # NoConn  BY <3>1, NoConnAssumption
        <5>2. serial[c] <= serial[d]
          BY <1>1, <1>2, <4>3, <5>1 DEF MapHoldsYoungest
        <5>3. SubLimit > 0  BY LimitAssumption
        <5>4. QED  BY <3>5, <4>1, <5>2, <5>3
      <4>4. QED  BY <1>1, <3>2, <3>3, <4>2, <4>3
    <3>7. CASE subId[d] # i
      <4>1. clientMap'[subId[d]] = clientMap[subId[d]]  BY <1>3, <3>5, <3>7
      <4>2. clientMap[i] # d
        <5>1. d # NoConn  BY <3>1, NoConnAssumption
        <5>2. QED  BY <1>1, <3>7, <5>1 DEF MapHoldsYoungest
      <4>3. QED  BY <1>1, <3>2, <3>3, <4>1, <4>2
    <3>8. QED  BY <3>6, <3>7
  <2>2. QED  BY <2>1 DEF LostOnlyToANamesake
<1>9. QED  BY <1>5, <1>6, <1>7, <1>8

-----------------------------------------------------------------------------

ServerInv == SocketInv /\ IdInv

LEMMA ServerStepKeepsInv ==
    ASSUME ServerInv, ServerNext
    PROVE  ServerInv'
<1> USE DEF ServerInv
<1>0. SocketTypeOK  BY DEF SocketInv
<1>1. CASE Stop
  <2>1. UNCHANGED <<socketVars, idVars, clientMap, removed>>
        /\ isStopped' \in BOOLEAN
    BY <1>1 DEF Stop
  <2>2. SocketInv' /\ Connected' = Connected
    BY <2>1 DEF socketVars, SocketInv, SocketTypeOK, BufferFollows,
                HandledInOrder, FloodedByLarge, Connected
  <2>3. QED  BY <2>1, <2>2, SameConnectedKeepsInv
<1>2. ASSUME NEW c \in Conn, Disconnect(c)
      PROVE  ServerInv'
  <2>1. SocketInv'  BY <1>2, SocketEndsKeepsInv DEF Disconnect
  <2>2. Connected' = Connected
    BY <1>0, <1>2 DEF Disconnect, SocketTypeOK, Connected
  <2>3. isStopped' \in BOOLEAN  BY <1>2 DEF Disconnect, IdInv, IdTypeOK
  <2>4. IdInv'  BY <1>2, <2>2, <2>3, SameConnectedKeepsInv DEF Disconnect
  <2>5. QED  BY <2>1, <2>4
<1>3. ASSUME NEW c \in Conn, Close(c)
      PROVE  ServerInv'
  <2>1. SocketInv'  BY <1>3, SocketEndsKeepsInv DEF Close
  <2>2. QED  BY <1>0, <1>3, <2>1, CloseKeepsInv
<1>4. ASSUME NEW c \in Conn, NEW s \in Stream, Connect(c, s)
      PROVE  ServerInv'
  BY <1>0, <1>4, AcceptKeepsInv, ConnectKeepsInv DEF Connect
<1>5. ASSUME NEW c \in Conn, NEW chunk \in 1 .. MaxChunk, Receive(c, chunk)
      PROVE  ServerInv'
  <2>1. SocketInv'  BY <1>5, DataKeepsInv DEF Receive
  <2>2. Connected' = Connected
    BY <1>0, <1>5
    DEF Receive, Data, Discard, HandOn, SocketTypeOK, Connected
  <2>3. isStopped' \in BOOLEAN  BY <1>5 DEF Receive, IdInv, IdTypeOK
  <2>4. IdInv'  BY <1>5, <2>2, <2>3, SameConnectedKeepsInv DEF Receive
  <2>5. QED  BY <2>1, <2>4
<1>6. QED  BY <1>1, <1>2, <1>3, <1>4, <1>5 DEF ServerNext

LEMMA ServerIdleKeepsInv == ServerInv /\ UNCHANGED serverVars => ServerInv'
<1> SUFFICES ASSUME ServerInv, UNCHANGED serverVars PROVE ServerInv'
  OBVIOUS
<1>1. SocketInv' /\ Connected' = Connected
  BY DEF ServerInv, serverVars, socketVars, SocketInv, SocketTypeOK,
         BufferFollows, HandledInOrder, FloodedByLarge, Connected
<1>2. isStopped' \in BOOLEAN
  BY DEF ServerInv, serverVars, IdInv, IdTypeOK
<1>3. UNCHANGED <<idVars, clientMap, removed>>  BY DEF serverVars
<1>4. QED  BY <1>1, <1>2, <1>3, SameConnectedKeepsInv DEF ServerInv

LEMMA ServerInvAlways == ServerSpec => []ServerInv
<1>1. ServerInit => ServerInv
  BY SocketInitInv, IdInitInv DEF ServerInit, ServerInv
<1>2. ServerInv /\ [ServerNext]_serverVars => ServerInv'
  BY ServerStepKeepsInv, ServerIdleKeepsInv
<1>3. QED  BY <1>1, <1>2, PTL DEF ServerSpec

\* The state of the server and its sockets is well typed.
THEOREM ServerTypesCorrect == ServerSpec => []ServerTypeOK
<1>1. ServerInv => ServerTypeOK
  BY DEF ServerInv, SocketInv, IdInv, IdTypeOK, ServerTypeOK
<1>2. QED  BY <1>1, ServerInvAlways, PTL

\* However the bytes are cut, messages are handled in order and without a
\* gap, and none that has come waits.
THEOREM MessagesComeWholeAlways == ServerSpec => []MessagesComeWhole
<1>1. ServerInv => MessagesComeWhole
  BY DEF ServerInv, SocketInv, BufferFollows, HandledInOrder, MessagesComeWhole
<1>2. QED  BY <1>1, ServerInvAlways, PTL

\* Whoever is disconnected as flooding sent a message close to the size of
\* the buffer.
THEOREM OnlyLargeMessagesFloodAlways == ServerSpec => []OnlyLargeMessagesFlood
<1>1. ServerInv => OnlyLargeMessagesFlood
  BY DEF ServerInv, SocketInv, FloodedByLarge, OnlyLargeMessagesFlood
<1>2. QED  BY <1>1, ServerInvAlways, PTL

\* Two clients at work share their extraNonce1 only a whole round apart.
THEOREM OwnExtraNonceAlways == ServerSpec => []OwnExtraNonce
<1>1. ASSUME IdInv, NEW c \in Connected, NEW d \in Connected,
             extraNonce1[c] = extraNonce1[d], serial[c] < serial[d]
      PROVE  serial[d] >= serial[c] + NonceLimit
  <2>1. c \in Numbered /\ d \in Numbered  BY <1>1 DEF IdInv
  <2>2. /\ serial[c] \in Nat /\ serial[d] \in Nat
        /\ extraNonce1[c] \in Nat /\ NonceLimit \in Nat
    BY <1>1, <2>1, LimitAssumption DEF IdInv, IdTypeOK, Numbered
  <2>3. SUFFICES ASSUME serial[d] - serial[c] < NonceLimit PROVE FALSE
    BY <2>2
  <2>4. After(extraNonce1[c], extraNonce1[c], serial[d] - serial[c], NonceLimit)
    BY <1>1, <2>1, <2>3 DEF IdInv, NumbersFollow
  <2>5. serial[d] - serial[c] \in 1 .. NonceLimit - 1  BY <1>1, <2>2, <2>3
  <2>6. QED  BY <2>2, <2>4, <2>5, NotAfterItself
<1>2. ASSUME IdInv, NEW c \in Connected, NEW d \in Connected, c # d
      PROVE  serial[c] < serial[d] \/ serial[d] < serial[c]
  <2>1. c \in Numbered /\ d \in Numbered  BY <1>2 DEF IdInv
  <2>2. serial[c] # serial[d]  BY <1>2, <2>1 DEF IdInv, NumbersFollow
  <2>3. serial[c] \in Nat /\ serial[d] \in Nat
    BY <1>2, <2>1 DEF IdInv, IdTypeOK, Numbered
  <2>4. QED  BY <2>2, <2>3
<1>3. IdInv => OwnExtraNonce  BY <1>1, <1>2 DEF OwnExtraNonce
<1>4. QED  BY <1>3, ServerInvAlways, PTL DEF ServerInv

\* A client that is not found, or taken for removed, has had a namesake.
THEOREM LostOnlyToANamesakeAlways == ServerSpec => []LostOnlyToANamesake
BY ServerInvAlways, PTL DEF ServerInv, IdInv
=============================================================================
