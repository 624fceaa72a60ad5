----------------------------- MODULE ClientSocket -----------------------------
(***************************************************************************)
(* class.StratumClientSocket.js: the bytes of a connection come in chunks, *)
(* are collected, and handed on as messages.  What a client sends is a     *)
(* stream: its size, the positions at which its messages end, and the      *)
(* position at which the bytes are found to make no message, 0 for none.   *)
(***************************************************************************)
EXTENDS Naturals, FiniteSetsExt

CONSTANTS Conn,      \* sockets; a closed one stands for a new one
          Stream,    \* what clients may send
          MaxChunk,  \* bytes of a data event: what Node reads at once
          MaxBuffer  \* MAX_BUFFER_SIZE

VARIABLES
    sock,     \* the net.Socket: "none", "open", "destroyed", "closed"
    stream,   \* what the client sends
    received, \* bytes of it that have been read
    start,    \* bytes of it that are in bosBuffer no more
    handled,  \* ends of the messages that were emitted
    flooded   \* bosBuffer would have overrun

socketVars == <<sock, stream, received, start, handled, flooded>>

ASSUME StreamAssumption ==
    /\ Stream # {}
    /\ \A s \in Stream : /\ s.size \in Nat /\ s.bad \in 0 .. s.size
                         /\ s.ends \subseteq 1 .. s.size

ASSUME BufferBounds == MaxChunk \in Nat \ {0} /\ MaxBuffer \in Nat

\* The ends of c's messages in bosBuffer when the bytes up to to are in.
Whole(c, to) == {e \in stream[c].ends : start[c] < e /\ e <= to}

-----------------------------------------------------------------------------

SocketInit ==
    /\ sock = [c \in Conn |-> "none"]
    /\ stream = [c \in Conn |-> CHOOSE s \in Stream : TRUE]
    /\ received = [c \in Conn |-> 0]
    /\ start = [c \in Conn |-> 0]
    /\ handled = [c \in Conn |-> {}]
    /\ flooded = [c \in Conn |-> FALSE]

\* A new connection; _init.
Accept(c, s) ==
    /\ sock' = [sock EXCEPT ![c] = "open"]
    /\ stream' = [stream EXCEPT ![c] = s]
    /\ received' = [received EXCEPT ![c] = 0]
    /\ start' = [start EXCEPT ![c] = 0]
    /\ handled' = [handled EXCEPT ![c] = {}]
    /\ flooded' = [flooded EXCEPT ![c] = FALSE]

\* Seeded bug: the bytes that were taken out still count.
OverrunsByAll(c, to) == to > MaxBuffer

\* append() refuses what does not fit, the buffer being as it was left.
Overruns(c, to) == to - start[c] > MaxBuffer

\* deserialize() throws.
Malformed(c, to) == stream[c].bad # 0 /\ stream[c].bad <= to

\* The buffer is cleared with the messages in it; init() of
\* class.StratumClient.js disconnects.
Discard(c, to) ==
    /\ start' = [start EXCEPT ![c] = to]
    /\ sock' = [sock EXCEPT ![c] = "destroyed"]
    /\ UNCHANGED handled

\* Seeded bug: of several messages the first is handed on.
HandOnFirst(c, to) ==
    LET whole == Whole(c, to)
    IN  /\ whole # {}
        /\ handled' = [handled EXCEPT ![c] = @ \cup {Min(whole)}]
        /\ start' = [start EXCEPT ![c] = Max(whole)]
        /\ UNCHANGED sock

\* The messages that are whole leave the buffer and are emitted in order.
HandOn(c, to) ==
    LET whole == Whole(c, to)
    IN  /\ whole # {}
        /\ handled' = [handled EXCEPT ![c] = @ \cup whole]
        /\ start' = [start EXCEPT ![c] = Max(whole)]
        /\ UNCHANGED sock

\* _bosReader.
Data(c, chunk) ==
    LET to == received[c] + chunk
    IN  /\ sock[c] = "open" /\ to <= stream[c].size
        /\ received' = [received EXCEPT ![c] = to]
        /\ flooded' = [flooded EXCEPT ![c] = Overruns(c, to)]
        /\ \/ (Overruns(c, to) \/ Malformed(c, to)) /\ Discard(c, to)
           \/ ~Overruns(c, to) /\ ~Malformed(c, to) /\ HandOn(c, to)
           \/ /\ ~Overruns(c, to) /\ ~Malformed(c, to)
              /\ Whole(c, to) = {}
              /\ UNCHANGED <<sock, start, handled>>
        /\ UNCHANGED stream

-----------------------------------------------------------------------------

\* Types of the sockets' state.
SocketTypeOK ==
    /\ sock \in [Conn -> {"none", "open", "destroyed", "closed"}]
    /\ stream \in [Conn -> Stream]
    /\ received \in [Conn -> Nat]
    /\ start \in [Conn -> Nat]
    /\ handled \in [Conn -> SUBSET Nat]
    /\ flooded \in [Conn -> BOOLEAN]
    /\ \A c \in Conn : /\ received[c] <= stream[c].size
                       /\ start[c] <= received[c]
                       /\ handled[c] \subseteq stream[c].ends

\* The messages of a client are handled in order and without a gap, however
\* its bytes are cut into chunks; while it is connected every message that
\* has come is handled.
MessagesComeWhole ==
    \A c \in Conn :
        /\ \A e \in handled[c], f \in stream[c].ends : f < e => f \in handled[c]
        /\ sock[c] = "open" =>
              handled[c] = {e \in stream[c].ends : e <= received[c]}

\* The bytes from one message's end to the next, the last message of a stream
\* ending with it.
Size(s, e) == e - Max({0} \cup {f \in s.ends : f < e})

\* Only a client that sends a message close to the size of the buffer is
\* disconnected as flooding: however many small messages a client sends at
\* once, it is not.
OnlyLargeMessagesFlood ==
    \A c \in Conn :
        flooded[c] =>
            \E e \in stream[c].ends \cup {stream[c].size} :
                Size(stream[c], e) + MaxChunk > MaxBuffer + 1
=============================================================================
