------------------------- MODULE ClientServerProperties -------------------------
(***************************************************************************)
(* What the event loop keeps, what the exchange of one command and one     *)
(* reply keeps as long as both fit a buffer, and what the server promises  *)
(* its clients in time.                                                    *)
(***************************************************************************)
EXTENDS ClientServer

\* The slots hold numbers of descriptors, and a read that is answered came
\* from a slot (server.cpp:53-55).
TypeOK ==
    /\ pc \in {"select", "accept", "slots", "send"} \cup Down
    /\ i \in 1..(MAX_CLIENTS + 1)
    /\ client_socket \in [Slot -> Fd \cup {0}]
    /\ master_set \subseteq Fd \cup {server_socket}
    /\ read_set \subseteq Fd \cup {server_socket}
    /\ DOMAIN peer \subseteq Fd /\ \A sd \in DOMAIN peer : peer[sd] \in Conn
    /\ command \in Nat
    /\ backlog \in Seq(Conn)
    /\ inbox \in [Conn -> Seq(Nat)] /\ outbox \in [Conn -> Seq(Nat)]
    /\ gone \subseteq Conn /\ reset \subseteq gone /\ unreported \subseteq reset
    /\ program \in [Conn -> {"off", "idle", "waiting"}]
    /\ asked \in [Conn -> Nat] /\ answer \in [Conn -> Seq(Nat)]

\* The array, the watched set and the open descriptors are three records of
\* one thing: no slot holds a descriptor that is closed or in another slot,
\* and select watches what is open and nothing else (server.cpp:86-109).
SlotsMatchDescriptors ==
    /\ master_set = {server_socket} \cup DOMAIN peer
    /\ slotted \subseteq DOMAIN peer
    /\ \A j, k \in Slot :
           j # k /\ client_socket[j] # 0 => client_socket[j] # client_socket[k]

\* The set returned by select is used after other descriptors have been
\* accepted, read and closed; still no read waits for data, and none is made
\* on a descriptor that is closed (server.cpp:99-101).
ReadNeverBlocks ==
    pc = "slots" => \A k \in remaining :
                        client_socket[k] \in DOMAIN peer /\ readable(conn(k))

\* One reply at a time fits, so a client cannot hold up the server by
\* receiving late (server.cpp:128).
SendNeverBlocks ==
    pc = "send" => \A n \in ReplyPieces : sendable(conn(i), n)

\* What a client takes for the reply to a command is the reply to that
\* command, all of it and nothing else (client.cpp:41-48,
\* NetworkClient.cpp:53-65).
AnswerIsForCommand ==
    \A c \in Conn : program[c] = "idle" /\ asked[c] > 0 => answer[c] = <<asked[c]>>

\* Clients that leave at their prompt, having read their replies, never take
\* the server down: accept has descriptors, and no send meets a reset
\* connection (server.cpp:77, 103-128).
ServerStaysUp == pc \notin Down

-------------------------------------------------------------------------------
(* Abstract specification *)

Exchange == INSTANCE RequestReply WITH
    up <- pc \notin Down,
    stage <- [c \in Conn |->
                 IF program[c] # "waiting" THEN program[c]
                 ELSE IF outbox[c] = <<>> THEN "asked" ELSE "answered"],
    number <- asked,
    received <- answer

\* The loop, its sockets and the clients implement RequestReply: no command
\* is run twice or answered on another connection, although descriptors,
\* slots and connections are used again (server.cpp:74-131, client.cpp:34-50).
AnsweredOnce == Exchange!ExchangeSpec

-------------------------------------------------------------------------------
(* In time, under FairSpec *)

inSlot(c) == \E k \in Slot : client_socket[k] # 0 /\ conn(k) = c

\* A command that has reached a connection with a slot is answered, however
\* many others come, go and ask (server.cpp:96-131).
SlottedAreAnswered ==
    \A c \in Conn :
        (inSlot(c) /\ hasData(c) /\ program[c] = "waiting") ~> program[c] # "waiting"

\* A connection that waits behind listen is accepted (server.cpp:74-79).
QueuedAreAccepted == \A c \in Conn : queued(c) ~> ~queued(c)

\* The descriptor of a client that has left a slot is given back, not only
\* the slot (server.cpp:103-109).
LeftAreReleased == \A c \in Conn : (inSlot(c) /\ c \in gone) ~> heldBy(c) = {}

-------------------------------------------------------------------------------
(* Statements of the README that the code does not satisfy *)

\* README.md:25, "accepting and managing multiple TCP client connections":
\* a command on an accepted connection is answered, or its client leaves.
AcceptedAreAnswered ==
    \A c \in Conn :
        (heldBy(c) # {} /\ hasData(c) /\ program[c] = "waiting")
            ~> program[c] # "waiting"

\* README.md:13, "manages multiple concurrent client connections": one client
\* that exits at its prompt does not end the service of the others.
ExitsAreHarmless == pc # "killed"

===============================================================================
