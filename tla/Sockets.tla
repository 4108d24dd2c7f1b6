-------------------------------- MODULE Sockets --------------------------------
(***************************************************************************)
(* TCP on one machine, as far as the server and its clients use it: the    *)
(* queue behind listen, the bytes on their way in both directions, and the *)
(* two ways a client's end may close.  Bytes are counted in pieces: a      *)
(* piece of a command is what one read of the server takes, a piece of a   *)
(* reply what one recv of a client takes.  A piece carries the number of   *)
(* the command of that connection that it belongs to.                      *)
(*                                                                         *)
(* All of it is the operating system's, modelled from the calls that       *)
(* server.cpp, client.cpp and NetworkClient.cpp make.                      *)
(***************************************************************************)
EXTENDS Naturals, Sequences

CONSTANTS
    Conn,      \* the connections clients make, one at a time each
    Room,      \* pieces of replies that fit into the buffers of a connection
    Queue      \* connections that wait behind listen at most

VARIABLES
    backlog,      \* connections the server has not accepted yet
    inbox,        \* inbox[c]: pieces of commands the server has not read
    outbox,       \* outbox[c]: pieces of replies the client has not received
    gone,         \* connections whose client has closed its end
    reset,        \* those of them that TCP has aborted
    unreported    \* those of them whose server end has not been told

socketVars == <<backlog, inbox, outbox, gone, reset, unreported>>

SocketInit ==
    /\ backlog = <<>>
    /\ inbox = [c \in Conn |-> <<>>]
    /\ outbox = [c \in Conn |-> <<>>]
    /\ gone = {}
    /\ reset = {}
    /\ unreported = {}

queued(c) == \E n \in DOMAIN backlog : backlog[n] = c

pieces(command, n) == [k \in 1..n |-> command]

readable(c) == inbox[c] # <<>> \/ c \in gone

writable(c) == Len(outbox[c]) < Room \/ c \in reset

\* The outcomes of a read on a connection.
hasData(c) == inbox[c] # <<>>
hasError(c) == inbox[c] = <<>> /\ c \in unreported
hasEnded(c) == inbox[c] = <<>> /\ c \in gone \ unreported

\* A client that closes with replies unread aborts the connection.
hangUp(c) ==
    /\ gone' = gone \cup {c}
    /\ IF outbox[c] = <<>>
       THEN UNCHANGED <<outbox, reset, unreported>>
       ELSE /\ outbox' = [outbox EXCEPT ![c] = <<>>]
            /\ reset' = reset \cup {c}
            /\ unreported' = unreported \cup {c}
    /\ UNCHANGED <<backlog, inbox>>

\* A send to an end that is closed is answered by a reset; one to a
\* connection just reset fails; otherwise it waits for room.
sendable(c, n) == c \in gone \/ Len(outbox[c]) + n <= Room

transmit(c, command, n) ==
    /\ sendable(c, n)
    /\ unreported' = unreported \ {c}
    /\ reset' = IF c \in gone THEN reset \cup {c} ELSE reset
    /\ outbox' = IF c \in gone THEN outbox
                 ELSE [outbox EXCEPT ![c] = @ \o pieces(command, n)]
    /\ UNCHANGED <<backlog, inbox, gone>>

\* A send to a reset connection whose error has been reported already
\* raises SIGPIPE, which nobody handles or ignores.
raisesSigpipe(c) == c \in reset \ unreported

\* The server closes its end: the connection is no more.
release(c) ==
    /\ gone' = gone \ {c}
    /\ reset' = reset \ {c}
    /\ UNCHANGED <<backlog, inbox, outbox, unreported>>

===============================================================================
