----------------------------- MODULE NetworkClient -----------------------------
(***************************************************************************)
(* The connection of the Qt program (qt_client/NetworkClient.cpp), one     *)
(* socket for all its windows, and the server process at its other end,    *)
(* which may end and be started again while a reply is under way.  Other   *)
(* people use the server through connections of their own.                 *)
(*                                                                         *)
(* sendCommand is two steps: the server runs the command, and the program  *)
(* gets what recv returned.  Commands and replies are short enough for one *)
(* read and one recv; longer ones are the subject of ClientServer.         *)
(***************************************************************************)
EXTENDS CommandFactory

CONSTANTS
    MaxCrashes,    \* bound: how often the server ends
    MaxPeers,      \* bound: how many other clients are connected at a time
    PeerText,      \* what other clients write in conversations
    PeerRoom       \* bound: they write while there are fewer messages than this

ASSUME NetworkAssumption == MaxCrashes \in Nat /\ MaxPeers \in Nat /\ PeerRoom \in Nat

VARIABLES
    sock,      \* the descriptor at the server's end, or one of the states below
    reply,     \* what sendCommand is about to return, or Waiting
    peers,     \* the descriptors behind which other clients are
    running,   \* is there a server process
    crashes

NotConnected == "-1"
Ended == "ended"      \* the server has closed: recv will report it
Reset == "reset"      \* and has refused what was sent since: send will report it

ASSUME DescriptorAssumption == {NotConnected, Ended, Reset} \cap Sd = {}

networkVars == <<sock, reply, peers, running, crashes>>

\* The server holds the other end.  The program cannot tell: its own
\* isConnected(), which nothing calls, is sock # NotConnected.
connected == sock \in Sd

Waiting == [kind |-> "none", rows |-> {}]
Failed == [kind |-> "ERROR", rows |-> {}]

NetworkInit ==
    /\ Init
    /\ sock = NotConnected
    /\ reply = Waiting
    /\ peers = {}
    /\ running = TRUE
    /\ crashes = 0

-------------------------------------------------------------------------------
(* The program's side *)

\* A socket is kept whatever has become of it.
connectToServer ==
    \/ sock # NotConnected /\ UNCHANGED <<vars, sock>>
    \/ /\ sock = NotConnected /\ running
       /\ \E sd \in Sd : Accept(sd) /\ sock' = sd

Offline == sock = NotConnected /\ ~running

\* The reply a command gets from the server.
Answered(text) ==
    /\ connected
    /\ execute(sock, text)
    /\ reply' = [kind |-> response'.kind, rows |-> response'.rows]
    /\ UNCHANGED sock

\* Mutant: a failed send leaves the socket as it is.
SendFails_KeepsSocket ==
    /\ sock \in {NotConnected, Reset}
    /\ reply' = Failed
    /\ UNCHANGED <<sock, vars>>

\* Only a failed send gives the socket up.
SendFails ==
    /\ sock \in {NotConnected, Reset}
    /\ reply' = Failed
    /\ sock' = NotConnected
    /\ UNCHANGED vars

\* The send succeeds, recv finds the end of the stream; the socket is kept.
NoAnswer ==
    /\ sock = Ended
    /\ reply' = Failed
    /\ sock' = Reset
    /\ UNCHANGED vars

sendCommand(text) ==
    /\ reply = Waiting
    /\ Answered(text) \/ SendFails \/ NoAnswer
    /\ UNCHANGED <<peers, running, crashes>>

\* A send on a reset connection raises SIGPIPE, which ends the program
\* unless a library it uses ignores that signal: both happen.
sendKills == sock = Reset

\* sendCommand returns to the window that called it.
Returned ==
    /\ reply # Waiting
    /\ reply' = Waiting
    /\ response' = NoResponse
    /\ UNCHANGED <<serverVars, sessionVars, databaseVars, sock, peers, running, crashes>>

\* Replies in which a window finds "OK".
repliedOK == reply.kind \in {"OK", "friends", "requests", "posts"}

-------------------------------------------------------------------------------
(* The server process and the other clients *)

PeerConnects(sd) ==
    /\ running /\ Cardinality(peers) < MaxPeers
    /\ Accept(sd)
    /\ peers' = peers \cup {sd}
    /\ UNCHANGED <<sock, reply, running, crashes>>

PeerCommand(sd) ==
    /\ sd \in peers
    /\ Serve(sd)
    /\ messages' # messages =>
          Len(messages) < PeerRoom /\ messages'[Len(messages')].content \in PeerText
    /\ UNCHANGED networkVars

\* A client has left, or this program has: the server notices.
Leaves(sd) ==
    /\ sd # sock
    /\ Disconnect(sd)
    /\ peers' = peers \ {sd}
    /\ UNCHANGED <<sock, reply, running, crashes>>

\* Whether a reply under way arrives before the end of the stream is open.
Crash ==
    /\ running /\ crashes < MaxCrashes
    /\ Restart
    /\ running' = FALSE
    /\ crashes' = crashes + 1
    /\ peers' = {}
    /\ sock' = IF connected THEN Ended ELSE sock
    /\ reply' \in IF connected /\ reply # Waiting THEN {reply, Failed} ELSE {reply}

Start ==
    /\ ~running
    /\ running' = TRUE
    /\ UNCHANGED <<vars, sock, reply, peers, crashes>>

Elsewhere ==
    \/ \E sd \in Sd : PeerConnects(sd) \/ PeerCommand(sd) \/ Leaves(sd)
    \/ Crash
    \/ Start

===============================================================================
