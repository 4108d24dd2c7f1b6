------------------------------ MODULE ClientServer ------------------------------
(***************************************************************************)
(* The event loop and its clients.  A client sends a command, receives     *)
(* once, and takes what it got for the reply: the loop of the command-line *)
(* client (client/client.cpp) and NetworkClient::sendCommand of the Qt     *)
(* client.  After an error the client closes, as the command-line client   *)
(* does.                                                                   *)
(***************************************************************************)
EXTENDS EventLoop

CONSTANTS
    CommandPieces,   \* lengths of commands, in pieces
    MaxCommands,     \* commands sent on one connection at most
    Kills            \* whether programs are ended while they wait

ASSUME ClientAssumption ==
    /\ CommandPieces \subseteq Nat /\ MaxCommands \in Nat /\ Kills \in BOOLEAN

VARIABLES
    program,    \* program[c]: "off", "idle" at its prompt, or "waiting" in recv
    asked,      \* asked[c]: commands sent on the connection
    answer      \* answer[c]: the pieces received last

clientVars == <<program, asked, answer>>

vars == <<loopVars, socketVars, clientVars>>

Init ==
    /\ SocketInit
    /\ LoopInit
    /\ program = [c \in Conn |-> "off"]
    /\ asked = [c \in Conn |-> 0]
    /\ answer = [c \in Conn |-> <<>>]

\* The kernel completes a connection before the server accepts it.
Connect(c) ==
    /\ program[c] = "off" /\ pc \notin Down
    /\ ~queued(c) /\ heldBy(c) = {} /\ Len(backlog) < Queue
    /\ backlog' = Append(backlog, c)
    /\ inbox' = [inbox EXCEPT ![c] = <<>>]
    /\ program' = [program EXCEPT ![c] = "idle"]
    /\ UNCHANGED <<asked, answer, outbox, gone, reset, unreported, loopVars>>

\* Mutant: a command is sent before the reply to the last one has come.
SendCommand_Eager(c, n) ==
    /\ program[c] # "off" /\ asked[c] < MaxCommands
    /\ asked' = [asked EXCEPT ![c] = @ + 1]
    /\ inbox' = [inbox EXCEPT ![c] = @ \o pieces(asked[c] + 1, n)]
    /\ program' = [program EXCEPT ![c] = "waiting"]
    /\ UNCHANGED <<answer, backlog, outbox, gone, reset, unreported, loopVars>>

\* An empty line at the prompt sends nothing and still waits for a reply.
SendCommand(c, n) ==
    /\ program[c] = "idle" /\ asked[c] < MaxCommands
    /\ asked' = [asked EXCEPT ![c] = @ + 1]
    /\ inbox' = [inbox EXCEPT ![c] = @ \o pieces(asked[c] + 1, n)]
    /\ program' = [program EXCEPT ![c] = "waiting"]
    /\ UNCHANGED <<answer, backlog, outbox, gone, reset, unreported, loopVars>>

\* One recv takes what has arrived, up to its buffer.
Receive(c) ==
    /\ program[c] = "waiting" /\ outbox[c] # <<>>
    /\ \E n \in 1..Len(outbox[c]) :
           /\ answer' = [answer EXCEPT ![c] = SubSeq(outbox[c], 1, n)]
           /\ outbox' = [outbox EXCEPT ![c] = SubSeq(@, n + 1, Len(@))]
    /\ program' = [program EXCEPT ![c] = "idle"]
    /\ UNCHANGED <<asked, backlog, inbox, gone, reset, unreported, loopVars>>

\* The program ends, and what it knew with it.
quit(c) ==
    /\ hangUp(c)
    /\ program' = [program EXCEPT ![c] = "off"]
    /\ asked' = [asked EXCEPT ![c] = 0]
    /\ answer' = [answer EXCEPT ![c] = <<>>]
    /\ UNCHANGED loopVars

\* "exit" at the prompt, or the end of the program at any time.
HangUp(c) ==
    /\ \/ program[c] = "idle"
       \/ program[c] = "waiting" /\ Kills
    /\ quit(c)

\* The server has ended: nothing more will be received.
Lost(c) ==
    /\ program[c] = "waiting" /\ outbox[c] = <<>> /\ pc \in Down
    /\ quit(c)

ServerStep == Step /\ UNCHANGED clientVars

ClientStep(c) ==
    \/ Connect(c) \/ Receive(c) \/ HangUp(c) \/ Lost(c)
    \/ \E n \in CommandPieces : SendCommand(c, n)

Next == ServerStep \/ \E c \in Conn : ClientStep(c)

Spec == Init /\ [][Next]_vars

\* The server's one thread runs whenever no call of its blocks, and a
\* client that waits in recv gets what has arrived.
FairSpec == Spec /\ WF_vars(ServerStep) /\ \A c \in Conn : WF_vars(Receive(c))

===============================================================================
