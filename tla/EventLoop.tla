------------------------------- MODULE EventLoop -------------------------------
(***************************************************************************)
(* The main loop of the server (server/server.cpp): select, accept at most *)
(* one connection, then one read and one reply for each slot whose         *)
(* descriptor was readable when select returned.  Everything it calls      *)
(* blocks the whole process.  What a command does is in SocialServer; here *)
(* only that it yields a reply of some length.                             *)
(***************************************************************************)
EXTENDS Sockets, FiniteSets

CONSTANTS
    MAX_CLIENTS,    \* slots of the array client_socket
    FdLimit,        \* the highest descriptor the process may hold
    ReplyPieces     \* lengths of replies, in pieces

ASSUME LoopAssumption ==
    /\ MAX_CLIENTS \in Nat \ {0} /\ FdLimit \in Nat /\ Room \in Nat
    /\ ReplyPieces \subseteq Nat \ {0}

VARIABLES
    pc,              \* where the loop is; "exited" and "killed" are the end
    i,               \* the slot the loop has reached
    client_socket,   \* client_socket[i]: the descriptor in slot i, 0 if empty
    master_set,      \* the descriptors given to select
    read_set,        \* those that were readable when select returned
    peer,            \* peer[sd]: the connection behind an open descriptor
    command          \* the command being answered, 0 for none and for a failed read

loopVars == <<pc, i, client_socket, master_set, read_set, peer, command>>

server_socket == 1          \* any number below those of the clients
Fd == 2..FdLimit

Slot == 1..MAX_CLIENTS
Down == {"exited", "killed"}

freeFds == Fd \ DOMAIN peer
heldBy(c) == {sd \in DOMAIN peer : peer[sd] = c}
slotted == {client_socket[k] : k \in Slot} \ {0}

\* Mutant: the loop stops one slot early.
remaining_OffByOne ==
    {k \in Slot : k >= i /\ k < MAX_CLIENTS /\ client_socket[k] \in read_set}

\* The slots from slot i on that the loop still reads in this pass.
remaining == {k \in Slot : k >= i /\ client_socket[k] \in read_set}

LoopInit ==
    /\ pc = "select"
    /\ i = 1
    /\ client_socket = [k \in Slot |-> 0]
    /\ master_set = {server_socket}
    /\ read_set = {}
    /\ peer = [sd \in {} |-> 0]
    /\ command = 0

-------------------------------------------------------------------------------
(* Waiting and accepting *)

\* select looks at descriptors up to max_sd, the highest one in a slot.
watched == {sd \in master_set : sd = server_socket \/ \E s \in slotted : sd <= s}

readableFds ==
    {sd \in watched : IF sd = server_socket THEN backlog # <<>>
                                            ELSE readable(peer[sd])}

\* select watches every descriptor for writing too, so it waits only while
\* no slot is taken or the buffers of all clients are full.  A descriptor
\* that is not open makes it fail, and the loop calls it again.
Select ==
    /\ pc = "select"
    /\ watched \subseteq {server_socket} \cup DOMAIN peer
    /\ \/ readableFds # {}
       \/ \E sd \in watched \ {server_socket} : writable(peer[sd])
    /\ read_set' = readableFds
    /\ pc' = IF server_socket \in readableFds THEN "accept" ELSE "slots"
    /\ UNCHANGED <<i, client_socket, master_set, peer, command, socketVars>>

\* Mutant: the search for a slot does not stop at the first.
intoSlot_NoBreak(sd) ==
    client_socket' = [k \in Slot |-> IF client_socket[k] = 0 THEN sd
                                                            ELSE client_socket[k]]

\* The first empty slot takes the descriptor; without one it gets none.
intoSlot(sd) ==
    IF \A k \in Slot : client_socket[k] # 0
    THEN UNCHANGED client_socket
    ELSE \E k \in Slot :
             /\ client_socket[k] = 0
             /\ \A j \in 1..(k - 1) : client_socket[j] # 0
             /\ client_socket' = [client_socket EXCEPT ![k] = sd]

Accept ==
    /\ pc = "accept"
    /\ \E new_socket \in freeFds :
           /\ \A sd \in freeFds : new_socket <= sd
           /\ peer' = [sd \in DOMAIN peer \cup {new_socket} |->
                           IF sd = new_socket THEN Head(backlog) ELSE peer[sd]]
           /\ intoSlot(new_socket)
           /\ master_set' = master_set \cup {new_socket}
    /\ backlog' = Tail(backlog)
    /\ pc' = "slots"
    /\ UNCHANGED <<i, read_set, command, inbox, outbox, gone, reset, unreported>>

\* Mutant: a failed accept is not noticed and what is no descriptor is watched.
AcceptFails_Unchecked ==
    /\ pc = "accept" /\ freeFds = {}
    /\ master_set' = master_set \cup {FdLimit + 1}
    /\ pc' = "slots"
    /\ UNCHANGED <<i, client_socket, read_set, peer, command, socketVars>>

\* Without a descriptor accept fails, and error_exit ends the server.
AcceptFails ==
    /\ pc = "accept" /\ freeFds = {}
    /\ pc' = "exited"
    /\ UNCHANGED <<i, client_socket, master_set, read_set, peer, command, socketVars>>

-------------------------------------------------------------------------------
(* Reading and replying *)

\* Slot k is the next one to read.
isNext(k) == k \in remaining /\ \A j \in remaining : k <= j

conn(k) == peer[client_socket[k]]

\* Mutant: what was read is read again in the next pass.
ReadData_Again(k) ==
    /\ pc = "slots" /\ isNext(k) /\ hasData(conn(k))
    /\ command' = Head(inbox[conn(k)])
    /\ pc' = "send"
    /\ i' = k
    /\ UNCHANGED <<client_socket, master_set, read_set, peer, socketVars>>

\* A read takes what has arrived, up to its buffer; how many pieces that
\* is, is left open.  What it took is one command, that of its first word.
ReadData(k) ==
    /\ pc = "slots" /\ isNext(k) /\ hasData(conn(k))
    /\ \E n \in 1..Len(inbox[conn(k)]) :
           inbox' = [inbox EXCEPT ![conn(k)] = SubSeq(@, n + 1, Len(@))]
    /\ command' = Head(inbox[conn(k)])
    /\ pc' = "send"
    /\ i' = k
    /\ UNCHANGED <<client_socket, master_set, read_set, peer, backlog, outbox, gone,
                   reset, unreported>>

\* A failed read counts as data: an empty command, which is unknown.
ReadError(k) ==
    /\ pc = "slots" /\ isNext(k) /\ hasError(conn(k))
    /\ unreported' = unreported \ {conn(k)}
    /\ command' = 0
    /\ pc' = "send"
    /\ i' = k
    /\ UNCHANGED <<client_socket, master_set, read_set, peer, backlog, inbox, outbox,
                   gone, reset>>

\* The part of ReadEnd that all its mutants share.
leave(k) ==
    /\ pc = "slots" /\ isNext(k) /\ hasEnded(conn(k))
    /\ i' = k + 1
    /\ UNCHANGED <<pc, read_set, command>>

close(k) ==
    /\ peer' = [sd \in DOMAIN peer \ {client_socket[k]} |-> peer[sd]]
    /\ release(conn(k))

FD_CLR(k) == master_set' = master_set \ {client_socket[k]}

freeSlot(k) == client_socket' = [client_socket EXCEPT ![k] = 0]

\* Mutants: each forgets one of the calls.
ReadEnd_KeepsWatched(k) == leave(k) /\ close(k) /\ freeSlot(k) /\ UNCHANGED master_set
ReadEnd_KeepsOpen(k) ==
    leave(k) /\ FD_CLR(k) /\ freeSlot(k) /\ UNCHANGED <<peer, socketVars>>

\* Mutant: the end of the stream is taken for data, as an error is.
ReadEnd_AsData(k) ==
    /\ pc = "slots" /\ isNext(k) /\ hasEnded(conn(k))
    /\ command' = 0
    /\ pc' = "send"
    /\ i' = k
    /\ UNCHANGED <<client_socket, master_set, read_set, peer, socketVars>>

\* The client has left; the session that ends here is in SocialServer.
ReadEnd(k) == leave(k) /\ close(k) /\ FD_CLR(k) /\ freeSlot(k)

\* The reply; it waits while the client has too many replies unread.
Send(n) ==
    /\ pc = "send" /\ ~raisesSigpipe(conn(i))
    /\ transmit(conn(i), command, n)
    /\ command' = 0
    /\ pc' = "slots"
    /\ i' = i + 1
    /\ UNCHANGED <<client_socket, master_set, read_set, peer>>

\* Nobody ignores SIGPIPE: the signal ends the process.
SendKills ==
    /\ pc = "send" /\ raisesSigpipe(conn(i))
    /\ pc' = "killed"
    /\ UNCHANGED <<i, client_socket, master_set, read_set, peer, command, socketVars>>

\* The next pass starts with a new read_set and the first slot.
EndOfPass ==
    /\ pc = "slots" /\ remaining = {}
    /\ pc' = "select"
    /\ i' = 1
    /\ read_set' = {}
    /\ UNCHANGED <<client_socket, master_set, peer, command, socketVars>>

Step ==
    \/ Select \/ Accept \/ AcceptFails \/ EndOfPass \/ SendKills
    \/ \E k \in Slot : ReadData(k) \/ ReadError(k) \/ ReadEnd(k)
    \/ \E n \in ReplyPieces : Send(n)

===============================================================================
