--------------------------- MODULE ClientServerProofs ---------------------------
(***************************************************************************)
(* The event loop's records stay one, and its reads never wait, for every  *)
(* number of connections, slots and descriptors and for commands and       *)
(* replies of every length.                                                *)
(***************************************************************************)
EXTENDS ClientServerProperties, SequenceTheorems, TLAPS

\* Every connection is in one place: once in the queue, or behind one
\* descriptor.
ConnectionsAreDistinct ==
    /\ \A m, n \in DOMAIN backlog : backlog[m] = backlog[n] => m = n
    /\ \A sd, s \in DOMAIN peer : peer[sd] = peer[s] => sd = s
    /\ \A n \in DOMAIN backlog, sd \in DOMAIN peer : backlog[n] # peer[sd]

\* While a pass lasts, the slots it has not read yet that select reported
\* still have something to read.
ReportedIsReadable ==
    pc \in {"accept", "slots", "send"} =>
        \A k \in Slot :
            client_socket[k] \in read_set /\ (k > i \/ (k = i /\ pc # "send")) =>
                client_socket[k] \in DOMAIN peer /\ readable(conn(k))

\* Between select and accept a connection waits and nothing has been closed;
\* between read and send the slot keeps its descriptor.
StepsFollow ==
    /\ pc = "accept" => /\ backlog # <<>>
                        /\ read_set \subseteq {server_socket} \cup DOMAIN peer
    /\ pc = "send" => i \in Slot /\ client_socket[i] \in DOMAIN peer

LoopInv ==
    /\ TypeOK
    /\ SlotsMatchDescriptors
    /\ ConnectionsAreDistinct
    /\ ReportedIsReadable
    /\ StepsFollow

\* LoopInv speaks of the loop, the sockets and the clients only.
LEMMA LoopStutter ==
    ASSUME LoopInv, UNCHANGED vars
    PROVE  LoopInv'
BY DEF LoopInv, vars, loopVars, socketVars, clientVars, TypeOK, SlotsMatchDescriptors,
       slotted, ConnectionsAreDistinct, ReportedIsReadable, StepsFollow, readable, conn

LEMMA LoopInitially == Init => LoopInv
BY LoopAssumption
   DEF Init, SocketInit, LoopInit, LoopInv, TypeOK, SlotsMatchDescriptors, slotted,
       ConnectionsAreDistinct, ReportedIsReadable, StepsFollow, Slot, Fd, server_socket

\* Actions that leave the sockets alone.
LEMMA SelectKeeps ==
    ASSUME LoopInv, Select, UNCHANGED clientVars
    PROVE  LoopInv'
<1> USE LoopAssumption
    DEF Select, LoopInv, socketVars, clientVars
<1>1. TypeOK'
    BY DEF TypeOK, readableFds, watched, SlotsMatchDescriptors, Down
<1>2. SlotsMatchDescriptors'
    BY DEF SlotsMatchDescriptors, slotted
<1>3. ConnectionsAreDistinct'
    BY DEF ConnectionsAreDistinct
<1>4. ReportedIsReadable'
    <2> SUFFICES ASSUME NEW k \in Slot, client_socket[k] \in readableFds
                 PROVE  client_socket[k] \in DOMAIN peer /\ readable(conn(k))'
        BY DEF ReportedIsReadable
    <2>1. client_socket[k] # server_socket
        <3>1. client_socket[k] \in Fd \cup {0}
            BY DEF TypeOK
        <3> QED
            BY <3>1 DEF Fd, server_socket
    <2>2. client_socket[k] \in DOMAIN peer /\ readable(peer[client_socket[k]])
        BY <2>1 DEF readableFds
    <2> QED
        BY <2>2 DEF readable, conn
<1>5. StepsFollow'
    BY DEF StepsFollow, readableFds, watched
<1> QED
    BY <1>1, <1>2, <1>3, <1>4, <1>5

LEMMA AcceptKeeps ==
    ASSUME LoopInv, Accept, UNCHANGED clientVars
    PROVE  LoopInv'
<1> USE LoopAssumption DEF LoopInv, clientVars
<1>1. PICK new_socket \in freeFds :
          /\ peer' = [sd \in DOMAIN peer \cup {new_socket} |->
                          IF sd = new_socket THEN Head(backlog) ELSE peer[sd]]
          /\ intoSlot(new_socket)
          /\ master_set' = master_set \cup {new_socket}
    BY DEF Accept
<1>2. /\ backlog # <<>> /\ backlog' = Tail(backlog)
      /\ pc = "accept" /\ pc' = "slots"
      /\ UNCHANGED <<i, read_set, command, inbox, outbox, gone, reset, unreported>>
    BY DEF Accept, StepsFollow
<1>3. new_socket \in Fd \ DOMAIN peer
    BY DEF freeFds
<1>4. /\ DOMAIN peer' = DOMAIN peer \cup {new_socket}
      /\ peer'[new_socket] = backlog[1]
      /\ \A sd \in DOMAIN peer : peer'[sd] = peer[sd]
    BY <1>1, <1>2, <1>3 DEF TypeOK
<1>5. /\ backlog' \in Seq(Conn) /\ backlog[1] \in Conn /\ 1 \in DOMAIN backlog
      /\ \A n \in DOMAIN backlog' :
             n + 1 \in DOMAIN backlog /\ n \in Nat /\ backlog'[n] = backlog[n + 1]
    <2>1. backlog \in Seq(Conn) /\ backlog # <<>>
        BY <1>2 DEF TypeOK
    <2> QED
        BY <1>2, <2>1, HeadTailProperties
<1>6. \/ client_socket' = client_socket
      \/ \E k \in Slot : /\ client_socket[k] = 0
                         /\ client_socket' = [client_socket EXCEPT ![k] = new_socket]
    BY <1>1 DEF intoSlot
<1>7. TypeOK'
    BY <1>1, <1>2, <1>3, <1>4, <1>5, <1>6 DEF TypeOK, Down
<1>8. SlotsMatchDescriptors'
    <2>1. \A k \in Slot : client_socket[k] # new_socket /\ new_socket # 0
        BY <1>3 DEF SlotsMatchDescriptors, slotted, Fd
    <2>2. CASE client_socket' = client_socket
        BY <1>1, <1>4, <2>2 DEF SlotsMatchDescriptors, slotted
    <2>3. CASE \E k \in Slot :
                   /\ client_socket[k] = 0
                   /\ client_socket' = [client_socket EXCEPT ![k] = new_socket]
        <3>1. PICK k \in Slot : client_socket' = [client_socket EXCEPT ![k] = new_socket]
            BY <2>3
        <3>2. \A j \in Slot :
                  client_socket'[j] = IF j = k THEN new_socket ELSE client_socket[j]
            BY <3>1 DEF TypeOK
        <3> QED
            BY <1>1, <1>4, <2>1, <3>2 DEF SlotsMatchDescriptors, slotted
    <2> QED
        BY <1>6, <2>2, <2>3
<1>9. ConnectionsAreDistinct'
    BY <1>3, <1>4, <1>5 DEF ConnectionsAreDistinct
<1>10. ReportedIsReadable'
    <2> SUFFICES ASSUME NEW k \in Slot, client_socket'[k] \in read_set, k > i \/ k = i
                 PROVE  client_socket'[k] \in DOMAIN peer' /\ readable(conn(k))'
        BY <1>2 DEF ReportedIsReadable
    <2>1. new_socket \notin read_set
        BY <1>2, <1>3 DEF StepsFollow, Fd, server_socket
    <2>2. client_socket'[k] = client_socket[k]
        BY <1>6, <2>1 DEF TypeOK
    <2>3. client_socket[k] \in DOMAIN peer /\ readable(conn(k))
        BY <1>2, <2>2 DEF ReportedIsReadable
    <2> QED
        BY <1>2, <1>4, <2>2, <2>3 DEF readable, conn
<1>11. StepsFollow'
    BY <1>2 DEF StepsFollow
<1> QED
    BY <1>7, <1>8, <1>9, <1>10, <1>11

LEMMA EndOfPassKeeps ==
    ASSUME LoopInv, EndOfPass \/ AcceptFails \/ SendKills, UNCHANGED clientVars
    PROVE  LoopInv'
<1> USE LoopAssumption
    DEF EndOfPass, AcceptFails, SendKills, LoopInv, socketVars, clientVars
<1>1. TypeOK'
    BY DEF TypeOK, Down
<1>2. SlotsMatchDescriptors'
    BY DEF SlotsMatchDescriptors, slotted
<1>3. ConnectionsAreDistinct'
    BY DEF ConnectionsAreDistinct
<1>4. ReportedIsReadable' /\ StepsFollow'
    BY DEF ReportedIsReadable, StepsFollow
<1> QED
    BY <1>1, <1>2, <1>3, <1>4

\* Reading takes from one connection, which no later slot has.
LEMMA ReadKeeps ==
    ASSUME LoopInv, NEW k \in Slot, ReadData(k) \/ ReadError(k), UNCHANGED clientVars
    PROVE  LoopInv'
<1> USE LoopAssumption DEF LoopInv, clientVars
<1>1. /\ pc = "slots" /\ k >= i /\ client_socket[k] \in read_set
      /\ \A j \in remaining : k <= j
      /\ pc' = "send" /\ i' = k
      /\ UNCHANGED <<client_socket, master_set, read_set, peer, backlog, outbox, gone,
                      reset, clientVars>>
      /\ unreported' \subseteq unreported
    BY DEF ReadData, ReadError, isNext, remaining
<1>2. client_socket[k] \in DOMAIN peer /\ conn(k) \in Conn
    BY <1>1 DEF ReportedIsReadable, TypeOK, conn, Slot
<1>3. /\ inbox' \in [Conn -> Seq(Nat)] /\ command' \in Nat
      /\ \A c \in Conn \ {conn(k)} : inbox'[c] = inbox[c]
    <2>1. CASE ReadError(k)
        BY <2>1 DEF ReadError, TypeOK
    <2>2. CASE ReadData(k)
        <3>1. PICK n \in 1..Len(inbox[conn(k)]) :
                  inbox' = [inbox EXCEPT ![conn(k)] = SubSeq(@, n + 1, Len(@))]
            BY <2>2 DEF ReadData
        <3>2. inbox[conn(k)] \in Seq(Nat) /\ inbox[conn(k)] # <<>>
            BY <1>2, <2>2 DEF TypeOK, ReadData, hasData
        <3>3. Head(inbox[conn(k)]) \in Nat /\ command' = Head(inbox[conn(k)])
            BY <3>2, <2>2 DEF ReadData
        <3>4. SubSeq(inbox[conn(k)], n + 1, Len(inbox[conn(k)])) \in Seq(Nat)
            BY <3>2, SubSeqProperties
        <3> QED
            BY <1>2, <3>1, <3>3, <3>4 DEF TypeOK
    <2> QED
        BY <2>1, <2>2
<1>4. TypeOK'
    BY <1>1, <1>3 DEF TypeOK, Slot
<1>5. SlotsMatchDescriptors' /\ ConnectionsAreDistinct'
    BY <1>1 DEF SlotsMatchDescriptors, ConnectionsAreDistinct, slotted
<1>6. ReportedIsReadable'
    <2> SUFFICES ASSUME NEW j \in Slot, client_socket[j] \in read_set, j > k
                 PROVE  client_socket[j] \in DOMAIN peer /\ readable(conn(j))'
        BY <1>1 DEF ReportedIsReadable
    <2>1. client_socket[j] \in DOMAIN peer /\ readable(conn(j))
        BY <1>1 DEF ReportedIsReadable, TypeOK, Slot
    <2>2. client_socket[j] # client_socket[k] /\ conn(j) # conn(k) /\ conn(j) \in Conn
        BY <1>2, <2>1
        DEF SlotsMatchDescriptors, ConnectionsAreDistinct, TypeOK, Slot, Fd, conn
    <2> QED
        BY <1>1, <1>3, <2>1, <2>2 DEF readable, conn
<1>7. StepsFollow'
    BY <1>1, <1>2 DEF StepsFollow
<1> QED
    BY <1>4, <1>5, <1>6, <1>7

LEMMA ReadEndKeeps ==
    ASSUME LoopInv, NEW k \in Slot, ReadEnd(k), UNCHANGED clientVars
    PROVE  LoopInv'
<1> USE LoopAssumption DEF LoopInv, clientVars
<1>1. /\ pc = "slots" /\ k >= i /\ client_socket[k] \in read_set
      /\ \A j \in remaining : k <= j
      /\ i' = k + 1
      /\ UNCHANGED <<pc, read_set, command, backlog, inbox, outbox, unreported>>
      /\ gone' = gone \ {conn(k)} /\ reset' = reset \ {conn(k)}
      /\ conn(k) \notin unreported
    BY DEF ReadEnd, leave, close, release, isNext, remaining, hasEnded
<1>2. client_socket[k] \in DOMAIN peer /\ conn(k) \in Conn /\ client_socket[k] \in Fd
    BY <1>1 DEF ReportedIsReadable, TypeOK, conn, Slot
<1>3. /\ DOMAIN peer' = DOMAIN peer \ {client_socket[k]}
      /\ \A sd \in DOMAIN peer' : peer'[sd] = peer[sd]
      /\ master_set' = master_set \ {client_socket[k]}
      /\ client_socket' = [client_socket EXCEPT ![k] = 0]
    BY DEF ReadEnd, close, FD_CLR, freeSlot
<1>4. TypeOK'
    BY <1>1, <1>2, <1>3 DEF TypeOK, Slot
<1>5. SlotsMatchDescriptors'
    BY <1>2, <1>3 DEF SlotsMatchDescriptors, slotted, TypeOK, Fd, server_socket
<1>6. ConnectionsAreDistinct'
    BY <1>1, <1>3 DEF ConnectionsAreDistinct
<1>7. ReportedIsReadable'
    <2> SUFFICES ASSUME NEW j \in Slot, client_socket'[j] \in read_set, j > k
                 PROVE  client_socket'[j] \in DOMAIN peer' /\ readable(conn(j))'
        BY <1>1 DEF ReportedIsReadable, Slot
    <2>1. client_socket'[j] = client_socket[j]
        BY <1>3 DEF TypeOK, Slot
    <2>2. client_socket[j] \in DOMAIN peer /\ readable(conn(j))
        BY <1>1, <2>1 DEF ReportedIsReadable, TypeOK, Slot
    <2>3. client_socket[j] # client_socket[k] /\ conn(j) # conn(k)
        BY <1>2, <2>2
        DEF SlotsMatchDescriptors, ConnectionsAreDistinct, TypeOK, Slot, Fd, conn
    <2> QED
        BY <1>1, <1>3, <2>1, <2>2, <2>3 DEF readable, conn
<1>8. StepsFollow'
    BY <1>1 DEF StepsFollow
<1> QED
    BY <1>4, <1>5, <1>6, <1>7, <1>8

LEMMA PiecesAreNumbers ==
    ASSUME NEW c \in Nat, NEW n \in Nat
    PROVE  pieces(c, n) \in Seq(Nat)
BY DEF pieces

LEMMA SendKeeps ==
    ASSUME LoopInv, NEW n \in ReplyPieces, Send(n), UNCHANGED clientVars
    PROVE  LoopInv'
<1> USE LoopAssumption DEF LoopInv, clientVars
<1>1. /\ pc = "send" /\ pc' = "slots" /\ i' = i + 1 /\ command' = 0
      /\ UNCHANGED <<client_socket, master_set, read_set, peer, backlog, inbox, gone>>
      /\ i \in Slot /\ client_socket[i] \in DOMAIN peer /\ conn(i) \in Conn
      /\ transmit(conn(i), command, n)
    BY DEF Send, transmit, StepsFollow, TypeOK, conn
<1>2. outbox' \in [Conn -> Seq(Nat)]
    <2>1. pieces(command, n) \in Seq(Nat)
        BY PiecesAreNumbers DEF TypeOK
    <2>2. outbox[conn(i)] \o pieces(command, n) \in Seq(Nat)
        BY <1>1, <2>1 DEF TypeOK
    <2> QED
        BY <1>1, <2>2 DEF transmit, TypeOK
<1>3. reset' \subseteq gone' /\ unreported' \subseteq reset'
    BY <1>1 DEF transmit, TypeOK
<1>4. TypeOK'
    BY <1>1, <1>2, <1>3 DEF TypeOK, Slot
<1>5. SlotsMatchDescriptors' /\ ConnectionsAreDistinct'
    BY <1>1 DEF SlotsMatchDescriptors, ConnectionsAreDistinct, slotted
<1>6. ReportedIsReadable'
    BY <1>1 DEF ReportedIsReadable, readable, conn, Slot
<1>7. StepsFollow'
    BY <1>1 DEF StepsFollow
<1> QED
    BY <1>4, <1>5, <1>6, <1>7

-------------------------------------------------------------------------------
(* Clients *)

LEMMA ConnectKeeps ==
    ASSUME LoopInv, NEW c \in Conn, Connect(c)
    PROVE  LoopInv'
<1> USE LoopAssumption DEF LoopInv, loopVars
<1>1. /\ backlog' = Append(backlog, c)
      /\ inbox' = [inbox EXCEPT ![c] = <<>>]
      /\ program' = [program EXCEPT ![c] = "idle"]
      /\ UNCHANGED <<asked, answer, outbox, gone, reset, unreported, loopVars>>
      /\ \A n \in DOMAIN backlog : backlog[n] # c
      /\ \A sd \in DOMAIN peer : peer[sd] # c
    BY DEF Connect, queued, heldBy
<1>2. /\ backlog' \in Seq(Conn) /\ backlog' # <<>>
      /\ DOMAIN backlog' = DOMAIN backlog \cup {Len(backlog) + 1}
      /\ backlog'[Len(backlog) + 1] = c
      /\ \A n \in DOMAIN backlog : backlog'[n] = backlog[n] /\ n # Len(backlog) + 1
    <2>1. backlog \in Seq(Conn)
        BY DEF TypeOK
    <2> QED
        BY <1>1, <2>1
<1>3. TypeOK'
    <2>1. inbox' \in [Conn -> Seq(Nat)]
        <3>1. <<>> \in Seq(Nat)
            OBVIOUS
        <3> QED
            BY <1>1, <3>1 DEF TypeOK
    <2> QED
        BY <1>1, <1>2, <2>1 DEF TypeOK
<1>4. SlotsMatchDescriptors'
    BY <1>1 DEF SlotsMatchDescriptors, slotted
<1>5. ConnectionsAreDistinct'
    BY <1>1, <1>2 DEF ConnectionsAreDistinct
<1>6. ReportedIsReadable'
    BY <1>1 DEF ReportedIsReadable, readable, conn, TypeOK
<1>7. StepsFollow'
    BY <1>1, <1>2 DEF StepsFollow
<1> QED
    BY <1>3, <1>4, <1>5, <1>6, <1>7

LEMMA SendCommandKeeps ==
    ASSUME LoopInv, NEW c \in Conn, NEW n \in CommandPieces, SendCommand(c, n)
    PROVE  LoopInv'
<1> USE LoopAssumption DEF LoopInv, loopVars
<1>1. /\ asked' = [asked EXCEPT ![c] = @ + 1]
      /\ inbox' = [inbox EXCEPT ![c] = @ \o pieces(asked[c] + 1, n)]
      /\ program' = [program EXCEPT ![c] = "waiting"]
      /\ UNCHANGED <<answer, backlog, outbox, gone, reset, unreported, loopVars>>
    BY DEF SendCommand
<1>2. /\ inbox[c] \in Seq(Nat) /\ pieces(asked[c] + 1, n) \in Seq(Nat)
      /\ inbox[c] \o pieces(asked[c] + 1, n) \in Seq(Nat)
      /\ inbox[c] # <<>> => inbox[c] \o pieces(asked[c] + 1, n) # <<>>
    <2>1. inbox[c] \in Seq(Nat) /\ asked[c] + 1 \in Nat /\ n \in Nat
        BY ClientAssumption DEF TypeOK
    <2>2. pieces(asked[c] + 1, n) \in Seq(Nat)
        BY <2>1, PiecesAreNumbers
    <2> QED
        BY <2>1, <2>2
<1>3. TypeOK'
    BY <1>1, <1>2 DEF TypeOK
<1>4. SlotsMatchDescriptors' /\ ConnectionsAreDistinct' /\ StepsFollow'
    BY <1>1 DEF SlotsMatchDescriptors, ConnectionsAreDistinct, StepsFollow, slotted
<1>5. \A d \in Conn : readable(d) => readable(d)'
    BY <1>1, <1>2 DEF readable, TypeOK
<1>6. ReportedIsReadable'
    BY <1>1, <1>5 DEF ReportedIsReadable, conn, TypeOK
<1> QED
    BY <1>3, <1>4, <1>6

LEMMA ReceiveKeeps ==
    ASSUME LoopInv, NEW c \in Conn, Receive(c)
    PROVE  LoopInv'
<1> USE LoopAssumption DEF LoopInv, loopVars
<1>1. PICK n \in 1..Len(outbox[c]) :
          /\ answer' = [answer EXCEPT ![c] = SubSeq(outbox[c], 1, n)]
          /\ outbox' = [outbox EXCEPT ![c] = SubSeq(@, n + 1, Len(@))]
    BY DEF Receive
<1>2. /\ program' = [program EXCEPT ![c] = "idle"]
      /\ UNCHANGED <<asked, backlog, inbox, gone, reset, unreported, loopVars>>
    BY DEF Receive
<1>3. /\ SubSeq(outbox[c], 1, n) \in Seq(Nat)
      /\ SubSeq(outbox[c], n + 1, Len(outbox[c])) \in Seq(Nat)
    <2>1. outbox[c] \in Seq(Nat)
        BY DEF TypeOK
    <2> QED
        BY <2>1, SubSeqProperties
<1>4. TypeOK'
    BY <1>1, <1>2, <1>3 DEF TypeOK
<1>5. SlotsMatchDescriptors' /\ ConnectionsAreDistinct' /\ StepsFollow'
    BY <1>2 DEF SlotsMatchDescriptors, ConnectionsAreDistinct, StepsFollow, slotted
<1>6. ReportedIsReadable'
    BY <1>2 DEF ReportedIsReadable, readable, conn
<1> QED
    BY <1>4, <1>5, <1>6

LEMMA QuitKeeps ==
    ASSUME LoopInv, NEW c \in Conn, quit(c)
    PROVE  LoopInv'
<1> USE LoopAssumption DEF LoopInv, loopVars
<1>1. /\ program' = [program EXCEPT ![c] = "off"]
      /\ asked' = [asked EXCEPT ![c] = 0]
      /\ answer' = [answer EXCEPT ![c] = <<>>]
      /\ gone' = gone \cup {c}
      /\ UNCHANGED <<backlog, inbox, loopVars>>
      /\ \/ outbox' = outbox /\ unreported' = unreported /\ reset' = reset
         \/ /\ outbox' = [outbox EXCEPT ![c] = <<>>]
            /\ unreported' = unreported \cup {c} /\ reset' = reset \cup {c}
    BY DEF quit, hangUp
<1>2. <<>> \in Seq(Nat)
    OBVIOUS
<1>3. TypeOK'
    <2>1. program' \in [Conn -> {"off", "idle", "waiting"}] /\ asked' \in [Conn -> Nat]
        BY <1>1 DEF TypeOK
    <2>2. answer' \in [Conn -> Seq(Nat)]
        BY <1>1, <1>2 DEF TypeOK
    <2>3. outbox' \in [Conn -> Seq(Nat)]
        BY <1>1, <1>2 DEF TypeOK
    <2>4. gone' \subseteq Conn /\ reset' \subseteq gone' /\ unreported' \subseteq reset'
        BY <1>1 DEF TypeOK
    <2> QED
        BY <1>1, <2>1, <2>2, <2>3, <2>4 DEF TypeOK
<1>4. SlotsMatchDescriptors' /\ ConnectionsAreDistinct' /\ StepsFollow'
    BY <1>1 DEF SlotsMatchDescriptors, ConnectionsAreDistinct, StepsFollow, slotted
<1>5. ReportedIsReadable'
    BY <1>1 DEF ReportedIsReadable, readable, conn
<1> QED
    BY <1>3, <1>4, <1>5

-------------------------------------------------------------------------------
(* The invariant and what follows from it *)

\* The records of the loop and the readiness of the slots it has still to
\* read, kept by every step of the server and of the clients.
THEOREM LoopInvariance == Spec => []LoopInv
<1>1. Init => LoopInv
    BY LoopInitially
<1>2. LoopInv /\ [Next]_vars => LoopInv'
    <2> SUFFICES ASSUME LoopInv, [Next]_vars
                 PROVE  LoopInv'
        OBVIOUS
    <2>1. CASE UNCHANGED vars
        BY <2>1, LoopStutter
    <2>2. CASE ServerStep
        <3>1. CASE Select
            BY <2>2, <3>1, SelectKeeps DEF ServerStep
        <3>2. CASE Accept
            BY <2>2, <3>2, AcceptKeeps DEF ServerStep
        <3>3. CASE EndOfPass \/ AcceptFails \/ SendKills
            BY <2>2, <3>3, EndOfPassKeeps DEF ServerStep
        <3>4. CASE \E k \in Slot : ReadData(k) \/ ReadError(k) \/ ReadEnd(k)
            BY <2>2, <3>4, ReadKeeps, ReadEndKeeps DEF ServerStep
        <3>5. CASE \E n \in ReplyPieces : Send(n)
            BY <2>2, <3>5, SendKeeps DEF ServerStep
        <3> QED
            BY <2>2, <3>1, <3>2, <3>3, <3>4, <3>5 DEF ServerStep, Step
    <2>3. CASE \E c \in Conn : ClientStep(c)
        BY <2>3, ConnectKeeps, SendCommandKeeps, ReceiveKeeps, QuitKeeps
        DEF ClientStep, HangUp, Lost
    <2> QED
        BY <2>1, <2>2, <2>3 DEF Next
<1> QED
    BY <1>1, <1>2, PTL DEF Spec

\* The loop's variables, the sockets and the clients have their types.
THEOREM LoopTypes == Spec => []TypeOK
<1>1. LoopInv => TypeOK
    BY DEF LoopInv
<1> QED
    BY <1>1, LoopInvariance, PTL

\* Slot array, watched set and open descriptors stay one, however many
\* clients come and go.
THEOREM SlotsAreDescriptors == Spec => []SlotsMatchDescriptors
<1>1. LoopInv => SlotsMatchDescriptors
    BY DEF LoopInv
<1> QED
    BY <1>1, LoopInvariance, PTL

\* The server's one thread never waits in read and never reads a closed
\* descriptor.
THEOREM ReadsNeverBlock == Spec => []ReadNeverBlocks
<1>1. LoopInv => ReadNeverBlocks
    BY DEF LoopInv, ReportedIsReadable, ReadNeverBlocks, remaining, TypeOK, Slot
<1> QED
    BY <1>1, LoopInvariance, PTL

===============================================================================
