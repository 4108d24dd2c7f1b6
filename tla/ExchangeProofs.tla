----------------------------- MODULE ExchangeProofs -----------------------------
(***************************************************************************)
(* While a command fits one read and a reply one recv, and nobody is ended *)
(* while waiting, the exchange between a client and the server has at most *)
(* one piece under way.  So every reply is the one asked for, no reply     *)
(* holds up the server, and no connection is reset.                        *)
(***************************************************************************)
EXTENDS ClientServerProofs, FiniteSetTheorems

ShortExchange ==
    /\ CommandPieces = {1} /\ ReplyPieces = {1} /\ Room >= 1 /\ Kills = FALSE

\* A reply under way is the one its client waits for.
RepliesAwaited ==
    \A c \in Conn :
        /\ program[c] # "waiting" => outbox[c] = <<>>
        /\ outbox[c] # <<>> => outbox[c] = <<asked[c]>>
        /\ program[c] = "off" => asked[c] = 0

\* A command under way is the last one of its client, which waits; so is the
\* command being answered.
CommandsAwaited ==
    /\ pc \notin Down =>
           \A c \in Conn : inbox[c] # <<>> =>
               program[c] = "waiting" /\ inbox[c] = <<asked[c]>> /\ outbox[c] = <<>>
    /\ pc = "send" =>
           /\ program[conn(i)] = "waiting" /\ command = asked[conn(i)]
           /\ inbox[conn(i)] = <<>> /\ outbox[conn(i)] = <<>>

\* Clients leave at their prompt, in order; while the server runs, their
\* connections and those they leave are in its hands.
LeavingIsOrderly ==
    /\ reset = {} /\ pc # "killed"
    /\ \A c \in gone : program[c] = "off"
    /\ pc \notin Down =>
           \A c \in Conn : c \in gone \/ program[c] # "off" =>
               queued(c) \/ heldBy(c) # {}

ExchangeInv ==
    RepliesAwaited /\ CommandsAwaited /\ LeavingIsOrderly /\ AnswerIsForCommand

\* Taking one of one: what is taken, and what is left.
LEMMA TakeOne ==
    ASSUME NEW x \in Nat
    PROVE  /\ SubSeq(<<x>>, 1, 1) = <<x>> /\ SubSeq(<<x>>, 2, 1) = <<>>
           /\ Len(<<x>>) = 1
<1>1. <<x>> \in Seq(Nat) /\ Len(<<x>>) = 1
    OBVIOUS
<1>2. SubSeq(<<x>>, 2, 1) = <<>>
    BY <1>1
<1>3. SubSeq(<<x>>, 1, Len(<<x>>)) = <<x>>
    BY <1>1, SubSeqFull
<1> QED
    BY <1>1, <1>2, <1>3

LEMMA ExchangeInitially == Init => ExchangeInv
BY DEF Init, SocketInit, LoopInit, ExchangeInv, RepliesAwaited, CommandsAwaited,
       LeavingIsOrderly, AnswerIsForCommand, Down

LEMMA ExchangeStutter ==
    ASSUME ExchangeInv, UNCHANGED vars
    PROVE  ExchangeInv'
BY DEF ExchangeInv, vars, loopVars, socketVars, clientVars, RepliesAwaited,
       CommandsAwaited, LeavingIsOrderly, AnswerIsForCommand, conn, queued, heldBy

\* The loop's own steps, those that touch no bytes.
LEMMA LoopKeepsExchange ==
    ASSUME LoopInv, ExchangeInv, UNCHANGED clientVars,
           Select \/ EndOfPass \/ AcceptFails \/ SendKills
    PROVE  ExchangeInv'
<1> USE DEF ExchangeInv, clientVars, socketVars
<1>1. ~SendKills
    BY DEF SendKills, raisesSigpipe, LeavingIsOrderly
<1>2. /\ UNCHANGED <<peer, socketVars, clientVars>>
      /\ pc' # "send" /\ pc' # "killed" /\ (pc' \notin Down => pc \notin Down)
    BY <1>1 DEF Select, EndOfPass, AcceptFails, Down
<1>3. RepliesAwaited' /\ AnswerIsForCommand'
    BY <1>2 DEF RepliesAwaited, AnswerIsForCommand
<1>4. CommandsAwaited'
    BY <1>2 DEF CommandsAwaited
<1>5. LeavingIsOrderly'
    BY <1>2 DEF LeavingIsOrderly, queued, heldBy
<1> QED
    BY <1>3, <1>4, <1>5

LEMMA AcceptKeepsExchange ==
    ASSUME LoopInv, ExchangeInv, UNCHANGED clientVars, Accept
    PROVE  ExchangeInv'
<1> USE DEF ExchangeInv, clientVars
<1>1. PICK new_socket \in freeFds :
          peer' = [sd \in DOMAIN peer \cup {new_socket} |->
                       IF sd = new_socket THEN Head(backlog) ELSE peer[sd]]
    BY DEF Accept
<1>2. /\ backlog' = Tail(backlog)
      /\ pc = "accept" /\ pc' = "slots" /\ backlog # <<>> /\ backlog \in Seq(Conn)
      /\ UNCHANGED <<inbox, outbox, gone, reset, unreported>>
    BY DEF Accept, LoopInv, StepsFollow, TypeOK
<1>3. RepliesAwaited' /\ AnswerIsForCommand' /\ CommandsAwaited'
    BY <1>2 DEF RepliesAwaited, AnswerIsForCommand, CommandsAwaited, Down
<1>4. LeavingIsOrderly'
    <2> SUFFICES ASSUME NEW c \in Conn, c \in gone \/ program[c] # "off"
                 PROVE  queued(c)' \/ heldBy(c)' # {}
        BY <1>2 DEF LeavingIsOrderly, Down
    <2>1. CASE heldBy(c) # {}
        BY <1>1, <2>1 DEF heldBy, freeFds
    <2>2. CASE c = backlog[1]
        <3>1. new_socket \in DOMAIN peer' /\ peer'[new_socket] = c
            BY <1>1, <1>2, <2>2
        <3> QED
            BY <3>1 DEF heldBy
    <2>3. ASSUME NEW n \in DOMAIN backlog, backlog[n] = c, n # 1
          PROVE  queued(c)'
        <3>1. n - 1 \in DOMAIN Tail(backlog) /\ Tail(backlog)[n - 1] = c
            BY <1>2, <2>3
        <3> QED
            BY <1>2, <3>1 DEF queued
    <2> QED
        BY <1>2, <2>1, <2>2, <2>3 DEF LeavingIsOrderly, queued, Down
<1> QED
    BY <1>3, <1>4

LEMMA ReadKeepsExchange ==
    ASSUME LoopInv, ExchangeInv, UNCHANGED clientVars,
           NEW k \in Slot, ReadData(k) \/ ReadError(k)
    PROVE  ExchangeInv'
<1> USE DEF ExchangeInv, clientVars
<1>1. ReadData(k) /\ hasData(conn(k))
    BY DEF ReadData, ReadError, hasError, LeavingIsOrderly, LoopInv, TypeOK
<1>2. conn(k) \in Conn
    BY <1>1
    DEF ReadData, isNext, remaining, LoopInv, ReportedIsReadable, TypeOK, conn, Slot
<1>3. /\ program[conn(k)] = "waiting" /\ inbox[conn(k)] = <<asked[conn(k)]>>
      /\ outbox[conn(k)] = <<>>
    BY <1>1, <1>2 DEF ReadData, hasData, CommandsAwaited, Down
<1>4. /\ inbox' = [inbox EXCEPT ![conn(k)] = <<>>] /\ command' = asked[conn(k)]
      /\ pc = "slots" /\ pc' = "send" /\ i' = k
      /\ UNCHANGED <<client_socket, peer, backlog, outbox, gone, reset, unreported>>
    <2>1. PICK n \in 1..Len(inbox[conn(k)]) :
              inbox' = [inbox EXCEPT ![conn(k)] = SubSeq(@, n + 1, Len(@))]
        BY <1>1 DEF ReadData
    <2>2. asked[conn(k)] \in Nat
        BY <1>2 DEF LoopInv, TypeOK
    <2>3. n = 1
        BY <1>3, <2>1, <2>2, TakeOne
    <2>4. inbox' = [inbox EXCEPT ![conn(k)] = <<>>]
        <3> DEFINE rest(s) == SubSeq(s, n + 1, Len(s))
        <3>1. inbox' = [inbox EXCEPT ![conn(k)] = rest(inbox[conn(k)])]
            BY <2>1
        <3>2. rest(inbox[conn(k)]) = <<>>
            BY <1>3, <2>2, <2>3, TakeOne
        <3> HIDE DEF rest
        <3> QED
            BY <3>1, <3>2
    <2>5. command' = asked[conn(k)]
        BY <1>1, <1>3 DEF ReadData
    <2> QED
        BY <1>1, <2>4, <2>5 DEF ReadData
<1>5. RepliesAwaited' /\ AnswerIsForCommand'
    BY <1>4 DEF RepliesAwaited, AnswerIsForCommand
<1>6. CommandsAwaited'
    BY <1>2, <1>3, <1>4 DEF CommandsAwaited, conn, LoopInv, TypeOK, Down
<1>7. LeavingIsOrderly'
    BY <1>4 DEF LeavingIsOrderly, queued, heldBy, Down
<1> QED
    BY <1>5, <1>6, <1>7

LEMMA ReadEndKeepsExchange ==
    ASSUME LoopInv, ExchangeInv, UNCHANGED clientVars, NEW k \in Slot, ReadEnd(k)
    PROVE  ExchangeInv'
<1> USE DEF ExchangeInv, clientVars
<1>1. /\ pc = "slots" /\ pc' = "slots"
      /\ gone' = gone \ {conn(k)} /\ reset' = reset \ {conn(k)}
      /\ peer' = [sd \in DOMAIN peer \ {client_socket[k]} |-> peer[sd]]
      /\ UNCHANGED <<backlog, inbox, outbox>>
    BY DEF ReadEnd, leave, close, release
<1>2. RepliesAwaited' /\ AnswerIsForCommand' /\ CommandsAwaited'
    BY <1>1 DEF RepliesAwaited, AnswerIsForCommand, CommandsAwaited, Down
<1>3. LeavingIsOrderly'
    <2>1. reset' = {} /\ pc' # "killed" /\ \A d \in gone' : program[d] = "off"
        BY <1>1 DEF LeavingIsOrderly
    <2>2. \A d \in gone' : d # conn(k)
        BY <1>1
    <2>3. conn(k) \in gone
        BY DEF ReadEnd, leave, hasEnded
    <2> SUFFICES ASSUME NEW d \in Conn, d \in gone' \/ program[d] # "off"
                 PROVE  queued(d)' \/ heldBy(d)' # {}
        BY <1>1, <2>1 DEF LeavingIsOrderly
    <2>4. d # conn(k)
        BY <2>2, <2>3 DEF LeavingIsOrderly
    <2>5. queued(d) \/ heldBy(d) # {}
        BY <1>1 DEF LeavingIsOrderly, Down
    <2>6. CASE queued(d)
        BY <1>1, <2>6 DEF queued
    <2>7. ASSUME NEW sd \in DOMAIN peer, peer[sd] = d
          PROVE  heldBy(d)' # {}
        <3>1. sd # client_socket[k]
            BY <2>4, <2>7 DEF conn
        <3>2. sd \in DOMAIN peer' /\ peer'[sd] = d
            BY <1>1, <2>7, <3>1
        <3> QED
            BY <3>2 DEF heldBy
    <2> QED
        BY <2>5, <2>6, <2>7 DEF heldBy
<1> QED
    BY <1>2, <1>3

LEMMA SendKeepsExchange ==
    ASSUME ShortExchange, LoopInv, ExchangeInv, UNCHANGED clientVars,
           NEW n \in ReplyPieces, Send(n)
    PROVE  ExchangeInv'
<1> USE DEF ExchangeInv, clientVars
<1>1. /\ pc = "send" /\ conn(i) \in Conn /\ program[conn(i)] = "waiting" /\ n = 1
      /\ command = asked[conn(i)] /\ inbox[conn(i)] = <<>> /\ outbox[conn(i)] = <<>>
    BY DEF Send, ShortExchange, CommandsAwaited, LoopInv, StepsFollow, TypeOK, conn
<1>2. conn(i) \notin gone
    BY <1>1 DEF LeavingIsOrderly
<1>3. pieces(command, 1) = <<asked[conn(i)]>> /\ <<>> \o <<asked[conn(i)]>> = <<asked[conn(i)]>>
    BY <1>1 DEF pieces
<1>4. /\ pc' = "slots" /\ reset' = reset
      /\ outbox' = [outbox EXCEPT ![conn(i)] = <<asked[conn(i)]>>]
      /\ UNCHANGED <<client_socket, peer, backlog, inbox, gone>>
    BY <1>1, <1>2, <1>3 DEF Send, transmit
<1>5. RepliesAwaited' /\ AnswerIsForCommand'
    BY <1>1, <1>4 DEF RepliesAwaited, AnswerIsForCommand, LoopInv, TypeOK
<1>6. CommandsAwaited'
    BY <1>1, <1>4 DEF CommandsAwaited, LoopInv, TypeOK, Down
<1>7. LeavingIsOrderly'
    BY <1>1, <1>4 DEF LeavingIsOrderly, queued, heldBy, Down
<1> QED
    BY <1>5, <1>6, <1>7

LEMMA ConnectKeepsExchange ==
    ASSUME LoopInv, ExchangeInv, NEW c \in Conn, Connect(c)
    PROVE  ExchangeInv'
<1> USE DEF ExchangeInv, loopVars
<1>1. /\ program[c] = "off" /\ pc \notin Down
      /\ backlog' = Append(backlog, c) /\ backlog \in Seq(Conn)
      /\ inbox' = [inbox EXCEPT ![c] = <<>>]
      /\ program' = [program EXCEPT ![c] = "idle"]
      /\ UNCHANGED <<asked, answer, outbox, gone, reset, unreported, loopVars>>
      /\ c \notin gone
    BY DEF Connect, LeavingIsOrderly, LoopInv, TypeOK
<1>2. RepliesAwaited' /\ AnswerIsForCommand'
    BY <1>1 DEF RepliesAwaited, AnswerIsForCommand, LoopInv, TypeOK
<1>3. CommandsAwaited'
    BY <1>1 DEF CommandsAwaited, LoopInv, TypeOK, conn, StepsFollow
<1>4. queued(c)' /\ \A d \in Conn : queued(d) => queued(d)'
    <2>1. /\ DOMAIN backlog' = 1..(Len(backlog) + 1)
          /\ backlog'[Len(backlog) + 1] = c
          /\ \A n \in DOMAIN backlog : n \in DOMAIN backlog' /\ backlog'[n] = backlog[n]
        BY <1>1
    <2>2. Len(backlog) + 1 \in DOMAIN backlog'
        BY <1>1, <2>1
    <2> QED
        BY <2>1, <2>2 DEF queued
<1>5. \A d \in Conn : d # c => program'[d] = program[d]
    BY <1>1 DEF LoopInv, TypeOK
<1>6. \A d \in Conn : heldBy(d)' = heldBy(d)
    BY <1>1 DEF heldBy
<1>7. LeavingIsOrderly'
    BY <1>1, <1>4, <1>5, <1>6 DEF LeavingIsOrderly
<1> QED
    BY <1>2, <1>3, <1>7

LEMMA SendCommandKeepsExchange ==
    ASSUME ShortExchange, LoopInv, ExchangeInv,
           NEW c \in Conn, NEW n \in CommandPieces, SendCommand(c, n)
    PROVE  ExchangeInv'
<1> USE DEF ExchangeInv, loopVars
<1>1. /\ program[c] = "idle" /\ n = 1 /\ asked[c] \in Nat
      /\ asked' = [asked EXCEPT ![c] = @ + 1]
      /\ inbox' = [inbox EXCEPT ![c] = @ \o pieces(asked[c] + 1, 1)]
      /\ program' = [program EXCEPT ![c] = "waiting"]
      /\ UNCHANGED <<answer, backlog, outbox, gone, reset, unreported, loopVars>>
    BY DEF SendCommand, ShortExchange, LoopInv, TypeOK
<1>2. outbox[c] = <<>> /\ c \notin gone /\ (pc = "send" => conn(i) # c)
    BY <1>1 DEF RepliesAwaited, LeavingIsOrderly, CommandsAwaited
<1>3. RepliesAwaited' /\ AnswerIsForCommand'
    BY <1>1, <1>2 DEF RepliesAwaited, AnswerIsForCommand, LoopInv, TypeOK
<1>4. pc \notin Down => inbox'[c] = <<asked'[c]>>
    <2> SUFFICES ASSUME pc \notin Down
                 PROVE  inbox'[c] = <<asked'[c]>>
        OBVIOUS
    <2>1. inbox[c] = <<>>
        BY <1>1 DEF CommandsAwaited
    <2>2. <<>> \o pieces(asked[c] + 1, 1) = <<asked[c] + 1>>
        BY <1>1 DEF pieces
    <2> QED
        BY <1>1, <2>1, <2>2 DEF LoopInv, TypeOK
<1>5. CommandsAwaited'
    BY <1>1, <1>2, <1>4 DEF CommandsAwaited, conn, LoopInv, TypeOK, StepsFollow
<1>6. LeavingIsOrderly'
    BY <1>1, <1>2 DEF LeavingIsOrderly, LoopInv, TypeOK, queued, heldBy
<1> QED
    BY <1>3, <1>5, <1>6

LEMMA ReceiveKeepsExchange ==
    ASSUME LoopInv, ExchangeInv, NEW c \in Conn, Receive(c)
    PROVE  ExchangeInv'
<1> USE DEF ExchangeInv, loopVars
<1>1. PICK n \in 1..Len(outbox[c]) :
          /\ answer' = [answer EXCEPT ![c] = SubSeq(outbox[c], 1, n)]
          /\ outbox' = [outbox EXCEPT ![c] = SubSeq(@, n + 1, Len(@))]
    BY DEF Receive
<1>2. /\ program[c] = "waiting" /\ outbox[c] # <<>>
      /\ program' = [program EXCEPT ![c] = "idle"]
      /\ UNCHANGED <<asked, backlog, inbox, gone, reset, unreported, loopVars>>
    BY DEF Receive
<1>3. outbox[c] = <<asked[c]>>
    BY <1>2 DEF RepliesAwaited
<1>4. /\ answer' = [answer EXCEPT ![c] = <<asked[c]>>]
      /\ outbox' = [outbox EXCEPT ![c] = <<>>]
    <2>1. asked[c] \in Nat
        BY DEF LoopInv, TypeOK
    <2>2. n = 1
        BY <1>1, <1>3, <2>1, TakeOne
    <2> DEFINE first == SubSeq(outbox[c], 1, n)
               rest == SubSeq(outbox[c], n + 1, Len(outbox[c]))
    <2>3. answer' = [answer EXCEPT ![c] = first] /\ outbox' = [outbox EXCEPT ![c] = rest]
        BY <1>1
    <2>4. first = <<asked[c]>> /\ rest = <<>>
        BY <1>3, <2>1, <2>2, TakeOne
    <2> HIDE DEF first, rest
    <2> QED
        BY <2>3, <2>4
<1>5. RepliesAwaited' /\ AnswerIsForCommand'
    BY <1>2, <1>4 DEF RepliesAwaited, AnswerIsForCommand, LoopInv, TypeOK
<1>6. CommandsAwaited'
    BY <1>2, <1>3, <1>4 DEF CommandsAwaited, conn, LoopInv, TypeOK, StepsFollow
<1>7. LeavingIsOrderly'
    BY <1>2 DEF LeavingIsOrderly, LoopInv, TypeOK, queued, heldBy
<1> QED
    BY <1>5, <1>6, <1>7

LEMMA QuitKeepsExchange ==
    ASSUME ShortExchange, LoopInv, ExchangeInv, NEW c \in Conn, HangUp(c) \/ Lost(c)
    PROVE  ExchangeInv'
<1> USE DEF ExchangeInv, loopVars
<1>1. outbox[c] = <<>> /\ (pc \notin Down => inbox[c] = <<>>)
    BY DEF HangUp, Lost, ShortExchange, RepliesAwaited, CommandsAwaited
<1>2. /\ program' = [program EXCEPT ![c] = "off"]
      /\ asked' = [asked EXCEPT ![c] = 0]
      /\ answer' = [answer EXCEPT ![c] = <<>>]
      /\ gone' = gone \cup {c}
      /\ UNCHANGED <<backlog, inbox, outbox, reset, unreported, loopVars>>
    BY <1>1 DEF HangUp, Lost, quit, hangUp
<1>3. RepliesAwaited' /\ AnswerIsForCommand'
    BY <1>1, <1>2 DEF RepliesAwaited, AnswerIsForCommand, LoopInv, TypeOK
<1>4. pc = "send" => conn(i) # c
    BY DEF HangUp, Lost, ShortExchange, CommandsAwaited, Down
<1>5. CommandsAwaited'
    BY <1>1, <1>2, <1>4 DEF CommandsAwaited, conn, LoopInv, TypeOK
<1>6. program[c] # "off" /\ \A d \in Conn : d # c => program'[d] = program[d]
    BY <1>2 DEF HangUp, Lost, LoopInv, TypeOK
<1>7. program'[c] = "off"
    BY <1>2 DEF LoopInv, TypeOK
<1>8. \A d \in Conn : (queued(d)' <=> queued(d)) /\ heldBy(d)' = heldBy(d)
    BY <1>2 DEF queued, heldBy
<1>9. LeavingIsOrderly'
    BY <1>2, <1>6, <1>7, <1>8 DEF LeavingIsOrderly
<1> QED
    BY <1>3, <1>5, <1>9

LEMMA NextKeepsExchange ==
    ASSUME ShortExchange, LoopInv, ExchangeInv, [Next]_vars
    PROVE  ExchangeInv'
<1>1. CASE UNCHANGED vars
    BY <1>1, ExchangeStutter
<1>2. CASE ServerStep
    <2>1. CASE Select \/ EndOfPass \/ AcceptFails \/ SendKills
        BY <1>2, <2>1, LoopKeepsExchange DEF ServerStep
    <2>2. CASE Accept
        BY <1>2, <2>2, AcceptKeepsExchange DEF ServerStep
    <2>3. ASSUME NEW k \in Slot, ReadData(k) \/ ReadError(k)
          PROVE  ExchangeInv'
        BY <1>2, <2>3, ReadKeepsExchange DEF ServerStep
    <2>4. ASSUME NEW k \in Slot, ReadEnd(k)
          PROVE  ExchangeInv'
        BY <1>2, <2>4, ReadEndKeepsExchange DEF ServerStep
    <2>5. ASSUME NEW n \in ReplyPieces, Send(n)
          PROVE  ExchangeInv'
        BY <1>2, <2>5, SendKeepsExchange DEF ServerStep
    <2> QED
        BY <1>2, <2>1, <2>2, <2>3, <2>4, <2>5 DEF ServerStep, Step
<1>3. ASSUME NEW c \in Conn, ClientStep(c)
      PROVE  ExchangeInv'
    BY <1>3, ConnectKeepsExchange, ReceiveKeepsExchange, QuitKeepsExchange,
       SendCommandKeepsExchange DEF ClientStep
<1> QED
    BY <1>1, <1>2, <1>3 DEF Next

-------------------------------------------------------------------------------
(* What follows for short exchanges *)

\* With one piece each way, the exchange between the server and each of its
\* clients stays in step (server.cpp:96-131, client.cpp:34-48).
THEOREM ExchangeInvariance == ShortExchange => (Spec => []ExchangeInv)
<1> SUFFICES ASSUME ShortExchange
             PROVE  Spec => []ExchangeInv
    OBVIOUS
<1>1. LoopInv /\ ExchangeInv /\ [Next]_vars => ExchangeInv'
    BY NextKeepsExchange
<1> QED
    BY <1>1, ExchangeInitially, LoopInvariance, PTL DEF Spec

\* A client takes for the reply to its command exactly that reply
\* (client.cpp:41-48).
THEOREM AnswersMatch == ShortExchange => (Spec => []AnswerIsForCommand)
<1> SUFFICES ASSUME ShortExchange
             PROVE  Spec => []AnswerIsForCommand
    OBVIOUS
<1>1. ExchangeInv => AnswerIsForCommand
    BY DEF ExchangeInv
<1> QED
    BY <1>1, ExchangeInvariance, PTL

\* No client can hold up the server by receiving late (server.cpp:128).
THEOREM SendsNeverBlock == ShortExchange => (Spec => []SendNeverBlocks)
<1> SUFFICES ASSUME ShortExchange
             PROVE  Spec => []SendNeverBlocks
    OBVIOUS
<1>1. ExchangeInv => SendNeverBlocks
    BY LoopAssumption DEF ShortExchange, ExchangeInv, CommandsAwaited, SendNeverBlocks,
       sendable
<1> QED
    BY <1>1, ExchangeInvariance, PTL

\* A client that leaves at its prompt, having received what it asked for,
\* does not end the server: what ends it is a reply of several pieces, or a
\* program ended while it waits (server.cpp:100-128).
THEOREM ShortExitsAreHarmless == ShortExchange => (Spec => []ExitsAreHarmless)
<1> SUFFICES ASSUME ShortExchange
             PROVE  Spec => []ExitsAreHarmless
    OBVIOUS
<1>1. ExchangeInv => ExitsAreHarmless
    BY DEF ExchangeInv, LeavingIsOrderly, ExitsAreHarmless
<1> QED
    BY <1>1, ExchangeInvariance, PTL

-------------------------------------------------------------------------------
(* Descriptors *)

\* A descriptor for every connection there may be at one time.
EnoughDescriptors == IsFiniteSet(Conn) /\ Cardinality(Conn) <= Cardinality(Fd)

\* The connection at the head of the queue has none yet, and no connection
\* has two: when every descriptor is taken there is no such connection.
LEMMA AcceptFindsDescriptor ==
    ASSUME EnoughDescriptors, LoopInv, pc = "accept"
    PROVE  freeFds # {}
<1> SUFFICES ASSUME freeFds = {} PROVE FALSE
    OBVIOUS
<1> DEFINE first == backlog[1]
           others == Conn \ {first}
           held == [sd \in Fd |-> peer[sd]]
<1>1. 1 \in DOMAIN backlog /\ first \in Conn
    <2>1. backlog \in Seq(Conn) /\ backlog # <<>>
        BY DEF LoopInv, TypeOK, StepsFollow
    <2> QED
        BY <2>1
<1>2. DOMAIN peer = Fd
    BY DEF LoopInv, TypeOK, freeFds
<1>3. held \in Injection(Fd, others)
    <2>1. \A sd \in Fd : peer[sd] \in others
        BY <1>1, <1>2 DEF LoopInv, TypeOK, ConnectionsAreDistinct
    <2>2. \A sd, s \in Fd : peer[sd] = peer[s] => sd = s
        BY <1>2 DEF LoopInv, ConnectionsAreDistinct
    <2> QED
        BY <2>1, <2>2 DEF Injection, IsInjective
<1>4. IsFiniteSet(others) /\ Cardinality(others) = Cardinality(Conn) - 1
    BY <1>1, FS_RemoveElement DEF EnoughDescriptors
<1>5. Cardinality(Fd) <= Cardinality(others) /\ IsFiniteSet(Fd)
    BY <1>3, <1>4, FS_Injection
<1>6. Cardinality(Fd) \in Nat /\ Cardinality(Conn) \in Nat
    BY <1>5, FS_CardinalityType DEF EnoughDescriptors
<1> QED
    BY <1>4, <1>5, <1>6 DEF EnoughDescriptors

\* error_exit has not been called for want of a descriptor.
NotExited == pc # "exited"

LEMMA NeverExits ==
    ASSUME EnoughDescriptors, LoopInv, NotExited, [Next]_vars
    PROVE  NotExited'
<1> USE DEF NotExited
<1>1. CASE ServerStep
    <2>1. ~AcceptFails
        BY AcceptFindsDescriptor DEF AcceptFails
    <2> QED
        BY <1>1, <2>1
        DEF ServerStep, Step, Select, Accept, EndOfPass, SendKills, ReadData, ReadError,
            ReadEnd, leave, Send
<1>2. ASSUME NEW c \in Conn, ClientStep(c) PROVE UNCHANGED loopVars
    BY <1>2 DEF ClientStep, Connect, Receive, HangUp, Lost, quit, SendCommand
<1>3. UNCHANGED loopVars => NotExited'
    BY DEF loopVars
<1> QED
    BY <1>1, <1>2, <1>3 DEF Next, vars

\* The server ends by itself only when the clients are more than it may have
\* descriptors, whatever they send and however they leave (server.cpp:74-79).
THEOREM AcceptNeverFails == EnoughDescriptors => (Spec => []NotExited)
<1> SUFFICES ASSUME EnoughDescriptors
             PROVE  Spec => []NotExited
    OBVIOUS
<1>1. Init => NotExited
    BY DEF Init, LoopInit, NotExited
<1>2. LoopInv /\ NotExited /\ [Next]_vars => NotExited'
    BY NeverExits
<1> QED
    BY <1>1, <1>2, LoopInvariance, PTL DEF Spec

\* Clients that leave at their prompt, with their replies read, never take
\* down a server that has descriptors for all of them (server.cpp:77, 103-128).
THEOREM ServerStays ==
    ShortExchange /\ EnoughDescriptors => (Spec => []ServerStaysUp)
<1> SUFFICES ASSUME ShortExchange, EnoughDescriptors
             PROVE  Spec => []ServerStaysUp
    OBVIOUS
<1>1. ExitsAreHarmless /\ NotExited => ServerStaysUp
    BY DEF ExitsAreHarmless, NotExited, ServerStaysUp, Down
<1> QED
    BY <1>1, ShortExitsAreHarmless, AcceptNeverFails, PTL

-------------------------------------------------------------------------------
(* The refinement *)

stage == [c \in Conn |-> IF program[c] # "waiting" THEN program[c]
                         ELSE IF outbox[c] = <<>> THEN "asked" ELSE "answered"]

LEMMA StageStays ==
    ASSUME UNCHANGED <<program, outbox>>
    PROVE  stage' = stage
BY DEF stage

\* A step that moves one client, and that client to the stage given.
LEMMA StageMoves ==
    ASSUME LoopInv, NEW c \in Conn, NEW to,
           stage'[c] = to,
           \A d \in Conn : d # c => program'[d] = program[d] /\ outbox'[d] = outbox[d]
    PROVE  stage' = [stage EXCEPT ![c] = to]
BY DEF stage

LEMMA LoopExchange ==
    ASSUME ExchangeInv, UNCHANGED clientVars,
           \/ Select \/ Accept \/ EndOfPass \/ AcceptFails \/ SendKills
           \/ \E k \in Slot : ReadData(k) \/ ReadError(k) \/ ReadEnd(k)
    PROVE  [Exchange!ExchangeNext]_Exchange!exchangeVars
<1>1. ~SendKills
    BY DEF SendKills, raisesSigpipe, ExchangeInv, LeavingIsOrderly
<1>2. UNCHANGED <<program, outbox, asked, answer>>
    BY <1>1 DEF clientVars, socketVars, Select, Accept, EndOfPass, AcceptFails,
                ReadData, ReadError, ReadEnd, leave, close, release
<1>3. stage' = stage
    BY <1>2, StageStays
<1>4. CASE AcceptFails
    BY <1>2, <1>3, <1>4 DEF AcceptFails, Down, stage, Exchange!ExchangeNext, Exchange!End
<1>5. CASE ~AcceptFails
    <2>1. pc \notin Down /\ pc' \notin Down
        BY <1>1, <1>5 DEF Select, Accept, EndOfPass, ReadData, ReadError, ReadEnd,
                          leave, Down
    <2> QED
        BY <1>2, <1>3, <2>1 DEF stage, Exchange!exchangeVars
<1> QED
    BY <1>4, <1>5

LEMMA SendExchange ==
    ASSUME ShortExchange, LoopInv, ExchangeInv, UNCHANGED clientVars,
           NEW n \in ReplyPieces, Send(n), NEW c \in Conn, c = conn(i)
    PROVE  Exchange!Answer(c)
<1> USE DEF clientVars
<1>1. /\ pc = "send" /\ program[c] = "waiting" /\ n = 1
      /\ outbox[c] = <<>>
    BY DEF Send, ShortExchange, ExchangeInv, CommandsAwaited, LoopInv, StepsFollow,
           TypeOK
<1>2. c \notin gone
    BY <1>1 DEF ExchangeInv, LeavingIsOrderly
<1>3. <<>> \o pieces(command, 1) # <<>>
    BY DEF pieces
<1>4. /\ pc' = "slots"
      /\ outbox' = [outbox EXCEPT ![c] = <<>> \o pieces(command, 1)]
    BY <1>1, <1>2 DEF Send, transmit
<1>5. outbox'[c] # <<>> /\ \A d \in Conn : d # c => outbox'[d] = outbox[d]
    BY <1>1, <1>3, <1>4 DEF LoopInv, TypeOK
<1>6. stage[c] = "asked" /\ stage'[c] = "answered"
    BY <1>1, <1>5 DEF stage
<1>7. stage' = [stage EXCEPT ![c] = "answered"]
    BY <1>1, <1>5, <1>6, StageMoves
<1> QED
    BY <1>1, <1>4, <1>6, <1>7 DEF stage, Down, Exchange!Answer, Exchange!moves

LEMMA ClientExchange ==
    ASSUME ShortExchange, LoopInv, ExchangeInv, NEW c \in Conn, ClientStep(c)
    PROVE  \/ Exchange!Open(c) \/ Exchange!Ask(c) \/ Exchange!Take(c)
           \/ Exchange!Leave(c)
<1> USE DEF loopVars
<1>0. program \in [Conn -> {"off", "idle", "waiting"}] /\ outbox \in [Conn -> Seq(Nat)]
    BY DEF LoopInv, TypeOK
<1>1. CASE Connect(c)
    <2>1. stage[c] = "off" /\ stage'[c] = "idle" /\ pc \notin Down /\ pc' = pc
        BY <1>0, <1>1 DEF Connect, stage
    <2>2. stage' = [stage EXCEPT ![c] = "idle"]
        BY <1>0, <1>1, <2>1, StageMoves DEF Connect
    <2> QED
        BY <1>1, <2>1, <2>2 DEF Connect, stage, Exchange!Open, Exchange!moves
<1>2. ASSUME NEW n \in CommandPieces, SendCommand(c, n)
      PROVE  Exchange!Ask(c)
    <2>1. outbox[c] = <<>>
        BY <1>2 DEF SendCommand, ExchangeInv, RepliesAwaited
    <2>2. stage[c] = "idle" /\ stage'[c] = "asked" /\ pc' = pc
        BY <1>0, <1>2, <2>1 DEF SendCommand, stage
    <2>3. stage' = [stage EXCEPT ![c] = "asked"]
        BY <1>0, <1>2, <2>2, StageMoves DEF SendCommand
    <2> QED
        BY <1>2, <2>2, <2>3 DEF SendCommand, stage, Exchange!Ask, Exchange!moves
<1>3. CASE Receive(c)
    <2>1. /\ stage[c] = "answered" /\ stage'[c] = "idle" /\ pc' = pc
          /\ outbox[c] = <<asked[c]>>
        BY <1>0, <1>3 DEF Receive, stage, ExchangeInv, RepliesAwaited
    <2>2. PICK n \in 1..Len(outbox[c]) :
              /\ answer' = [answer EXCEPT ![c] = SubSeq(outbox[c], 1, n)]
              /\ outbox' = [outbox EXCEPT ![c] = SubSeq(@, n + 1, Len(@))]
        BY <1>3 DEF Receive
    <2>3. n = 1 /\ SubSeq(outbox[c], 1, n) = <<asked[c]>>
        BY <2>1, <2>2, TakeOne DEF LoopInv, TypeOK
    <2>4. answer' = [answer EXCEPT ![c] = <<asked[c]>>]
        BY <2>2, <2>3
    <2>5. \A d \in Conn : d # c => program'[d] = program[d] /\ outbox'[d] = outbox[d]
        BY <1>0, <1>3, <2>2 DEF Receive
    <2>6. stage' = [stage EXCEPT ![c] = "idle"]
        BY <2>1, <2>5, StageMoves
    <2> QED
        BY <1>3, <2>1, <2>4, <2>6 DEF Receive, stage, Exchange!Take, Exchange!moves
<1>4. CASE HangUp(c) \/ Lost(c)
    <2>1. outbox[c] = <<>>
        BY <1>4 DEF HangUp, Lost, ShortExchange, ExchangeInv, RepliesAwaited
    <2>2. /\ program' = [program EXCEPT ![c] = "off"] /\ UNCHANGED <<outbox, pc>>
          /\ asked' = [asked EXCEPT ![c] = 0] /\ answer' = [answer EXCEPT ![c] = <<>>]
        BY <1>4, <2>1 DEF HangUp, Lost, quit, hangUp
    <2>3. stage[c] = "idle" \/ (stage[c] = "asked" /\ pc \in Down)
        BY <1>4, <2>1 DEF HangUp, Lost, ShortExchange, stage
    <2>4. stage'[c] = "off"
        BY <1>0, <2>2 DEF stage
    <2>5. stage' = [stage EXCEPT ![c] = "off"]
        BY <1>0, <2>2, <2>4, StageMoves
    <2> QED
        BY <2>2, <2>3, <2>5 DEF stage, Exchange!Leave, Exchange!moves
<1> QED
    BY <1>1, <1>2, <1>3, <1>4 DEF ClientStep

LEMMA NextExchange ==
    ASSUME ShortExchange, LoopInv, ExchangeInv, [Next]_vars
    PROVE  [Exchange!ExchangeNext]_Exchange!exchangeVars
<1>1. CASE UNCHANGED vars
    BY <1>1, StageStays DEF vars, loopVars, socketVars, clientVars, stage,
                            Exchange!exchangeVars
<1>2. CASE ServerStep
    <2>1. ASSUME NEW n \in ReplyPieces, Send(n)
          PROVE  Exchange!ExchangeNext
        <3>1. PICK c \in Conn : c = conn(i)
            BY <2>1 DEF Send, LoopInv, StepsFollow, TypeOK, conn
        <3>2. Exchange!Answer(c)
            BY <1>2, <2>1, <3>1, SendExchange DEF ServerStep
        <3> QED
            BY <3>1, <3>2 DEF Exchange!ExchangeNext
    <2> QED
        BY <1>2, <2>1, LoopExchange DEF ServerStep, Step
<1>3. ASSUME NEW c \in Conn, ClientStep(c)
      PROVE  Exchange!ExchangeNext
    BY <1>3, ClientExchange DEF Exchange!ExchangeNext
<1> QED
    BY <1>1, <1>2, <1>3 DEF Next

\* Server, sockets and clients implement RequestReply: every command is
\* answered once, on its own connection, before the next one is sent, for any
\* number of clients, slots and descriptors (server.cpp:58-133).
THEOREM ImplementsRequestReply == ShortExchange => (Spec => AnsweredOnce)
<1> SUFFICES ASSUME ShortExchange
             PROVE  Spec => AnsweredOnce
    OBVIOUS
<1>1. Init => Exchange!ExchangeInit
    BY DEF Init, SocketInit, LoopInit, Exchange!ExchangeInit, Down
<1>2. LoopInv /\ ExchangeInv /\ [Next]_vars =>
          [Exchange!ExchangeNext]_Exchange!exchangeVars
    BY NextExchange
<1> QED
    BY <1>1, <1>2, LoopInvariance, ExchangeInvariance, PTL
    DEF Spec, AnsweredOnce, Exchange!ExchangeSpec

===============================================================================
