------------------------------ MODULE RequestReply ------------------------------
(***************************************************************************)
(* What a client may rely on, without sockets, slots or descriptors: each  *)
(* command is answered once, before the client sends another, and a client *)
(* stops waiting without a reply only when the server has ended.           *)
(***************************************************************************)
EXTENDS Naturals, Sequences

CONSTANTS Conn

VARIABLES
    up,          \* is the server running
    stage,       \* stage[c]: "off", "idle", "asked" or "answered"
    number,      \* number[c]: the commands sent on the connection
    received     \* received[c]: those that the reply taken last answers

exchangeVars == <<up, stage, number, received>>

ExchangeInit ==
    /\ up = TRUE
    /\ stage = [c \in Conn |-> "off"]
    /\ number = [c \in Conn |-> 0]
    /\ received = [c \in Conn |-> <<>>]

moves(c, from, to) == stage[c] = from /\ stage' = [stage EXCEPT ![c] = to]

Open(c) == up /\ moves(c, "off", "idle") /\ UNCHANGED <<up, number, received>>

Ask(c) ==
    /\ moves(c, "idle", "asked")
    /\ number' = [number EXCEPT ![c] = @ + 1]
    /\ UNCHANGED <<up, received>>

Answer(c) == up /\ moves(c, "asked", "answered") /\ UNCHANGED <<up, number, received>>

Take(c) ==
    /\ moves(c, "answered", "idle")
    /\ received' = [received EXCEPT ![c] = <<number[c]>>]
    /\ UNCHANGED <<up, number>>

Leave(c) ==
    /\ moves(c, "idle", "off") \/ (~up /\ moves(c, "asked", "off"))
    /\ number' = [number EXCEPT ![c] = 0]
    /\ received' = [received EXCEPT ![c] = <<>>]
    /\ UNCHANGED up

End == up /\ up' = FALSE /\ UNCHANGED <<stage, number, received>>

ExchangeNext ==
    \/ End
    \/ \E c \in Conn : Open(c) \/ Ask(c) \/ Answer(c) \/ Take(c) \/ Leave(c)

ExchangeSpec == ExchangeInit /\ [][ExchangeNext]_exchangeVars

===============================================================================
