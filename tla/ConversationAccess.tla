-------------------------- MODULE ConversationAccess --------------------------
(***************************************************************************)
(* What messaging promises, without sockets, slots or a "current"          *)
(* conversation: only members of a conversation write in it, and only      *)
(* members bring in others.  SocialServer implements it although "show"    *)
(* and "add" never consult the table of participants.                      *)
(***************************************************************************)
EXTENDS Domains, Integers, Sequences

CONSTANTS Sd, Content

VARIABLES
    who,       \* who[sd]: the user speaking on the connection, or Empty
    created,   \* the conversations are 1..created
    members,   \* set of <<conversation, user>>
    log        \* everything written, in order

accessVars == <<who, created, members, log>>

AccessInit ==
    /\ who = [sd \in Sd |-> Empty]
    /\ created = 0
    /\ members = {}
    /\ log = <<>>

SignIn(sd, u) ==
    /\ who[sd] = Empty
    /\ who' = [who EXCEPT ![sd] = u]
    /\ UNCHANGED <<created, members, log>>

\* Any number of connections may lose their user at once (a restart).
SignOut(gone) ==
    /\ who' = [sd \in Sd |-> IF sd \in gone THEN Empty ELSE who[sd]]
    /\ UNCHANGED <<created, members, log>>

Create(sd, others) ==
    /\ who[sd] # Empty
    /\ created' = created + 1
    /\ members' = members \cup {<<created', u>> : u \in others \cup {who[sd]}}
    /\ UNCHANGED <<who, log>>

Invite(sd, c, u) ==
    /\ <<c, who[sd]>> \in members
    /\ members' = members \cup {<<c, u>>}
    /\ UNCHANGED <<who, created, log>>

Write(sd, c, text) ==
    /\ <<c, who[sd]>> \in members
    /\ log' = Append(log, [conversation_id |-> c, sender |-> who[sd],
                           content |-> text])
    /\ UNCHANGED <<who, created, members>>

AccessNext ==
    \/ \E gone \in SUBSET Sd : SignOut(gone)
    \/ \E sd \in Sd :
          \/ \E u \in Name : SignIn(sd, u)
          \/ \E others \in SUBSET Name : Create(sd, others)
          \/ \E c \in 1..created :
                \/ \E u \in Name : Invite(sd, c, u)
                \/ \E text \in Content : Write(sd, c, text)

AccessSpec == AccessInit /\ [][AccessNext]_accessVars

===============================================================================
