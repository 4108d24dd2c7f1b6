---------------------------- MODULE SessionManager ----------------------------
(***************************************************************************)
(* The in-memory session tables of the server (server/SessionManager.cpp), *)
(* keyed by the socket descriptor of the client.  An unordered_map is a    *)
(* total function here: Empty and NoConversation stand for "no entry",     *)
(* exactly as getUsername and getCurrentConversation answer for a missing  *)
(* key.  The mutex of the class is not modelled: one thread runs it all.   *)
(***************************************************************************)
EXTENDS Domains, Integers

CONSTANTS Sd      \* the socket descriptors the kernel may hand out

VARIABLES
    sessions,             \* sessions[sd]: the user logged in on sd, or Empty
    currentConversation   \* the conversation open on sd, or NoConversation

sessionVars == <<sessions, currentConversation>>

NoConversation == -1

SessionTypeOK ==
    /\ sessions \in [Sd -> Name \cup {Empty}]
    /\ currentConversation \in [Sd -> Nat \cup {NoConversation}]

SessionInit ==
    /\ sessions = [sd \in Sd |-> Empty]
    /\ currentConversation = [sd \in Sd |-> NoConversation]

isAuthenticated(sd) == sessions[sd] # Empty

getUsername(sd) == sessions[sd]

getCurrentConversation(sd) == currentConversation[sd]

login(sd, username) ==
    /\ sessions' = [sessions EXCEPT ![sd] = username]
    /\ UNCHANGED currentConversation

\* Mutant: the session entry goes, the open conversation stays.
logout_KeepsConversation(sd) ==
    /\ sessions' = [sessions EXCEPT ![sd] = Empty]
    /\ UNCHANGED currentConversation

logout(sd) ==
    /\ sessions' = [sessions EXCEPT ![sd] = Empty]
    /\ currentConversation' = [currentConversation EXCEPT ![sd] = NoConversation]

openConversation(sd, conversation_id) ==
    /\ currentConversation' =
           [currentConversation EXCEPT ![sd] = conversation_id]
    /\ UNCHANGED sessions

===============================================================================
