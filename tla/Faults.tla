-------------------------------- MODULE Faults --------------------------------
(***************************************************************************)
(* The commands whose SQL statements do not all take effect.  Each         *)
(* statement commits by itself; a statement fails (a full disk, a locked   *)
(* file) and the code does not look at the result, or the process ends     *)
(* between two of them.  A first statement that fails is a refusal and     *)
(* needs no action of its own, except in set_visibility, which says OK.    *)
(***************************************************************************)
EXTENDS SocialProperties

CONSTANTS MaxFaults    \* bound: failed statements and ends of the process

ASSUME FaultsAssumption == MaxFaults \in Nat

VARIABLES faults       \* how many there were

faultyVars == <<vars, faults>>

FaultyInit == Init /\ faults = 0

\* n statements fail, or the process ends instead of running them.
Costs(n) == n > 0 /\ faults + n <= MaxFaults /\ faults' = faults + n

\* The account is inserted and its visibility is not set.
HalfRegister(sd, username, password, email, role) ==
    /\ username # Empty /\ password # Empty /\ email # Empty
    /\ uniqueUser(username, email)
    /\ users' = insertUser(users, username, password, email, role)
    /\ \/ OK(sd) /\ UNCHANGED <<serverVars, sessionVars>>
       \/ StartsFresh
    /\ Costs(1)
    /\ UNCHANGED <<friends, posts, messagingVars>>

\* The UPDATE of set_visibility fails, and the reply is OK all the same.
HalfSetVisibility(sd) ==
    /\ isAuthenticated(sd) /\ getUserByUsername(getUsername(sd))
    /\ OK(sd)
    /\ Costs(1)
    /\ UNCHANGED <<serverVars, sessionVars, databaseVars>>

\* UPDATE and INSERT of acceptFriendRequest: one fails, or both, and the
\* reply is OK; or the process ends before either, or between them.
HalfAccept(sd, source) ==
    LET user == getUsername(sd)
        updated == updateStatus(friends, source, user)
    IN /\ isAuthenticated(sd) /\ pendingRequest(source, user)
       /\ \/ /\ \/ friends' = updated /\ Costs(1)
                \/ friends' = insertReverse(friends, user, source) /\ Costs(1)
                \/ friends' = friends /\ Costs(2)
             /\ OK(sd) /\ UNCHANGED <<serverVars, sessionVars>>
          \/ friends' \in {friends, updated} /\ Costs(1) /\ StartsFresh
       /\ UNCHANGED <<users, posts, messagingVars>>

\* A conversation is created and of its participants only some are added:
\* the statements in failed fail.
Create(usernames, failed) ==
    /\ conversations < MaxConversations
    /\ conversations' = conversations + 1
    /\ participants' = participants \cup
           {<<conversations', usernames[i]>> : i \in DOMAIN usernames \ failed}
    /\ UNCHANGED <<users, friends, posts, messages>>

\* Or the process ends after the first n.
Stops(usernames, n) ==
    /\ Create(usernames, n + 1 .. Len(usernames))
    /\ StartsFresh
    /\ Costs(1)

HalfChat(sd, otherUser) ==
    LET usernames == <<getUsername(sd), otherUser>> IN
    /\ isAuthenticated(sd) /\ getUsername(sd) # otherUser
    /\ getUserByUsername(otherUser)
    /\ getPrivateConversation(getUsername(sd), otherUser) = {}
    /\ \/ \E failed \in SUBSET DOMAIN usernames :
             /\ Create(usernames, failed) /\ Costs(Cardinality(failed))
             /\ OK(sd) /\ UNCHANGED <<serverVars, sessionVars>>
       \/ \E n \in 0..1 : Stops(usernames, n)

\* The group is opened whoever was added.
HalfGroup(sd, named) ==
    LET usernames == Append(named, getUsername(sd)) IN
    /\ isAuthenticated(sd)
    /\ \A i \in DOMAIN usernames : getUserByUsername(usernames[i])
    /\ \/ \E failed \in SUBSET DOMAIN usernames :
             /\ Create(usernames, failed) /\ Costs(Cardinality(failed))
             /\ openConversation(sd, conversations')
             /\ OK(sd) /\ UNCHANGED serverVars
       \/ \E n \in 0..Len(named) : Stops(usernames, n)

HalfDone(sd) ==
    /\ sd \in client_socket
    /\ \/ \E u \in Token, p \in Password, e \in Email, r \in UserType :
             HalfRegister(sd, u, p, e, r)
       \/ HalfSetVisibility(sd)
       \/ \E u \in Name :
             HalfAccept(sd, u) \/ HalfChat(sd, u)
       \/ \E us \in UNION {[1..n -> Name] : n \in 1..MaxGroup} : HalfGroup(sd, us)

FaultyNext ==
    \/ Next /\ UNCHANGED faults
    \/ \E sd \in Sd : HalfDone(sd)

FaultySpec == FaultyInit /\ [][FaultyNext]_faultyVars

-------------------------------------------------------------------------------
\* Accepted on one side, and no row on the other.
oneSided == {pair \in DOMAIN friends : friends[pair].status = Accepted
                                       /\ ~hasRow(pair[2], pair[1])}

\* Nobody takes part in it.
deserted == {c \in 1..conversations : getConversationParticipants(c) = {}}

\* Open on a connection whose user takes no part in it.
strays == {sd \in Sd : /\ currentConversation[sd] # NoConversation
                       /\ ~isParticipant(currentConversation[sd], sessions[sd])}

\* A statement that failed, or never ran, spoils one thing and stays alone:
\* the commands that follow, on whatever the tables hold then, never spread
\* the damage to another friendship, conversation or connection
\* (Database.cpp:284-305, 627-660, GroupCommand.cpp:21-24).
DamageStaysLocal ==
    Cardinality(oneSided) + Cardinality(deserted) + Cardinality(strays) <= faults

===============================================================================
