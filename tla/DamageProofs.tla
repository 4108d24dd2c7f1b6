------------------------------ MODULE DamageProofs ------------------------------
(***************************************************************************)
(* DamageStaysLocal and AccountsChangeByTheirOwner of Faults, for any      *)
(* number of users, conversations, connections and faults.  A command that *)
(* runs to its end adds to none of the three kinds of damage, whatever the *)
(* tables hold; a command half done adds at most one thing for every       *)
(* statement that failed, and touches no account that exists.              *)
(***************************************************************************)
EXTENDS FaultProofs, SocialRefinementProofs

\* Nothing is damaged that was not before.
NoNewDamage ==
    oneSided' \subseteq oneSided /\ deserted' \subseteq deserted /\ strays' \subseteq strays

\* What is damaged can be counted, and is no more than the faults.
DInv ==
    /\ FInv
    /\ faults \in Nat
    /\ IsFiniteSet(oneSided) /\ IsFiniteSet(strays)
    /\ DamageStaysLocal

-------------------------------------------------------------------------------
(* Counting *)

LEMMA Together ==
    ASSUME NEW S, NEW X, IsFiniteSet(S), IsFiniteSet(X), NEW T, T \subseteq S \cup X
    PROVE  /\ IsFiniteSet(T)
           /\ Cardinality(T) \in Nat /\ Cardinality(S) \in Nat /\ Cardinality(X) \in Nat
           /\ Cardinality(T) <= Cardinality(S) + Cardinality(X)
<1>1. IsFiniteSet(S \cup X) /\ IsFiniteSet(S \cap X)
      /\ Cardinality(S \cup X) = Cardinality(S) + Cardinality(X) - Cardinality(S \cap X)
    BY FS_Union, FS_Intersection
<1>2. IsFiniteSet(T) /\ Cardinality(T) <= Cardinality(S \cup X)
    BY <1>1, FS_Subset
<1>3. /\ Cardinality(T) \in Nat /\ Cardinality(S) \in Nat /\ Cardinality(X) \in Nat
      /\ Cardinality(S \cap X) \in Nat
    BY <1>1, <1>2, FS_CardinalityType
<1> QED
    BY <1>1, <1>2, <1>3

LEMMA DesertedIsFinite == ASSUME FInv PROVE IsFiniteSet(deserted)
<1>1. conversations \in Int
    BY DEF FInv, TablesOK, DatabaseTypeOK
<1>2. IsFiniteSet(1..conversations)
    BY <1>1, FS_Interval
<1>3. deserted \in SUBSET (1..conversations)
    BY DEF deserted
<1> QED
    BY <1>2, <1>3, FS_Subset

\* A step at which cost statements fail keeps the count, when what it adds
\* to the three sets is no more than that.
LEMMA CountKept ==
    ASSUME DInv, FInv', NEW cost \in Nat, faults' = faults + cost,
           NEW A, oneSided' \subseteq oneSided \cup A, IsFiniteSet(A),
           NEW B, deserted' \subseteq deserted \cup B, IsFiniteSet(B),
           NEW C, strays' \subseteq strays \cup C, IsFiniteSet(C),
           Cardinality(A) + Cardinality(B) + Cardinality(C) <= cost
    PROVE  DInv'
<1>1. IsFiniteSet(oneSided) /\ IsFiniteSet(deserted) /\ IsFiniteSet(strays)
    BY DesertedIsFinite DEF DInv
<1>2. /\ IsFiniteSet(oneSided')
      /\ Cardinality(oneSided') \in Nat /\ Cardinality(oneSided) \in Nat
      /\ Cardinality(A) \in Nat
      /\ Cardinality(oneSided') <= Cardinality(oneSided) + Cardinality(A)
    BY <1>1, Together
<1>3. /\ Cardinality(deserted') \in Nat /\ Cardinality(deserted) \in Nat
      /\ Cardinality(B) \in Nat
      /\ Cardinality(deserted') <= Cardinality(deserted) + Cardinality(B)
    BY <1>1, Together
<1>4. /\ IsFiniteSet(strays')
      /\ Cardinality(strays') \in Nat /\ Cardinality(strays) \in Nat
      /\ Cardinality(C) \in Nat
      /\ Cardinality(strays') <= Cardinality(strays) + Cardinality(C)
    BY <1>1, Together
<1>5. faults \in Nat
      /\ Cardinality(oneSided) + Cardinality(deserted) + Cardinality(strays) <= faults
    BY DEF DInv, DamageStaysLocal
<1>6. Cardinality(oneSided') + Cardinality(deserted') + Cardinality(strays')
         <= faults + cost
    BY <1>2, <1>3, <1>4, <1>5
<1>7. DamageStaysLocal'
    BY <1>6 DEF DamageStaysLocal
<1> QED
    BY <1>2, <1>4, <1>5, <1>7 DEF DInv

LEMMA NothingAdded ==
    ASSUME DInv, FInv', faults' \in Nat, faults <= faults', NoNewDamage
    PROVE  DInv'
<1>1. faults \in Nat
    BY DEF DInv
<1>2. PICK cost \in Nat : faults' = faults + cost
    BY <1>1
<1>3. IsFiniteSet({}) /\ Cardinality({}) = 0
    BY FS_EmptySet
<1>4. /\ oneSided' \subseteq oneSided \cup {} /\ deserted' \subseteq deserted \cup {}
      /\ strays' \subseteq strays \cup {}
    BY DEF NoNewDamage
<1> QED
    BY <1>2, <1>3, <1>4, CountKept

-------------------------------------------------------------------------------
(* Commands that run to their end, on tables in whatever state *)

LEMMA NothingMoves ==
    ASSUME UNCHANGED <<friends, conversations, participants, sessionVars>>
    PROVE  NoNewDamage
BY DEF NoNewDamage, oneSided, deserted, strays, hasRow, getConversationParticipants,
       isParticipant, sessionVars

\* A friendship command: rows are added, and each row it makes accepted has
\* one on the other side.
LEMMA SidesKept ==
    ASSUME DOMAIN friends \subseteq DOMAIN friends',
           \A pair \in DOMAIN friends' :
              friends'[pair].status = Accepted =>
                 \/ pair \in DOMAIN friends /\ friends[pair].status = Accepted
                 \/ <<pair[2], pair[1]>> \in DOMAIN friends',
           UNCHANGED <<conversations, participants, sessionVars>>
    PROVE  NoNewDamage
<1>1. oneSided' \subseteq oneSided
    BY DEF oneSided, hasRow
<1>2. deserted' \subseteq deserted /\ strays' \subseteq strays
    BY DEF deserted, strays, getConversationParticipants, isParticipant, sessionVars
<1> QED
    BY <1>1, <1>2 DEF NoNewDamage

\* Nobody leaves, and somebody takes part in a conversation just made.
Peopled ==
    /\ participants \subseteq participants'
    /\ \/ conversations' = conversations
       \/ /\ conversations' = conversations + 1
          /\ \E u \in Name : <<conversations + 1, u>> \in participants'

LEMMA NoneDeserted ==
    ASSUME FInv, Peopled
    PROVE  deserted' \subseteq deserted
<1> SUFFICES ASSUME NEW c \in deserted' PROVE c \in deserted
    OBVIOUS
<1>1. c \in 1..conversations' /\ \A u \in Name : <<c, u>> \notin participants'
    BY DEF deserted, getConversationParticipants, isParticipant
<1>2. conversations \in Nat
    BY DEF FInv, TablesOK, DatabaseTypeOK
<1>3. c # conversations + 1 \/ conversations' = conversations
    BY <1>1 DEF Peopled
<1>4. conversations' = conversations \/ conversations' = conversations + 1
    BY DEF Peopled
<1>5. c \in 1..conversations
    BY <1>1, <1>2, <1>3, <1>4
<1>6. \A u \in Name : <<c, u>> \notin participants
    BY <1>1 DEF Peopled
<1> QED
    BY <1>5, <1>6 DEF deserted, getConversationParticipants, isParticipant

\* A conversation is made with somebody in it, or users join one.
LEMMA RoomsKept ==
    ASSUME FInv, UNCHANGED <<friends, sessionVars>>, Peopled
    PROVE  NoNewDamage
<1>2. oneSided' \subseteq oneSided
    BY DEF oneSided, hasRow
<1>3. deserted' \subseteq deserted
    BY NoneDeserted
<1>4. strays' \subseteq strays
    BY DEF strays, isParticipant, sessionVars, Peopled
<1> QED
    BY <1>2, <1>3, <1>4 DEF NoNewDamage

\* A conversation is opened by somebody who takes part in it.
LEMMA OpenKept ==
    ASSUME FInv, NEW sd \in Sd, NEW c \in Nat, openConversation(sd, c),
           UNCHANGED friends, Peopled, <<c, sessions[sd]>> \in participants'
    PROVE  NoNewDamage
<1>2. oneSided' \subseteq oneSided
    BY DEF oneSided, hasRow
<1>3. deserted' \subseteq deserted
    BY NoneDeserted
<1>4. currentConversation' = [currentConversation EXCEPT ![sd] = c] /\ sessions' = sessions
      /\ currentConversation \in [Sd -> Nat \cup {NoConversation}]
    BY DEF openConversation, FInv, SessionsOK, SessionTypeOK
<1>5. strays' \subseteq strays
    BY <1>4 DEF strays, isParticipant, Peopled
<1> QED
    BY <1>2, <1>3, <1>5 DEF NoNewDamage

\* A session begins or ends: what is open where it begins is nothing.
LEMMA SessionMoves ==
    ASSUME FInv, NEW sd \in Sd, UNCHANGED <<friends, conversations, participants>>,
           \/ logout(sd)
           \/ ~isAuthenticated(sd) /\ \E u : login(sd, u)
    PROVE  NoNewDamage
<1>1. oneSided' \subseteq oneSided /\ deserted' \subseteq deserted
    BY DEF oneSided, hasRow, deserted, getConversationParticipants, isParticipant
<1>2. strays' \subseteq strays
    BY DEF strays, isParticipant, logout, login, FInv, SessionsOK, SessionTypeOK,
           OpenExists, isAuthenticated
<1> QED
    BY <1>1, <1>2 DEF NoNewDamage

\* When the process starts again nothing is open.
LEMMA NothingOpen ==
    ASSUME StartsFresh
    PROVE  strays' = {}
BY DEF StartsFresh, strays

\* The rows of a friendship whose request is answered.
LEMMA AcceptedOnBothSides ==
    ASSUME FInv, NEW user, NEW source, pendingRequest(source, user),
           acceptFriendRequest(user, source),
           UNCHANGED <<conversations, participants, sessionVars>>
    PROVE  NoNewDamage
<1> DEFINE updated == updateStatus(friends, source, user)
<1>1. <<source, user>> \in DOMAIN friends /\ friends' = insertReverse(updated, user, source)
    BY DEF pendingRequest, hasRow, acceptFriendRequest
<1>2. /\ DOMAIN updated = DOMAIN friends
      /\ \A pair \in DOMAIN friends : pair # <<source, user>> => updated[pair] = friends[pair]
    BY DEF updateStatus
<1> HIDE DEF updated
<1>3. /\ DOMAIN friends' = DOMAIN friends \cup {<<user, source>>}
      /\ \A pair \in DOMAIN friends :
            pair # <<source, user>> => friends'[pair] = friends[pair]
    BY <1>1, <1>2 DEF insertReverse, Insert
<1> SUFFICES ASSUME NEW pair \in DOMAIN friends'
             PROVE  \/ pair \in DOMAIN friends /\ friends[pair] = friends'[pair]
                    \/ <<pair[2], pair[1]>> \in DOMAIN friends'
    BY <1>3, SidesKept
<1> QED
    BY <1>1, <1>3

LEMMA FriendCommandKeeps ==
    ASSUME FInv, NEW sd \in client_socket, FriendCommand(sd)
    PROVE  NoNewDamage
<1>1. CASE UNCHANGED <<sessionVars, databaseVars>>
    BY <1>1, NothingMoves DEF databaseVars, messagingVars
<1>2. CASE \E u \in Token : FriendRequestCommand(sd, u)
    <2>1. PICK u \in Token : FriendRequestCommand(sd, u)
        BY <1>2
    <2> DEFINE user == getUsername(sd)
               row == [friend_type |-> Normal, status |-> Pending]
    <2>2. CASE /\ ~hasRow(user, u) /\ sendFriendRequest(user, u)
               /\ UNCHANGED <<sessionVars, messagingVars>>
        <3>1. friends' = Insert(friends, <<user, u>>, row)
            BY <2>2 DEF sendFriendRequest, insertRequest
        <3>2. /\ DOMAIN friends' = DOMAIN friends \cup {<<user, u>>}
              /\ friends'[<<user, u>>] = row
              /\ \A pair \in DOMAIN friends :
                    pair # <<user, u>> => friends'[pair] = friends[pair]
            BY <3>1 DEF Insert
        <3>3. row.status # Accepted
            BY DEF Pending, Accepted
        <3> QED
            BY <2>2, <3>2, <3>3, SidesKept DEF messagingVars, hasRow
    <2> QED
        BY <1>1, <2>1, <2>2 DEF FriendRequestCommand, Refuse
<1>3. CASE \E u \in Token : AcceptFriendCommand(sd, u)
    BY <1>1, <1>3, AcceptedOnBothSides DEF AcceptFriendCommand, Refuse, messagingVars
<1>4. CASE \E u \in Token, t \in -1..3 : SetFriendTypeCommand(sd, u, t)
    <2>1. PICK u \in Token, t \in -1..3 : SetFriendTypeCommand(sd, u, t)
        BY <1>4
    <2>2. CASE /\ setFriendType(getUsername(sd), u, t)
               /\ UNCHANGED <<sessionVars, messagingVars>>
        <3>1. friends \in [DOMAIN friends -> FriendRow]
            BY DEF FInv, TablesOK, FriendTable
        <3>2. /\ DOMAIN friends' = DOMAIN friends
              /\ \A pair \in DOMAIN friends : friends'[pair].status = friends[pair].status
            BY <2>2, <3>1 DEF setFriendType, updateFriendType, FriendRow
        <3> QED
            BY <2>2, <3>2, SidesKept DEF messagingVars
    <2> QED
        BY <1>1, <2>1, <2>2 DEF SetFriendTypeCommand, Refuse
<1>5. CASE ListFriendsCommand(sd) \/ ListFriendRequestsCommand(sd)
    BY <1>1, <1>5 DEF ListFriendsCommand, ListFriendRequestsCommand, Query
<1> QED
    BY <1>2, <1>3, <1>4, <1>5 DEF FriendCommand

LEMMA AccountCommandKeeps ==
    ASSUME FInv, NEW sd \in client_socket, AccountCommand(sd)
    PROVE  NoNewDamage
<1>0. sd \in Sd
    BY DEF FInv, SessionsOK
<1>1. CASE UNCHANGED <<sessionVars, friends, messagingVars>>
    BY <1>1, NothingMoves DEF messagingVars
<1>2. CASE \E u \in Token, p \in Password \cup {Empty} : LoginCommand(sd, u, p)
    BY <1>0, <1>1, <1>2, SessionMoves DEF LoginCommand, Refuse, databaseVars, messagingVars
<1>3. CASE LogoutCommand(sd)
    BY <1>0, <1>1, <1>3, SessionMoves DEF LogoutCommand, Refuse, databaseVars, messagingVars
<1> QED
    BY <1>1, <1>2, <1>3
    DEF AccountCommand, RegisterCommand, SetProfileVisibilityCommand, Refuse, databaseVars

LEMMA PostCommandKeeps ==
    ASSUME FInv, NEW sd \in client_socket, PostCommand(sd)
    PROVE  NoNewDamage
BY NothingMoves
DEF PostCommand, CreatePostCommand, ListPostsCommand, Refuse, databaseVars, messagingVars

LEMMA MessagingCommandKeeps ==
    ASSUME FInv, NEW sd \in client_socket, MessagingCommand(sd)
    PROVE  NoNewDamage
<1>0. sd \in Sd
    BY DEF FInv, SessionsOK
<1>1. CASE UNCHANGED <<sessionVars, friends, conversations, participants>>
    BY <1>1, NothingMoves
<1>2. CASE \E u \in Name : ChatCommand(sd, u)
    <2>1. PICK u \in Name : ChatCommand(sd, u)
        BY <1>2
    <2>2. CASE /\ createConversation(getUsername(sd), u)
               /\ UNCHANGED <<sessionVars, friends>>
        <3>1. Peopled
            BY <2>2 DEF Peopled, createConversation, addParticipant
        <3> QED
            BY <2>2, <3>1, RoomsKept
    <2> QED
        BY <1>1, <2>1, <2>2 DEF ChatCommand, Refuse, databaseVars, messagingVars
<1>3. CASE \E c \in -1..MaxConversations : OpenCommand(sd, c)
    <2>1. PICK c \in -1..MaxConversations : OpenCommand(sd, c)
        BY <1>3
    <2>2. CASE /\ isParticipant(c, getUsername(sd)) /\ openConversation(sd, c)
               /\ UNCHANGED databaseVars
        <3>1. c \in Nat
            BY <2>2 DEF FInv, TablesOK, DatabaseTypeOK, isParticipant
        <3>2. Peopled /\ <<c, sessions[sd]>> \in participants'
            BY <2>2 DEF Peopled, isParticipant, getUsername, databaseVars, messagingVars
        <3> QED
            BY <1>0, <2>2, <3>1, <3>2, OpenKept DEF databaseVars
    <2> QED
        BY <1>1, <2>1, <2>2 DEF OpenCommand, Refuse, databaseVars, messagingVars
<1>4. CASE \E us \in UNION {[1..n -> Name] : n \in 1..MaxGroup} : GroupCommand(sd, us)
    <2>1. PICK n \in 1..MaxGroup : \E us \in [1..n -> Name] : GroupCommand(sd, us)
        BY <1>4
    <2>2. PICK us \in [1..n -> Name] : GroupCommand(sd, us)
        BY <2>1
    <2> DEFINE me == getUsername(sd)
               all == Append(us, me)
    <2>3. CASE /\ isAuthenticated(sd) /\ createGroupConversation(all)
               /\ openConversation(sd, conversations') /\ UNCHANGED friends
        <3>1. me \in Name /\ me = sessions[sd]
            BY <1>0, <2>3 DEF FInv, SessionsOK, SessionTypeOK, isAuthenticated, getUsername
        <3>2. n + 1 \in DOMAIN all /\ all[n + 1] = me
            BY <3>1, ServerAssumption
        <3>3. /\ conversations' = conversations + 1
              /\ participants' = participants \cup
                     {<<conversations + 1, all[i]>> : i \in DOMAIN all}
            BY <2>3 DEF createGroupConversation
        <3> HIDE DEF all, me
        <3>4. <<conversations + 1, sessions[sd]>> \in participants' /\ Peopled
            BY <3>1, <3>2, <3>3 DEF Peopled
        <3>5. conversations + 1 \in Nat /\ openConversation(sd, conversations + 1)
            BY <2>3, <3>3 DEF FInv, TablesOK, DatabaseTypeOK, openConversation
        <3> QED
            BY <1>0, <2>3, <3>4, <3>5, OpenKept
    <2> QED
        BY <1>1, <2>2, <2>3 DEF GroupCommand, Refuse, databaseVars, messagingVars
<1>5. CASE \E u \in Name : AddCommand(sd, u)
    <2>1. PICK u \in Name : AddCommand(sd, u)
        BY <1>5
    <2>2. CASE /\ participants' = addParticipant(participants, getCurrentConversation(sd), u)
               /\ UNCHANGED <<sessionVars, friends, conversations>>
        <3>1. Peopled
            BY <2>2 DEF Peopled, addParticipant
        <3> QED
            BY <2>2, <3>1, RoomsKept
    <2> QED
        BY <1>1, <2>1, <2>2 DEF AddCommand, Refuse, databaseVars, messagingVars
<1>6. CASE \/ ChatsCommand(sd) \/ ShowCommand(sd)
           \/ \E c \in Content : SendCommand(sd, c)
    BY <1>1, <1>6
    DEF ChatsCommand, ShowCommand, SendCommand, Query, Refuse, databaseVars, messagingVars
<1> QED
    BY <1>2, <1>3, <1>4, <1>5, <1>6 DEF MessagingCommand

\* So does every step of SocialServer.
LEMMA NextDoesNoDamage ==
    ASSUME FInv, Next
    PROVE  NoNewDamage
<1>1. ASSUME NEW sd \in Sd, Accept(sd) PROVE NoNewDamage
    BY <1>1, NothingMoves DEF Accept, databaseVars, messagingVars
<1>2. ASSUME NEW sd \in Sd, Disconnect(sd) PROVE NoNewDamage
    BY <1>2, SessionMoves DEF Disconnect, databaseVars, messagingVars
<1>3. ASSUME NEW sd \in Sd, Serve(sd) PROVE NoNewDamage
    <2>1. CASE UnknownCommand(sd)
        BY <2>1, NothingMoves DEF UnknownCommand, Refuse, databaseVars, messagingVars
    <2> QED
        BY <1>3, <2>1, AccountCommandKeeps, FriendCommandKeeps, PostCommandKeeps,
           MessagingCommandKeeps DEF Serve
<1>4. CASE Restart
    <2>1. oneSided' \subseteq oneSided /\ deserted' \subseteq deserted
        BY <1>4 DEF Restart, databaseVars, messagingVars, oneSided, hasRow, deserted,
                    getConversationParticipants, isParticipant
    <2> QED
        BY <1>4, <2>1, NothingOpen DEF Restart, NoNewDamage
<1> QED
    BY <1>1, <1>2, <1>3, <1>4 DEF Next

-------------------------------------------------------------------------------
(* Commands half done *)

\* n statements failed, and what is added is one thing at most.
LEMMA OneAdded ==
    ASSUME DInv, FInv', NEW cost \in Nat, Costs(cost),
           \/ /\ \E x : oneSided' \subseteq oneSided \cup {x}
              /\ deserted' \subseteq deserted /\ strays' \subseteq strays
           \/ /\ \E x : deserted' \subseteq deserted \cup {x}
              /\ oneSided' \subseteq oneSided /\ strays' \subseteq strays
           \/ /\ \E x : strays' \subseteq strays \cup {x}
              /\ oneSided' \subseteq oneSided /\ deserted' \subseteq deserted
    PROVE  DInv'
<1>1. cost >= 1 /\ faults' = faults + cost
    BY DEF Costs
<1>2. IsFiniteSet({}) /\ Cardinality({}) = 0
    BY FS_EmptySet
<1>3. \A x : IsFiniteSet({x}) /\ Cardinality({x}) = 1
    BY FS_Singleton
<1>4. /\ oneSided' \subseteq oneSided => oneSided' \subseteq oneSided \cup {}
      /\ deserted' \subseteq deserted => deserted' \subseteq deserted \cup {}
      /\ strays' \subseteq strays => strays' \subseteq strays \cup {}
    OBVIOUS
<1>5. CASE /\ \E x : oneSided' \subseteq oneSided \cup {x}
           /\ deserted' \subseteq deserted /\ strays' \subseteq strays
    <2>1. PICK x : oneSided' \subseteq oneSided \cup {x}
        BY <1>5
    <2>2. IsFiniteSet({x}) /\ Cardinality({x}) = 1
        BY <1>3
    <2>3. Cardinality({x}) + Cardinality({}) + Cardinality({}) <= cost
        BY <1>1, <1>2, <2>2
    <2> QED
        BY <1>1, <1>2, <1>4, <1>5, <2>1, <2>2, <2>3, CountKept
<1>6. CASE /\ \E x : deserted' \subseteq deserted \cup {x}
           /\ oneSided' \subseteq oneSided /\ strays' \subseteq strays
    <2>1. PICK x : deserted' \subseteq deserted \cup {x}
        BY <1>6
    <2>2. IsFiniteSet({x}) /\ Cardinality({x}) = 1
        BY <1>3
    <2>3. Cardinality({}) + Cardinality({x}) + Cardinality({}) <= cost
        BY <1>1, <1>2, <2>2
    <2> QED
        BY <1>1, <1>2, <1>4, <1>6, <2>1, <2>2, <2>3, CountKept
<1>7. CASE /\ \E x : strays' \subseteq strays \cup {x}
           /\ oneSided' \subseteq oneSided /\ deserted' \subseteq deserted
    <2>1. PICK x : strays' \subseteq strays \cup {x}
        BY <1>7
    <2>2. IsFiniteSet({x}) /\ Cardinality({x}) = 1
        BY <1>3
    <2>3. Cardinality({}) + Cardinality({}) + Cardinality({x}) <= cost
        BY <1>1, <1>2, <2>2
    <2> QED
        BY <1>1, <1>2, <1>4, <1>7, <2>1, <2>2, <2>3, CountKept
<1> QED
    BY <1>5, <1>6, <1>7

\* Where only other tables are written, the sessions stay or all end.
LEMMA StraysKept ==
    ASSUME participants \subseteq participants', UNCHANGED sessionVars \/ StartsFresh
    PROVE  strays' \subseteq strays
<1>1. CASE UNCHANGED sessionVars
    BY <1>1 DEF strays, isParticipant, sessionVars
<1>2. CASE StartsFresh
    BY <1>2, NothingOpen
<1> QED
    BY <1>1, <1>2

LEMMA HalfRegisterCounts ==
    ASSUME DInv, FInv', NEW sd, NEW u, NEW p, NEW e, NEW r, HalfRegister(sd, u, p, e, r)
    PROVE  DInv'
<1>1. UNCHANGED <<friends, conversations, participants>>
      /\ (UNCHANGED sessionVars \/ StartsFresh)
    BY DEF HalfRegister, messagingVars
<1>2. oneSided' \subseteq oneSided /\ deserted' \subseteq deserted
    BY <1>1 DEF oneSided, hasRow, deserted, getConversationParticipants, isParticipant
<1>3. strays' \subseteq strays
    BY <1>1, StraysKept
<1>4. faults \in Nat /\ faults' = faults + 1
    BY DEF DInv, HalfRegister, Costs
<1> QED
    BY <1>2, <1>3, <1>4, NothingAdded DEF NoNewDamage

LEMMA HalfSetVisibilityCounts ==
    ASSUME DInv, FInv', NEW sd, HalfSetVisibility(sd)
    PROVE  DInv'
<1>1. UNCHANGED <<friends, conversations, participants, sessionVars>>
    BY DEF HalfSetVisibility, databaseVars, messagingVars
<1>2. oneSided' \subseteq oneSided /\ deserted' \subseteq deserted
    BY <1>1 DEF oneSided, hasRow, deserted, getConversationParticipants, isParticipant
<1>3. strays' \subseteq strays
    BY <1>1, StraysKept
<1>4. faults \in Nat /\ faults' = faults + 1
    BY DEF DInv, HalfSetVisibility, Costs
<1> QED
    BY <1>2, <1>3, <1>4, NothingAdded DEF NoNewDamage

\* The one pair that may be left one-sided is that of the request.
LEMMA HalfAcceptCounts ==
    ASSUME DInv, FInv', NEW sd, NEW source, HalfAccept(sd, source)
    PROVE  DInv'
<1> DEFINE user == getUsername(sd)
           updated == updateStatus(friends, source, user)
<1>1. <<source, user>> \in DOMAIN friends
    BY DEF HalfAccept, pendingRequest, hasRow
<1>2. /\ DOMAIN updated = DOMAIN friends
      /\ \A pair \in DOMAIN friends : pair # <<source, user>> => updated[pair] = friends[pair]
    BY DEF updateStatus
<1>3. \/ friends' = updated
      \/ friends' = insertReverse(friends, user, source)
      \/ friends' = friends
    BY DEF HalfAccept
<1> HIDE DEF updated
<1>4. DOMAIN friends \subseteq DOMAIN friends'
      /\ \A pair \in DOMAIN friends' :
            \/ pair = <<source, user>>
            \/ pair \in DOMAIN friends /\ friends'[pair] = friends[pair]
            \/ <<pair[2], pair[1]>> \in DOMAIN friends'
    BY <1>1, <1>2, <1>3 DEF insertReverse, Insert
<1>5. oneSided' \subseteq oneSided \cup {<<source, user>>}
    BY <1>4 DEF oneSided, hasRow
<1>6. UNCHANGED <<conversations, participants>> /\ (UNCHANGED sessionVars \/ StartsFresh)
    BY DEF HalfAccept, messagingVars
<1>7. deserted' \subseteq deserted /\ strays' \subseteq strays
    BY <1>6, StraysKept DEF deserted, getConversationParticipants, isParticipant
<1>8. Costs(1) \/ Costs(2)
    BY DEF HalfAccept
<1> QED
    BY <1>5, <1>7, <1>8, OneAdded

\* A conversation made with some of its participants is all that is new.
LEMMA CreateAdds ==
    ASSUME FInv, NEW names, NEW failed \in SUBSET DOMAIN names, Create(names, failed),
           \A i \in DOMAIN names : names[i] \in Name
    PROVE  /\ participants \subseteq participants'
           /\ oneSided' \subseteq oneSided
           /\ deserted' \subseteq deserted \cup {conversations + 1}
           /\ failed # DOMAIN names => deserted' \subseteq deserted
<1>1. conversations \in Nat
    BY DEF FInv, TablesOK, DatabaseTypeOK
<1>2. /\ conversations' = conversations + 1
      /\ participants' = participants \cup
             {<<conversations + 1, names[i]>> : i \in DOMAIN names \ failed}
      /\ UNCHANGED friends
    BY DEF Create
<1>3. oneSided' \subseteq oneSided
    BY <1>2 DEF oneSided, hasRow
<1>4. deserted' \subseteq deserted \cup {conversations + 1}
    <2> SUFFICES ASSUME NEW c \in deserted', c # conversations + 1 PROVE c \in deserted
        OBVIOUS
    <2>1. c \in 1..(conversations + 1) /\ \A u \in Name : <<c, u>> \notin participants'
        BY <1>2 DEF deserted, getConversationParticipants, isParticipant
    <2>2. c \in 1..conversations
        BY <1>1, <2>1
    <2> QED
        BY <1>2, <2>1, <2>2 DEF deserted, getConversationParticipants, isParticipant
<1>5. ASSUME failed # DOMAIN names PROVE Peopled
    BY <1>2, <1>5 DEF Peopled
<1> QED
    BY <1>2, <1>3, <1>4, <1>5, NoneDeserted

\* The process ends on the way: one conversation at most is deserted.
LEMMA StopsCounts ==
    ASSUME DInv, FInv', NEW names, NEW n \in 0..Len(names), Stops(names, n),
           DOMAIN names = 1..Len(names), Len(names) \in Nat,
           \A i \in DOMAIN names : names[i] \in Name
    PROVE  DInv'
<1> DEFINE failed == n + 1 .. Len(names)
<1>1. failed \in SUBSET DOMAIN names /\ Create(names, failed) /\ FInv
    BY DEF Stops, DInv
<1> HIDE DEF failed
<1>2. /\ participants \subseteq participants' /\ oneSided' \subseteq oneSided
      /\ deserted' \subseteq deserted \cup {conversations + 1}
    BY <1>1, CreateAdds
<1>3. strays' \subseteq strays /\ Costs(1)
    BY <1>2, StraysKept DEF Stops
<1> QED
    BY <1>2, <1>3, OneAdded

LEMMA HalfChatCounts ==
    ASSUME DInv, FInv', NEW sd \in client_socket, NEW other, HalfChat(sd, other)
    PROVE  DInv'
<1> DEFINE names == <<getUsername(sd), other>>
<1>1. \A i \in DOMAIN names : names[i] \in Name
    BY DEF HalfChat, DInv, FInv, TablesOK, DatabaseTypeOK, SessionsOK, SessionTypeOK,
           getUsername, isAuthenticated, getUserByUsername
<1>2. DOMAIN names = 1..Len(names) /\ Len(names) = 2
    OBVIOUS
<1>3. FInv
    BY DEF DInv
<1>4. \/ \E failed \in SUBSET DOMAIN names :
            Create(names, failed) /\ Costs(Cardinality(failed)) /\ UNCHANGED sessionVars
      \/ \E n \in 0..1 : Stops(names, n)
    BY DEF HalfChat
<1> HIDE DEF names
<1>5. CASE \E failed \in SUBSET DOMAIN names :
               Create(names, failed) /\ Costs(Cardinality(failed)) /\ UNCHANGED sessionVars
    <2>1. PICK failed \in SUBSET DOMAIN names :
              Create(names, failed) /\ Costs(Cardinality(failed)) /\ UNCHANGED sessionVars
        BY <1>5
    <2>2. IsFiniteSet(failed)
        BY <1>2, FS_Interval, FS_Subset
    <2>3. Cardinality(failed) \in Nat
        BY <2>2, FS_CardinalityType
    <2>4. /\ participants \subseteq participants' /\ oneSided' \subseteq oneSided
          /\ deserted' \subseteq deserted \cup {conversations + 1}
        BY <1>1, <1>3, <2>1, CreateAdds
    <2>5. strays' \subseteq strays
        BY <2>1, <2>4, StraysKept
    <2> QED
        BY <2>1, <2>3, <2>4, <2>5, OneAdded
<1>6. CASE \E n \in 0..1 : Stops(names, n)
    <2>1. PICK n \in 0..1 : Stops(names, n)
        BY <1>6
    <2>2. n \in 0..Len(names) /\ Len(names) \in Nat
        BY <1>2
    <2> QED
        BY <1>1, <1>2, <2>1, <2>2, StopsCounts
<1> QED
    BY <1>4, <1>5, <1>6

\* The group is opened by a user who may not be in it: that takes one failed
\* statement, and a group nobody is in takes two.
LEMMA HalfGroupCounts ==
    ASSUME DInv, FInv', NEW sd \in client_socket,
           NEW n \in Nat \ {0}, NEW us \in [1..n -> Name], HalfGroup(sd, us)
    PROVE  DInv'
<1> DEFINE me == getUsername(sd)
           names == Append(us, me)
<1>1. FInv /\ sd \in Sd
    BY DEF DInv, FInv, SessionsOK
<1>2. me = sessions[sd] /\ me \in Name
    BY <1>1 DEF HalfGroup, FInv, SessionsOK, SessionTypeOK, getUsername, isAuthenticated
<1>3. /\ DOMAIN names = 1..(n + 1) /\ Len(names) = n + 1 /\ Len(us) = n
      /\ names[n + 1] = me
      /\ \A i \in DOMAIN names : names[i] \in Name
    BY <1>2
<1>4. \/ \E failed \in SUBSET DOMAIN names :
            /\ Create(names, failed) /\ Costs(Cardinality(failed))
            /\ openConversation(sd, conversations')
      \/ \E k \in 0..Len(us) : Stops(names, k)
    BY DEF HalfGroup
<1> HIDE DEF names, me
<1>5. CASE \E failed \in SUBSET DOMAIN names :
               /\ Create(names, failed) /\ Costs(Cardinality(failed))
               /\ openConversation(sd, conversations')
    <2>1. PICK failed \in SUBSET DOMAIN names :
              /\ Create(names, failed) /\ Costs(Cardinality(failed))
              /\ openConversation(sd, conversations')
        BY <1>5
    <2>2. /\ participants \subseteq participants' /\ oneSided' \subseteq oneSided
          /\ deserted' \subseteq deserted \cup {conversations + 1}
          /\ failed # DOMAIN names => deserted' \subseteq deserted
        BY <1>1, <1>3, <2>1, CreateAdds
    <2>3. /\ conversations' = conversations + 1
          /\ participants' = participants \cup
                 {<<conversations + 1, names[i]>> : i \in DOMAIN names \ failed}
        BY <2>1 DEF Create
    <2>4. strays' \subseteq strays \cup {sd}
        BY <2>1, <2>2 DEF strays, isParticipant, openConversation, DInv, FInv, SessionsOK,
                          SessionTypeOK
    <2>5. IsFiniteSet(DOMAIN names) /\ Cardinality(DOMAIN names) = n + 1
        BY <1>3, FS_Interval
    <2>6. IsFiniteSet(failed)
        BY <2>5, FS_Subset
    <2>7. Cardinality(failed) \in Nat /\ faults' = faults + Cardinality(failed)
        BY <2>1, <2>6, FS_CardinalityType DEF Costs
    <2>8. CASE failed # DOMAIN names
        BY <2>1, <2>2, <2>4, <2>7, <2>8, OneAdded
    <2>9. CASE failed = DOMAIN names
        <3>1. IsFiniteSet({}) /\ Cardinality({}) = 0
            BY FS_EmptySet
        <3>2. /\ IsFiniteSet({conversations + 1}) /\ Cardinality({conversations + 1}) = 1
              /\ IsFiniteSet({sd}) /\ Cardinality({sd}) = 1
            BY FS_Singleton
        <3>3. Cardinality({}) + Cardinality({conversations + 1}) + Cardinality({sd})
                 <= Cardinality(failed)
            BY <2>5, <2>9, <3>1, <3>2
        <3>4. oneSided' \subseteq oneSided \cup {}
            BY <2>2
        <3> QED
            BY <2>2, <2>4, <2>7, <3>1, <3>2, <3>3, <3>4, CountKept
    <2> QED
        BY <2>8, <2>9
<1>6. CASE \E k \in 0..Len(us) : Stops(names, k)
    <2>1. PICK k \in 0..Len(us) : Stops(names, k)
        BY <1>6
    <2>2. k \in 0..Len(names) /\ Len(names) \in Nat /\ DOMAIN names = 1..Len(names)
        BY <1>3
    <2> QED
        BY <1>3, <2>1, <2>2, StopsCounts
<1> QED
    BY <1>4, <1>5, <1>6

-------------------------------------------------------------------------------
(* Every step *)

LEMMA HalfDoneCounts ==
    ASSUME DInv, FInv', NEW sd \in Sd, HalfDone(sd)
    PROVE  DInv'
<1>1. sd \in client_socket
    BY DEF HalfDone
<1>2. CASE \E u \in Token, p \in Password, e \in Email, r \in UserType :
               HalfRegister(sd, u, p, e, r)
    BY <1>2, HalfRegisterCounts
<1>3. CASE \E u \in Name : HalfAccept(sd, u) \/ HalfChat(sd, u)
    BY <1>1, <1>3, HalfAcceptCounts, HalfChatCounts
<1>4. CASE \E us \in UNION {[1..n -> Name] : n \in 1..MaxGroup} : HalfGroup(sd, us)
    <2>1. PICK n \in 1..MaxGroup : \E us \in [1..n -> Name] : HalfGroup(sd, us)
        BY <1>4
    <2>2. n \in Nat \ {0}
        BY ServerAssumption
    <2> QED
        BY <1>1, <2>1, <2>2, HalfGroupCounts
<1>5. CASE HalfSetVisibility(sd)
    BY <1>1, <1>5, HalfSetVisibilityCounts
<1> QED
    BY <1>2, <1>3, <1>4, <1>5 DEF HalfDone

LEMMA FaultyNextKeepsDInv == DInv /\ [FaultyNext]_faultyVars => DInv'
<1> SUFFICES ASSUME DInv, [FaultyNext]_faultyVars PROVE DInv'
    OBVIOUS
<1>1. FInv /\ FInv' /\ faults \in Nat
    BY FaultyNextKeepsFInv DEF DInv
<1>2. CASE UNCHANGED faultyVars
    BY <1>1, <1>2, NothingMoves, NothingAdded
    DEF faultyVars, vars, databaseVars, messagingVars
<1>3. CASE Next /\ UNCHANGED faults
    BY <1>1, <1>3, NextDoesNoDamage, NothingAdded
<1>4. ASSUME NEW sd \in Sd, HalfDone(sd) PROVE DInv'
    BY <1>1, <1>4, HalfDoneCounts
<1> QED
    BY <1>2, <1>3, <1>4 DEF FaultyNext

-------------------------------------------------------------------------------
(* What the damage is bounded by *)

\* However many statements fail and wherever the process ends, what is
\* spoiled (friendships of one side, conversations of nobody, connections in
\* a conversation of others) is no more than the faults, one each: no command
\* of the code carries it further (Database.cpp:284-305, 627-660,
\* GroupCommand.cpp:21-24).
THEOREM DamageNeverSpreads == FaultySpec => []DamageStaysLocal
<1>1. FaultyInit => DInv
    <2> SUFFICES ASSUME FaultyInit PROVE DInv
        OBVIOUS
    <2>1. FInv /\ faults = 0
        BY InitEstablishesFInv DEF FaultyInit
    <2>2. oneSided = {} /\ deserted = {} /\ strays = {}
        BY DEF FaultyInit, Init, SessionInit, DatabaseInit, oneSided, deserted, strays
    <2>3. IsFiniteSet({}) /\ Cardinality({}) = 0
        BY FS_EmptySet
    <2> QED
        BY <2>1, <2>2, <2>3 DEF DInv, DamageStaysLocal
<1>2. DInv /\ [FaultyNext]_faultyVars => DInv'
    BY FaultyNextKeepsDInv
<1>3. DInv => DamageStaysLocal
    BY DEF DInv
<1> QED
    BY <1>1, <1>2, <1>3, PTL DEF FaultySpec

\* A command that runs to its end, in a database earlier faults have spoiled
\* in any way, spoils nothing more: no friendship loses its other side, no
\* conversation its last participant, no connection its right to what it has
\* open (server/commands/*.cpp over Database.cpp:250-341, 494-660).
THEOREM CommandsDoNoDamage == FaultySpec => [][Next => NoNewDamage]_faultyVars
<1>1. FInv => [Next => NoNewDamage]_faultyVars
    BY NextDoesNoDamage
<1> QED
    BY <1>1, FaultyInvariance, PTL DEF FaultySpec

\* No fault hands an account over: a registration half done is still of a
\* name nobody had, and no other command half done writes to the accounts
\* (Database.cpp:109-142, 190-215).
THEOREM AccountsOutliveFaults == FaultySpec => AccountsChangeByTheirOwner
<1>1. FInv /\ [FaultyNext]_faultyVars => \A u \in registered : OwnerKeeps(u)
    <2> SUFFICES ASSUME FInv, [FaultyNext]_faultyVars, NEW u \in registered
                 PROVE  OwnerKeeps(u)
        OBVIOUS
    <2>1. CASE [Next]_vars
        BY <2>1, OwnersKept DEF FInv, TablesOK, DatabaseTypeOK, registered
    <2>2. ASSUME NEW sd \in Sd, NEW n, NEW p, NEW e, NEW r, HalfRegister(sd, n, p, e, r)
          PROVE  OwnerKeeps(u)
        <3>1. u # n
            BY <2>2 DEF HalfRegister, uniqueUser, registered
        <3>2. u \in DOMAIN users' /\ users'[u] = users[u]
            BY <2>2, <3>1 DEF HalfRegister, insertUser, Insert, registered
        <3> QED
            BY <3>2 DEF OwnerKeeps, registered
    <2>3. ASSUME UNCHANGED users PROVE OwnerKeeps(u)
        BY <2>3 DEF OwnerKeeps, registered
    <2>4. ASSUME NEW sd \in Sd, NEW us,
                 \/ HalfSetVisibility(sd)
                 \/ HalfAccept(sd, us) \/ HalfChat(sd, us) \/ HalfGroup(sd, us)
          PROVE  UNCHANGED users
        BY <2>4 DEF HalfSetVisibility, databaseVars, HalfAccept, HalfChat, HalfGroup,
                    Stops, Create
    <2>5. ASSUME NEW sd \in Sd, HalfDone(sd) PROVE OwnerKeeps(u)
        BY <2>2, <2>3, <2>4, <2>5 DEF HalfDone
    <2> QED
        BY <2>1, <2>5 DEF FaultyNext, faultyVars
<1> QED
    BY <1>1, FaultyInvariance, PTL DEF FaultySpec, AccountsChangeByTheirOwner, OwnerKeeps

===============================================================================
