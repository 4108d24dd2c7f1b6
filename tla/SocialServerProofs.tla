-------------------------- MODULE SocialServerProofs --------------------------
(***************************************************************************)
(* Theorems of SocialServer for every value of its constants: the          *)
(* inductive invariant and the properties it carries.                      *)
(***************************************************************************)
EXTENDS SocialProperties, TLAPS

\* The inductive invariant.  OpenConversationIsOwn needs SessionsAreLive, so
\* that a descriptor handed out again has no conversation open, and
\* ReferentialIntegrity needs OpenConversationIsOwn, so that "add" extends a
\* conversation that exists.
IInv ==
    /\ TypeOK
    /\ SessionsAreLive
    /\ OpenConversationIsOwn
    /\ ReferentialIntegrity
    /\ AcceptedIsAnswered
    /\ PendingIsPlain
    /\ NoSelfFriendship

-------------------------------------------------------------------------------
(* Tables *)

\* A changed visibility leaves a table of accounts a table of accounts.
LEMMA VisibilityFacts ==
    ASSUME NEW table, table \in [DOMAIN table -> UserRow],
           NEW u \in DOMAIN table, NEW v \in ProfileVisibility
    PROVE  /\ DOMAIN updateProfileVisibility(table, u, v) = DOMAIN table
           /\ updateProfileVisibility(table, u, v) \in [DOMAIN table -> UserRow]
BY DEF updateProfileVisibility, UserRow

-------------------------------------------------------------------------------
(* The initial state *)

LEMMA InitEstablishesIInv == Init => IInv
<1> SUFFICES ASSUME Init PROVE IInv
    OBVIOUS
<1>1. TypeOK
    BY InitialUsersAssumption
    DEF Init, SessionInit, DatabaseInit, TypeOK, SessionTypeOK, DatabaseTypeOK,
        NoConversation, NoResponse, ResponseKind, FriendRow, UserRow
<1>2. SessionsAreLive /\ OpenConversationIsOwn
    BY DEF Init, SessionInit, SessionsAreLive, OpenConversationIsOwn
<1>3. ReferentialIntegrity
    BY DEF Init, SessionInit, DatabaseInit, ReferentialIntegrity, isAuthenticated
<1>4. AcceptedIsAnswered /\ PendingIsPlain /\ NoSelfFriendship
    BY DEF Init, DatabaseInit, AcceptedIsAnswered, PendingIsPlain, NoSelfFriendship
<1> QED
    BY <1>1, <1>2, <1>3, <1>4 DEF IInv

-------------------------------------------------------------------------------
(* Steps that leave the database alone *)

\* Whatever a step replies, it keeps IInv when it changes nothing else.
LEMMA ReplyPreservesIInv ==
    ASSUME IInv, NEW sd \in Sd, NEW kind \in ResponseKind, NEW rows,
           Reply(sd, kind, rows), UNCHANGED <<serverVars, sessionVars, databaseVars>>
    PROVE  IInv'
<1> USE DEF serverVars, sessionVars, databaseVars, messagingVars
<1>1. TypeOK'
    BY DEF IInv, TypeOK, SessionTypeOK, DatabaseTypeOK, Reply
<1>2. SessionsAreLive'
    BY DEF IInv, SessionsAreLive
<1>3. OpenConversationIsOwn'
    BY DEF IInv, OpenConversationIsOwn, isAuthenticated, isParticipant
<1>4. ReferentialIntegrity'
    BY DEF IInv, ReferentialIntegrity, isAuthenticated, registered
<1>5. AcceptedIsAnswered' /\ PendingIsPlain' /\ NoSelfFriendship'
    BY DEF IInv, AcceptedIsAnswered, PendingIsPlain, NoSelfFriendship, hasRow
<1> QED
    BY <1>1, <1>2, <1>3, <1>4, <1>5 DEF IInv

\* A refused command, and every query.
LEMMA RefusePreservesIInv ==
    ASSUME IInv, NEW sd \in Sd, Refuse(sd), UNCHANGED serverVars
    PROVE  IInv'
BY ReplyPreservesIInv DEF Refuse, ResponseKind

LEMMA QueryPreservesIInv ==
    ASSUME IInv, NEW sd \in Sd, NEW kind \in ResponseKind, NEW rows,
           Query(sd, kind, rows), UNCHANGED serverVars
    PROVE  IInv'
BY ReplyPreservesIInv DEF Query, ResponseKind

\* The session tables and the slots may change as long as nobody is logged
\* in outside a slot, as a name nobody registered, or with a conversation
\* open that is not theirs.
LEMMA SessionStepPreservesIInv ==
    ASSUME IInv, UNCHANGED databaseVars, SessionTypeOK',
           client_socket' \subseteq Sd, master_set' \subseteq Sd,
           response'.sd \in Sd \cup {NoSd}, response'.kind \in ResponseKind,
           SessionsAreLive', OpenConversationIsOwn',
           \A sd \in Sd : isAuthenticated(sd)' => sessions'[sd] \in registered
    PROVE  IInv'
<1> USE DEF databaseVars, messagingVars
<1>1. TypeOK'
    BY DEF IInv, TypeOK, DatabaseTypeOK
<1>2. ReferentialIntegrity'
    BY DEF IInv, ReferentialIntegrity, isAuthenticated, registered
<1>3. AcceptedIsAnswered' /\ PendingIsPlain' /\ NoSelfFriendship'
    BY DEF IInv, AcceptedIsAnswered, PendingIsPlain, NoSelfFriendship, hasRow
<1> QED
    BY <1>1, <1>2, <1>3 DEF IInv

LEMMA AcceptPreservesIInv ==
    ASSUME IInv, NEW sd \in Sd, Accept(sd)
    PROVE  IInv'
<1> USE DEF Accept, sessionVars, databaseVars, messagingVars
<1>1. SessionTypeOK' /\ client_socket' \subseteq Sd /\ master_set' \subseteq Sd
    BY DEF IInv, TypeOK, SessionTypeOK
<1>2. response'.sd \in Sd \cup {NoSd} /\ response'.kind \in ResponseKind
    BY DEF NoResponse, ResponseKind
<1>3. SessionsAreLive'
    BY DEF IInv, SessionsAreLive
<1>4. OpenConversationIsOwn'
    BY DEF IInv, OpenConversationIsOwn, isAuthenticated, isParticipant
<1>5. \A d \in Sd : isAuthenticated(d)' => sessions'[d] \in registered
    BY DEF IInv, ReferentialIntegrity, isAuthenticated
<1> QED
    BY <1>1, <1>2, <1>3, <1>4, <1>5, SessionStepPreservesIInv

LEMMA DisconnectPreservesIInv ==
    ASSUME IInv, NEW sd \in Sd, Disconnect(sd)
    PROVE  IInv'
<1> USE DEF Disconnect, logout, databaseVars, messagingVars
<1>1. SessionTypeOK' /\ client_socket' \subseteq Sd /\ master_set' \subseteq Sd
    BY DEF IInv, TypeOK, SessionTypeOK
<1>2. response'.sd \in Sd \cup {NoSd} /\ response'.kind \in ResponseKind
    BY DEF NoResponse, ResponseKind
<1>3. SessionsAreLive'
    BY DEF IInv, TypeOK, SessionTypeOK, SessionsAreLive
<1>4. OpenConversationIsOwn'
    BY DEF IInv, TypeOK, SessionTypeOK, OpenConversationIsOwn, isAuthenticated,
           isParticipant
<1>5. \A d \in Sd : isAuthenticated(d)' => sessions'[d] \in registered
    BY DEF IInv, TypeOK, SessionTypeOK, ReferentialIntegrity, isAuthenticated
<1> QED
    BY <1>1, <1>2, <1>3, <1>4, <1>5, SessionStepPreservesIInv

LEMMA RestartPreservesIInv ==
    ASSUME IInv, Restart
    PROVE  IInv'
<1> USE DEF Restart, StartsFresh, databaseVars, messagingVars
<1>1. SessionTypeOK' /\ client_socket' \subseteq Sd /\ master_set' \subseteq Sd
    BY DEF SessionTypeOK
<1>2. response'.sd \in Sd \cup {NoSd} /\ response'.kind \in ResponseKind
    BY DEF NoResponse, ResponseKind
<1>3. SessionsAreLive' /\ OpenConversationIsOwn'
    BY DEF SessionsAreLive, OpenConversationIsOwn
<1>4. \A d \in Sd : isAuthenticated(d)' => sessions'[d] \in registered
    BY DEF isAuthenticated
<1> QED
    BY <1>1, <1>2, <1>3, <1>4, SessionStepPreservesIInv

LEMMA LoginPreservesIInv ==
    ASSUME IInv, NEW sd \in client_socket, NEW u \in Token, NEW p,
           LoginCommand(sd, u, p), UNCHANGED serverVars
    PROVE  IInv'
<1> sd \in Sd
    BY DEF IInv, TypeOK
<1>1. CASE Refuse(sd)
    BY <1>1, RefusePreservesIInv
<1>2. CASE /\ u # Empty /\ ~isAuthenticated(sd) /\ authenticateUser(u, p)
           /\ login(sd, u) /\ OK(sd) /\ UNCHANGED databaseVars
    <2> USE <1>2 DEF login, OK, Reply, serverVars, databaseVars, messagingVars
    <2>1. /\ SessionTypeOK'
          /\ client_socket' \subseteq Sd /\ master_set' \subseteq Sd
          /\ response'.sd \in Sd \cup {NoSd} /\ response'.kind \in ResponseKind
        BY DEF IInv, TypeOK, SessionTypeOK, Token, ResponseKind
    <2>2. SessionsAreLive'
        BY DEF IInv, TypeOK, SessionTypeOK, SessionsAreLive
    <2>3. OpenConversationIsOwn'
        BY DEF IInv, TypeOK, SessionTypeOK, OpenConversationIsOwn, isAuthenticated,
               isParticipant
    <2>4. \A d \in Sd : isAuthenticated(d)' => sessions'[d] \in registered
        BY DEF IInv, TypeOK, SessionTypeOK, ReferentialIntegrity, isAuthenticated,
               authenticateUser, registered
    <2> QED
        BY <2>1, <2>2, <2>3, <2>4, SessionStepPreservesIInv
<1> QED
    BY <1>1, <1>2 DEF LoginCommand

LEMMA LogoutPreservesIInv ==
    ASSUME IInv, NEW sd \in client_socket, LogoutCommand(sd), UNCHANGED serverVars
    PROVE  IInv'
<1> sd \in Sd
    BY DEF IInv, TypeOK
<1>1. CASE Refuse(sd)
    BY <1>1, RefusePreservesIInv
<1>2. CASE logout(sd) /\ OK(sd) /\ UNCHANGED databaseVars
    <2> USE <1>2 DEF logout, OK, Reply, serverVars, databaseVars, messagingVars
    <2>1. /\ SessionTypeOK'
          /\ client_socket' \subseteq Sd /\ master_set' \subseteq Sd
          /\ response'.sd \in Sd \cup {NoSd} /\ response'.kind \in ResponseKind
        BY DEF IInv, TypeOK, SessionTypeOK, ResponseKind
    <2>2. SessionsAreLive'
        BY DEF IInv, TypeOK, SessionTypeOK, SessionsAreLive
    <2>3. OpenConversationIsOwn'
        BY DEF IInv, TypeOK, SessionTypeOK, OpenConversationIsOwn, isAuthenticated,
               isParticipant
    <2>4. \A d \in Sd : isAuthenticated(d)' => sessions'[d] \in registered
        BY DEF IInv, TypeOK, SessionTypeOK, ReferentialIntegrity, isAuthenticated
    <2> QED
        BY <2>1, <2>2, <2>3, <2>4, SessionStepPreservesIInv
<1> QED
    BY <1>1, <1>2 DEF LogoutCommand

LEMMA OpenPreservesIInv ==
    ASSUME IInv, NEW sd \in client_socket, NEW c \in Int,
           OpenCommand(sd, c), UNCHANGED serverVars
    PROVE  IInv'
<1> sd \in Sd
    BY DEF IInv, TypeOK
<1>1. CASE Refuse(sd)
    BY <1>1, RefusePreservesIInv
<1>2. CASE /\ isAuthenticated(sd) /\ isParticipant(c, getUsername(sd))
           /\ openConversation(sd, c) /\ OK(sd) /\ UNCHANGED databaseVars
    <2> USE <1>2 DEF openConversation, OK, Reply, serverVars, databaseVars,
                     messagingVars, isAuthenticated, isParticipant, getUsername
    <2>1. c \in Nat
        BY DEF IInv, TypeOK, DatabaseTypeOK
    <2>2. /\ SessionTypeOK'
          /\ client_socket' \subseteq Sd /\ master_set' \subseteq Sd
          /\ response'.sd \in Sd \cup {NoSd} /\ response'.kind \in ResponseKind
        BY <2>1 DEF IInv, TypeOK, SessionTypeOK, ResponseKind
    <2>3. SessionsAreLive'
        BY DEF IInv, TypeOK, SessionTypeOK, SessionsAreLive
    <2>4. OpenConversationIsOwn'
        BY DEF IInv, TypeOK, SessionTypeOK, OpenConversationIsOwn
    <2>5. \A d \in Sd : isAuthenticated(d)' => sessions'[d] \in registered
        BY DEF IInv, ReferentialIntegrity
    <2> QED
        BY <2>2, <2>3, <2>4, <2>5, SessionStepPreservesIInv
<1> QED
    BY <1>1, <1>2 DEF OpenCommand

-------------------------------------------------------------------------------
(* Steps that write one table of the database *)

\* Accounts are added and changed, never removed.
LEMMA UsersStepPreservesIInv ==
    ASSUME IInv, NEW sd \in Sd, OK(sd), UNCHANGED serverVars,
           UNCHANGED <<sessionVars, friends, posts, messagingVars>>,
           registered \subseteq registered', registered' \subseteq Name,
           users' \in [registered' -> UserRow]
    PROVE  IInv'
<1> USE DEF serverVars, sessionVars, messagingVars, registered
<1>1. TypeOK'
    BY DEF IInv, TypeOK, SessionTypeOK, DatabaseTypeOK, OK, Reply, ResponseKind
<1>2. SessionsAreLive' /\ OpenConversationIsOwn'
    BY DEF IInv, SessionsAreLive, OpenConversationIsOwn, isAuthenticated,
           isParticipant
<1>3. ReferentialIntegrity'
    BY DEF IInv, ReferentialIntegrity, isAuthenticated
<1>4. AcceptedIsAnswered' /\ PendingIsPlain' /\ NoSelfFriendship'
    BY DEF IInv, AcceptedIsAnswered, PendingIsPlain, NoSelfFriendship, hasRow
<1> QED
    BY <1>1, <1>2, <1>3, <1>4 DEF IInv

LEMMA RegisterPreservesIInv ==
    ASSUME IInv, NEW sd \in client_socket,
           NEW u \in Token, NEW p \in Password \cup {Empty},
           NEW e \in Email \cup {Empty}, NEW r, NEW v,
           RegisterCommand(sd, u, p, e, r, v), UNCHANGED serverVars
    PROVE  IInv'
<1> sd \in Sd
    BY DEF IInv, TypeOK
<1>1. CASE Refuse(sd)
    BY <1>1, RefusePreservesIInv
<1>2. CASE /\ u # Empty /\ p # Empty /\ e # Empty
           /\ r \in UserType /\ v \in ProfileVisibility
           /\ users' = updateProfileVisibility(insertUser(users, u, p, e, r), u, v)
           /\ OK(sd)
           /\ UNCHANGED <<sessionVars, friends, posts, messagingVars>>
    <2> DEFINE row == [password |-> Hashpassword(p), email |-> e, user_type |-> r,
                       profile_visibility |-> "public"]
               inserted == insertUser(users, u, p, e, r)
    <2>1. u \in Name /\ row \in UserRow
        BY <1>2, HashAssumption
        DEF Token, Hashpassword, UserRow, ProfileVisibility
    <2>2. /\ DOMAIN inserted = registered \cup {u}
          /\ inserted \in [DOMAIN inserted -> UserRow]
        <3> HIDE DEF row
        <3>1. users \in [DOMAIN users -> UserRow]
            BY DEF IInv, TypeOK, DatabaseTypeOK
        <3>2. inserted = Insert(users, u, row)
            BY DEF insertUser, row
        <3> HIDE DEF inserted
        <3> QED
            BY <2>1, <3>1, <3>2 DEF Insert, registered
    <2> HIDE DEF inserted
    <2>3. registered' = registered \cup {u} /\ users' \in [registered' -> UserRow]
        <3>1. users' = updateProfileVisibility(inserted, u, v)
            BY <1>2 DEF inserted
        <3> QED
            BY <1>2, <2>2, <3>1, VisibilityFacts DEF registered
    <2>4. registered' \subseteq Name
        BY <2>1, <2>3 DEF IInv, TypeOK, DatabaseTypeOK, registered
    <2> QED
        BY <1>2, <2>3, <2>4, UsersStepPreservesIInv
<1> QED
    BY <1>1, <1>2 DEF RegisterCommand

LEMMA SetProfileVisibilityPreservesIInv ==
    ASSUME IInv, NEW sd \in client_socket, NEW v,
           SetProfileVisibilityCommand(sd, v), UNCHANGED serverVars
    PROVE  IInv'
<1> sd \in Sd
    BY DEF IInv, TypeOK
<1>1. CASE Refuse(sd)
    BY <1>1, RefusePreservesIInv
<1>2. CASE /\ v \in ProfileVisibility
           /\ getUserByUsername(getUsername(sd))
           /\ users' = updateProfileVisibility(users, getUsername(sd), v)
           /\ OK(sd)
           /\ UNCHANGED <<sessionVars, friends, posts, messagingVars>>
    <2>1. users \in [registered -> UserRow] /\ registered \subseteq Name
        BY DEF IInv, TypeOK, DatabaseTypeOK, registered
    <2>2. registered' = registered /\ users' \in [registered' -> UserRow]
        BY <1>2, <2>1, VisibilityFacts DEF registered, getUserByUsername
    <2> QED
        BY <1>2, <2>1, <2>2, UsersStepPreservesIInv
<1> QED
    BY <1>1, <1>2 DEF SetProfileVisibilityCommand

\* The friendships keep their own invariants and stay between accounts.
LEMMA FriendsStepPreservesIInv ==
    ASSUME IInv, NEW sd \in Sd, OK(sd), UNCHANGED serverVars,
           UNCHANGED <<sessionVars, users, posts, messagingVars>>,
           DOMAIN friends' \subseteq registered \X registered,
           friends' \in [DOMAIN friends' -> FriendRow],
           AcceptedIsAnswered', PendingIsPlain', NoSelfFriendship'
    PROVE  IInv'
<1> USE DEF serverVars, sessionVars, messagingVars, registered
<1>1. TypeOK'
    <2>1. DOMAIN friends' \subseteq Name \X Name
        BY DEF IInv, TypeOK, DatabaseTypeOK
    <2> QED
        BY <2>1
        DEF IInv, TypeOK, SessionTypeOK, DatabaseTypeOK, OK, Reply, ResponseKind
<1>2. SessionsAreLive' /\ OpenConversationIsOwn'
    BY DEF IInv, SessionsAreLive, OpenConversationIsOwn, isAuthenticated,
           isParticipant
<1>3. ReferentialIntegrity'
    BY DEF IInv, ReferentialIntegrity, isAuthenticated
<1> QED
    BY <1>1, <1>2, <1>3 DEF IInv

LEMMA FriendRequestPreservesIInv ==
    ASSUME IInv, NEW sd \in client_socket, NEW target,
           FriendRequestCommand(sd, target), UNCHANGED serverVars
    PROVE  IInv'
<1> sd \in Sd
    BY DEF IInv, TypeOK
<1>1. CASE Refuse(sd)
    BY <1>1, RefusePreservesIInv
<1> DEFINE user == getUsername(sd)
           row == [friend_type |-> Normal, status |-> Pending]
<1>2. CASE /\ isAuthenticated(sd) /\ user # target /\ getUserByUsername(target)
           /\ ~hasRow(user, target)
           /\ sendFriendRequest(user, target) /\ OK(sd)
           /\ UNCHANGED <<sessionVars, users, posts, messagingVars>>
    <2>1. <<user, target>> \in registered \X registered
        BY <1>2 DEF IInv, ReferentialIntegrity, getUserByUsername, getUsername,
                    registered
    <2>2. friends \in [DOMAIN friends -> FriendRow] /\ row \in FriendRow
        BY DEF IInv, TypeOK, DatabaseTypeOK, FriendRow, FriendTypes, Normal, Pending
    <2>3. friends' = Insert(friends, <<user, target>>, row)
        BY <1>2 DEF sendFriendRequest, insertRequest
    <2>4. <<user, target>> \notin DOMAIN friends
        BY <1>2 DEF hasRow
    <2> HIDE DEF row, user
    <2>5. /\ DOMAIN friends' = DOMAIN friends \cup {<<user, target>>}
          /\ friends' \in [DOMAIN friends' -> FriendRow]
          /\ friends'[<<user, target>>] = row
          /\ \A k \in DOMAIN friends : friends'[k] = friends[k]
        BY <2>2, <2>3, <2>4 DEF Insert
    <2>6. DOMAIN friends' \subseteq registered \X registered
        BY <2>1, <2>5 DEF IInv, ReferentialIntegrity
    <2>7. AcceptedIsAnswered'
        BY <2>5 DEF IInv, AcceptedIsAnswered, hasRow, row, Accepted, Pending
    <2>8. PendingIsPlain'
        BY <2>5 DEF IInv, PendingIsPlain, row
    <2>9. NoSelfFriendship'
        BY <1>2, <2>5 DEF IInv, NoSelfFriendship, user
    <2> QED
        BY <1>2, <2>5, <2>6, <2>7, <2>8, <2>9, FriendsStepPreservesIInv
<1> QED
    BY <1>1, <1>2 DEF FriendRequestCommand

LEMMA AcceptFriendPreservesIInv ==
    ASSUME IInv, NEW sd \in client_socket, NEW source,
           AcceptFriendCommand(sd, source), UNCHANGED serverVars
    PROVE  IInv'
<1> sd \in Sd
    BY DEF IInv, TypeOK
<1>1. CASE Refuse(sd)
    BY <1>1, RefusePreservesIInv
<1> DEFINE user == getUsername(sd)
           asked == <<source, user>>
           answer == <<user, source>>
           accepted == updateStatus(friends, source, user)
           row == [friend_type |-> Normal, status |-> Accepted]
<1>2. CASE /\ pendingRequest(source, user)
           /\ acceptFriendRequest(user, source) /\ OK(sd)
           /\ UNCHANGED <<sessionVars, users, posts, messagingVars>>
    <2>1. /\ asked \in DOMAIN friends /\ friends[asked].status = Pending
          /\ asked \in registered \X registered /\ answer \in registered \X registered
        BY <1>2 DEF IInv, ReferentialIntegrity, pendingRequest, hasRow
    <2>2. friends \in [DOMAIN friends -> FriendRow] /\ row \in FriendRow
        BY DEF IInv, TypeOK, DatabaseTypeOK, FriendRow, FriendTypes, Normal, Accepted
    <2>3. /\ DOMAIN accepted = DOMAIN friends
          /\ accepted \in [DOMAIN friends -> FriendRow]
          /\ accepted[asked].status = Accepted
          /\ \A k \in DOMAIN friends : k # asked => accepted[k] = friends[k]
        BY <2>1, <2>2 DEF updateStatus, FriendRow, Accepted
    <2>4. friends' = IF answer \in DOMAIN accepted THEN accepted
                     ELSE Insert(accepted, answer, row)
        BY <1>2 DEF acceptFriendRequest, insertReverse
    <2>5. answer # asked
        BY <2>1 DEF IInv, NoSelfFriendship
    <2> HIDE DEF accepted, row
    <2>6. /\ DOMAIN friends' = DOMAIN friends \cup {answer}
          /\ friends' \in [DOMAIN friends' -> FriendRow]
          /\ friends'[asked].status = Accepted
          /\ \A k \in DOMAIN friends : k # asked => friends'[k] = friends[k]
          /\ answer \notin DOMAIN friends => friends'[answer] = row
        BY <2>1, <2>2, <2>3, <2>4, <2>5 DEF Insert
    <2>7. DOMAIN friends' \subseteq registered \X registered
        BY <2>1, <2>6 DEF IInv, ReferentialIntegrity
    <2>8. AcceptedIsAnswered'
        BY <2>1, <2>6 DEF IInv, AcceptedIsAnswered, hasRow
    <2>9. PendingIsPlain'
        BY <2>1, <2>6 DEF IInv, PendingIsPlain, row, Pending, Accepted
    <2>10. NoSelfFriendship'
        BY <2>1, <2>6 DEF IInv, NoSelfFriendship
    <2> QED
        BY <1>2, <2>6, <2>7, <2>8, <2>9, <2>10, FriendsStepPreservesIInv
<1> QED
    BY <1>1, <1>2 DEF AcceptFriendCommand

LEMMA SetFriendTypePreservesIInv ==
    ASSUME IInv, NEW sd \in client_socket, NEW target, NEW type,
           SetFriendTypeCommand(sd, target, type), UNCHANGED serverVars
    PROVE  IInv'
<1> sd \in Sd
    BY DEF IInv, TypeOK
<1>1. CASE Refuse(sd)
    BY <1>1, RefusePreservesIInv
<1> DEFINE pair == <<getUsername(sd), target>>
<1>2. CASE /\ settableType(getUsername(sd), target, type)
           /\ setFriendType(getUsername(sd), target, type) /\ OK(sd)
           /\ UNCHANGED <<sessionVars, users, posts, messagingVars>>
    <2>1. /\ pair \in DOMAIN friends /\ friends[pair].status = Accepted
          /\ type \in FriendTypes
        BY <1>2 DEF settableType, areFriends, hasRow
    <2>2. friends \in [DOMAIN friends -> FriendRow]
        BY DEF IInv, TypeOK, DatabaseTypeOK
    <2>3. /\ DOMAIN friends' = DOMAIN friends
          /\ friends' \in [DOMAIN friends' -> FriendRow]
          /\ \A k \in DOMAIN friends : friends'[k].status = friends[k].status
          /\ \A k \in DOMAIN friends : k # pair => friends'[k] = friends[k]
        BY <1>2, <2>1, <2>2 DEF setFriendType, updateFriendType, FriendRow
    <2>4. DOMAIN friends' \subseteq registered \X registered
        BY <2>3 DEF IInv, ReferentialIntegrity
    <2>5. AcceptedIsAnswered'
        BY <2>3 DEF IInv, AcceptedIsAnswered, hasRow
    <2>6. PendingIsPlain'
        BY <2>1, <2>3 DEF IInv, PendingIsPlain, Pending, Accepted
    <2>7. NoSelfFriendship'
        BY <2>3 DEF IInv, NoSelfFriendship
    <2> QED
        BY <1>2, <2>3, <2>4, <2>5, <2>6, <2>7, FriendsStepPreservesIInv
<1> QED
    BY <1>1, <1>2 DEF SetFriendTypeCommand

LEMMA CreatePostPreservesIInv ==
    ASSUME IInv, NEW sd \in client_socket, NEW visibility,
           NEW content \in Content \cup {Empty},
           CreatePostCommand(sd, visibility, content), UNCHANGED serverVars
    PROVE  IInv'
<1> sd \in Sd
    BY DEF IInv, TypeOK
<1>1. CASE Refuse(sd)
    BY <1>1, RefusePreservesIInv
<1> DEFINE author == getUsername(sd)
           row == [author |-> author, content |-> content, visibility |-> visibility]
<1>2. CASE /\ isAuthenticated(sd) /\ content # Empty /\ postable(visibility)
           /\ createPost(author, content, visibility) /\ OK(sd)
           /\ UNCHANGED <<sessionVars, users, friends, messagingVars>>
    <2>1. author \in registered /\ author \in Name
        BY <1>2 DEF IInv, TypeOK, DatabaseTypeOK, ReferentialIntegrity, getUsername,
                    registered
    <2>2. row \in Post /\ posts \in Seq(Post)
        BY <1>2, <2>1 DEF IInv, TypeOK, DatabaseTypeOK, Post, postable
    <2>3. posts' = Append(posts, row)
        BY <1>2 DEF createPost
    <2> HIDE DEF row
    <2>4. /\ posts' \in Seq(Post)
          /\ \A i \in DOMAIN posts' : \/ i \in DOMAIN posts /\ posts'[i] = posts[i]
                                     \/ posts'[i] = row
        BY <2>2, <2>3
    <2>5. TypeOK'
        BY <1>2, <2>4
        DEF IInv, TypeOK, SessionTypeOK, DatabaseTypeOK, OK, Reply, ResponseKind,
            serverVars, sessionVars, messagingVars
    <2>6. ReferentialIntegrity'
        BY <1>2, <2>1, <2>4
        DEF IInv, ReferentialIntegrity, isAuthenticated, registered, row,
            sessionVars, messagingVars
    <2>7. SessionsAreLive' /\ OpenConversationIsOwn'
        BY <1>2 DEF IInv, SessionsAreLive, OpenConversationIsOwn, isAuthenticated,
                    isParticipant, serverVars, sessionVars, messagingVars
    <2>8. AcceptedIsAnswered' /\ PendingIsPlain' /\ NoSelfFriendship'
        BY <1>2 DEF IInv, AcceptedIsAnswered, PendingIsPlain, NoSelfFriendship, hasRow
    <2> QED
        BY <2>5, <2>6, <2>7, <2>8 DEF IInv
<1> QED
    BY <1>1, <1>2 DEF CreatePostCommand

-------------------------------------------------------------------------------
(* Messaging steps *)

\* Conversations and participants only grow, and a conversation may be
\* opened on the connection that caused the step.
LEMMA MessagingStepPreservesIInv ==
    ASSUME IInv, NEW sd \in Sd, OK(sd), UNCHANGED serverVars,
           UNCHANGED <<sessions, users, friends, posts>>,
           currentConversation' \in [Sd -> Nat \cup {NoConversation}],
           conversations' \in Nat, conversations <= conversations',
           participants' \subseteq (1..conversations') \X registered,
           messages' \in Seq(Message),
           \A m \in DOMAIN messages' :
              messages'[m].conversation_id \in 1..conversations',
           SessionsAreLive', OpenConversationIsOwn'
    PROVE  IInv'
<1>1. registered \subseteq Name /\ registered' = registered
    BY DEF IInv, TypeOK, DatabaseTypeOK, registered
<1>2. participants' \subseteq Nat \X Name
    BY <1>1
<1>3. TypeOK'
    BY <1>1, <1>2
    DEF IInv, TypeOK, SessionTypeOK, DatabaseTypeOK, OK, Reply, ResponseKind,
        serverVars
<1>4. ReferentialIntegrity'
    BY <1>1 DEF IInv, ReferentialIntegrity, isAuthenticated
<1>5. AcceptedIsAnswered' /\ PendingIsPlain' /\ NoSelfFriendship'
    BY DEF IInv, AcceptedIsAnswered, PendingIsPlain, NoSelfFriendship, hasRow
<1> QED
    BY <1>3, <1>4, <1>5 DEF IInv

LEMMA ChatPreservesIInv ==
    ASSUME IInv, NEW sd \in client_socket, NEW other,
           ChatCommand(sd, other), UNCHANGED serverVars
    PROVE  IInv'
<1> sd \in Sd
    BY DEF IInv, TypeOK
<1>1. CASE Refuse(sd)
    BY <1>1, RefusePreservesIInv
<1> DEFINE user == getUsername(sd)
<1>2. CASE /\ OK(sd)
           /\ UNCHANGED <<sessionVars, users, friends, posts, messages>>
           /\ UNCHANGED <<conversations, participants>>
    BY <1>2, ReplyPreservesIInv
    DEF OK, ResponseKind, databaseVars, messagingVars
<1>3. CASE /\ isAuthenticated(sd) /\ getUserByUsername(other)
           /\ createConversation(user, other) /\ OK(sd)
           /\ UNCHANGED <<sessionVars, users, friends, posts, messages>>
    <2> USE <1>3 DEF sessionVars
    <2>1. user \in registered /\ other \in registered
        BY DEF IInv, ReferentialIntegrity, getUsername, getUserByUsername, registered
    <2>2. /\ conversations \in Nat /\ conversations' = conversations + 1
          /\ participants' = participants \cup
                 {<<conversations + 1, user>>, <<conversations + 1, other>>}
        BY DEF IInv, TypeOK, DatabaseTypeOK, createConversation, addParticipant
    <2>3. participants' \subseteq (1..conversations') \X registered
        BY <2>1, <2>2 DEF IInv, ReferentialIntegrity
    <2>4. /\ messages' \in Seq(Message)
          /\ \A m \in DOMAIN messages' :
                messages'[m].conversation_id \in 1..conversations'
        BY <2>2 DEF IInv, TypeOK, DatabaseTypeOK, ReferentialIntegrity
    <2>5. SessionsAreLive' /\ OpenConversationIsOwn'
        BY <2>2 DEF IInv, SessionsAreLive, OpenConversationIsOwn, isAuthenticated,
                    isParticipant, serverVars
    <2>6. currentConversation' \in [Sd -> Nat \cup {NoConversation}]
        BY DEF IInv, TypeOK, SessionTypeOK
    <2> QED
        BY <2>2, <2>3, <2>4, <2>5, <2>6, MessagingStepPreservesIInv
<1> QED
    BY <1>1, <1>2, <1>3 DEF ChatCommand

LEMMA GroupPreservesIInv ==
    ASSUME IInv, NEW sd \in client_socket, NEW n \in Nat \ {0},
           NEW usernames \in [1..n -> Name],
           GroupCommand(sd, usernames), UNCHANGED serverVars
    PROVE  IInv'
<1> sd \in Sd
    BY DEF IInv, TypeOK
<1>1. CASE Refuse(sd)
    BY <1>1, RefusePreservesIInv
<1> DEFINE me == getUsername(sd)
           allUsers == Append(usernames, me)
           new == conversations + 1
<1>2. CASE /\ isAuthenticated(sd)
           /\ \A i \in DOMAIN allUsers : getUserByUsername(allUsers[i])
           /\ createGroupConversation(allUsers)
           /\ openConversation(sd, conversations') /\ OK(sd)
           /\ UNCHANGED <<users, friends, posts, messages>>
    <2>1. usernames \in Seq(Name) /\ me \in Name
        BY <1>2 DEF IInv, TypeOK, SessionTypeOK, isAuthenticated, getUsername
    <2>2. /\ \A i \in DOMAIN allUsers : allUsers[i] \in registered
          /\ n + 1 \in DOMAIN allUsers /\ allUsers[n + 1] = me
        BY <1>2, <2>1 DEF getUserByUsername, registered
    <2>3. /\ conversations \in Nat /\ conversations' = new
          /\ participants' = participants \cup
                                 {<<new, allUsers[i]>> : i \in DOMAIN allUsers}
          /\ <<new, me>> \in participants'
        BY <1>2, <2>2 DEF IInv, TypeOK, DatabaseTypeOK, createGroupConversation
    <2>4. currentConversation' = [currentConversation EXCEPT ![sd] = new]
          /\ UNCHANGED sessions
        BY <1>2, <2>3 DEF openConversation
    <2> HIDE DEF allUsers
    <2>5. participants' \subseteq (1..conversations') \X registered
        BY <2>2, <2>3 DEF IInv, ReferentialIntegrity
    <2>6. /\ messages' \in Seq(Message)
          /\ \A m \in DOMAIN messages' :
                messages'[m].conversation_id \in 1..conversations'
        BY <1>2, <2>3 DEF IInv, TypeOK, DatabaseTypeOK, ReferentialIntegrity
    <2>7. currentConversation' \in [Sd -> Nat \cup {NoConversation}]
        BY <2>3, <2>4 DEF IInv, TypeOK, SessionTypeOK
    <2>8. SessionsAreLive'
        BY <2>4 DEF IInv, TypeOK, SessionTypeOK, SessionsAreLive, serverVars
    <2>9. OpenConversationIsOwn'
        BY <1>2, <2>3, <2>4
        DEF IInv, TypeOK, SessionTypeOK, OpenConversationIsOwn, isAuthenticated,
            isParticipant, getUsername
    <2> QED
        BY <1>2, <2>3, <2>4, <2>5, <2>6, <2>7, <2>8, <2>9, MessagingStepPreservesIInv
<1> QED
    BY <1>1, <1>2 DEF GroupCommand

LEMMA AddPreservesIInv ==
    ASSUME IInv, NEW sd \in client_socket, NEW u,
           AddCommand(sd, u), UNCHANGED serverVars
    PROVE  IInv'
<1> sd \in Sd
    BY DEF IInv, TypeOK
<1>1. CASE Refuse(sd)
    BY <1>1, RefusePreservesIInv
<1> DEFINE c == getCurrentConversation(sd)
<1>2. CASE /\ isAuthenticated(sd) /\ c # NoConversation /\ getUserByUsername(u)
           /\ participants' = addParticipant(participants, c, u) /\ OK(sd)
           /\ UNCHANGED <<sessionVars, users, friends, posts, conversations, messages>>
    <2> USE <1>2 DEF sessionVars
    <2>1. c \in 1..conversations /\ u \in registered
        BY DEF IInv, OpenConversationIsOwn, ReferentialIntegrity, isParticipant,
               getCurrentConversation, getUserByUsername, registered
    <2>2. participants' \subseteq (1..conversations') \X registered
        BY <2>1 DEF IInv, ReferentialIntegrity, addParticipant
    <2>3. SessionsAreLive' /\ OpenConversationIsOwn'
        BY DEF IInv, SessionsAreLive, OpenConversationIsOwn, isAuthenticated,
               isParticipant, addParticipant, serverVars
    <2>4. /\ conversations' \in Nat /\ conversations <= conversations'
          /\ messages' \in Seq(Message)
          /\ currentConversation' \in [Sd -> Nat \cup {NoConversation}]
          /\ \A m \in DOMAIN messages' :
                messages'[m].conversation_id \in 1..conversations'
        BY DEF IInv, TypeOK, SessionTypeOK, DatabaseTypeOK, ReferentialIntegrity
    <2> QED
        BY <2>2, <2>3, <2>4, MessagingStepPreservesIInv
<1> QED
    BY <1>1, <1>2 DEF AddCommand

LEMMA SendPreservesIInv ==
    ASSUME IInv, NEW sd \in client_socket, NEW content \in Content,
           SendCommand(sd, content), UNCHANGED serverVars
    PROVE  IInv'
<1> sd \in Sd
    BY DEF IInv, TypeOK
<1>1. CASE Refuse(sd)
    BY <1>1, RefusePreservesIInv
<1> DEFINE c == getCurrentConversation(sd)
           row == [conversation_id |-> c, sender |-> getUsername(sd),
                   content |-> content]
<1>2. CASE /\ isAuthenticated(sd) /\ isParticipant(c, getUsername(sd))
           /\ sendMessage(c, getUsername(sd), content) /\ OK(sd)
           /\ UNCHANGED <<sessionVars, users, friends, posts, conversations,
                          participants>>
    <2>1. c \in 1..conversations /\ row \in Message
        BY <1>2 DEF IInv, TypeOK, DatabaseTypeOK, ReferentialIntegrity, isParticipant,
                    Message
    <2>2. messages \in Seq(Message) /\ messages' = Append(messages, row)
        BY <1>2 DEF IInv, TypeOK, DatabaseTypeOK, sendMessage
    <2>3. /\ messages' \in Seq(Message)
          /\ \A m \in DOMAIN messages' :
                messages'[m].conversation_id \in 1..conversations
        <3> HIDE DEF row
        <3>1. /\ messages' \in Seq(Message)
              /\ \A m \in DOMAIN messages' :
                    \/ m \in DOMAIN messages /\ messages'[m] = messages[m]
                    \/ messages'[m] = row
            BY <2>1, <2>2
        <3>2. row.conversation_id \in 1..conversations
            BY <2>1 DEF row
        <3> QED
            BY <3>1, <3>2 DEF IInv, ReferentialIntegrity
    <2>4. SessionsAreLive' /\ OpenConversationIsOwn'
        BY <1>2 DEF IInv, SessionsAreLive, OpenConversationIsOwn, isAuthenticated,
                    isParticipant, sessionVars, serverVars
    <2>5. /\ conversations' \in Nat /\ conversations <= conversations'
          /\ currentConversation' \in [Sd -> Nat \cup {NoConversation}]
          /\ participants' \subseteq (1..conversations') \X registered
        BY <1>2 DEF IInv, TypeOK, SessionTypeOK, DatabaseTypeOK, ReferentialIntegrity,
                    sessionVars
    <2> QED
        BY <1>2, <2>3, <2>4, <2>5, MessagingStepPreservesIInv DEF sessionVars
<1> QED
    BY <1>1, <1>2 DEF SendCommand

-------------------------------------------------------------------------------
(* Every step *)

LEMMA ServePreservesIInv ==
    ASSUME IInv, NEW sd \in Sd, Serve(sd)
    PROVE  IInv'
<1>1. sd \in client_socket /\ UNCHANGED serverVars
    BY DEF Serve
<1>2. CASE UnknownCommand(sd)
    BY <1>1, <1>2, RefusePreservesIInv DEF UnknownCommand
<1>3. CASE AccountCommand(sd)
    BY <1>1, <1>3, LoginPreservesIInv, RegisterPreservesIInv, LogoutPreservesIInv,
       SetProfileVisibilityPreservesIInv
    DEF AccountCommand
<1>4. CASE FriendCommand(sd)
    BY <1>1, <1>4, FriendRequestPreservesIInv, AcceptFriendPreservesIInv,
       SetFriendTypePreservesIInv, QueryPreservesIInv
    DEF FriendCommand, ListFriendsCommand, ListFriendRequestsCommand, ResponseKind
<1>5. CASE PostCommand(sd)
    BY <1>1, <1>5, CreatePostPreservesIInv, ReplyPreservesIInv
    DEF PostCommand, ListPostsCommand, ResponseKind
<1>6. CASE MessagingCommand(sd)
    <2>1. CASE \E u \in Name : ChatCommand(sd, u)
        BY <1>1, <2>1, ChatPreservesIInv
    <2>2. CASE ChatsCommand(sd)
        BY <1>1, <2>2, QueryPreservesIInv DEF ChatsCommand, ResponseKind
    <2>3. CASE \E c \in -1..MaxConversations : OpenCommand(sd, c)
        BY <1>1, <2>3, OpenPreservesIInv, ServerAssumption
    <2>4. CASE \E c \in Content : SendCommand(sd, c)
        BY <1>1, <2>4, SendPreservesIInv
    <2>5. CASE ShowCommand(sd)
        BY <1>1, <2>5, RefusePreservesIInv, ReplyPreservesIInv
        DEF ShowCommand, ResponseKind
    <2>6. CASE \E us \in UNION {[1..n -> Name] : n \in 1..MaxGroup} :
                  GroupCommand(sd, us)
        <3>1. PICK n \in 1..MaxGroup : \E us \in [1..n -> Name] : GroupCommand(sd, us)
            BY <2>6
        <3>2. n \in Nat \ {0}
            BY ServerAssumption
        <3> QED
            BY <1>1, <3>1, <3>2, GroupPreservesIInv
    <2>7. CASE \E u \in Name : AddCommand(sd, u)
        BY <1>1, <2>7, AddPreservesIInv
    <2> QED
        BY <1>6, <2>1, <2>2, <2>3, <2>4, <2>5, <2>6, <2>7 DEF MessagingCommand
<1> QED
    BY <1>2, <1>3, <1>4, <1>5, <1>6 DEF Serve

LEMMA StutterPreservesIInv ==
    ASSUME IInv, UNCHANGED vars
    PROVE  IInv'
BY DEF IInv, TypeOK, SessionTypeOK, DatabaseTypeOK, SessionsAreLive,
       OpenConversationIsOwn, ReferentialIntegrity, AcceptedIsAnswered,
       PendingIsPlain, NoSelfFriendship, isAuthenticated, isParticipant, hasRow, registered,
       vars, serverVars, sessionVars, databaseVars, messagingVars

LEMMA NextPreservesIInv == IInv /\ [Next]_vars => IInv'
<1> SUFFICES ASSUME IInv, [Next]_vars PROVE IInv'
    OBVIOUS
<1>1. ASSUME NEW sd \in Sd, Accept(sd) PROVE IInv'
    BY <1>1, AcceptPreservesIInv
<1>2. ASSUME NEW sd \in Sd, Disconnect(sd) PROVE IInv'
    BY <1>2, DisconnectPreservesIInv
<1>3. ASSUME NEW sd \in Sd, Serve(sd) PROVE IInv'
    BY <1>3, ServePreservesIInv
<1>4. CASE Restart
    BY <1>4, RestartPreservesIInv
<1>5. CASE UNCHANGED vars
    BY <1>5, StutterPreservesIInv
<1> QED
    BY <1>1, <1>2, <1>3, <1>4, <1>5 DEF Next

-------------------------------------------------------------------------------
(* Invariance *)

\* Whatever the clients send, in whatever order, and wherever the server is
\* restarted between commands, the inductive invariant holds.
THEOREM Invariance == Spec => []IInv
<1>1. Init => IInv
    BY InitEstablishesIInv
<1>2. IInv /\ [Next]_vars => IInv'
    BY NextPreservesIInv
<1> QED
    BY <1>1, <1>2, PTL DEF Spec

\* The tables and the sessions always hold values of their types.
THEOREM TypeCorrectness == Spec => []TypeOK
<1>1. IInv => TypeOK
    BY DEF IInv
<1> QED
    BY <1>1, Invariance, PTL

\* A descriptor the kernel hands out again starts as a guest.
THEOREM SessionsEndWithConnections == Spec => []SessionsAreLive
<1>1. IInv => SessionsAreLive
    BY DEF IInv
<1> QED
    BY <1>1, Invariance, PTL

\* No user inherits the open conversation of another (SessionManager.cpp).
THEOREM OpenConversationsAreOwn == Spec => []OpenConversationIsOwn
<1>1. IInv => OpenConversationIsOwn
    BY DEF IInv
<1> QED
    BY <1>1, Invariance, PTL

\* The foreign keys SQLite does not enforce hold all the same.
THEOREM ForeignKeysHold == Spec => []ReferentialIntegrity
<1>1. IInv => ReferentialIntegrity
    BY DEF IInv
<1> QED
    BY <1>1, Invariance, PTL

\* An accepted friendship has a row on the other side, crossed or not.
THEOREM FriendshipsAreAnswered == Spec => []AcceptedIsAnswered
<1>1. IInv => AcceptedIsAnswered
    BY DEF IInv
<1> QED
    BY <1>1, Invariance, PTL

===============================================================================
