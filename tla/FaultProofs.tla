------------------------------ MODULE FaultProofs ------------------------------
(***************************************************************************)
(* What is left of the invariants of SocialServer when statements fail     *)
(* unnoticed or the process ends between two of them, any number of times: *)
(* sessions still end with their connections, and every row still refers   *)
(* to rows that exist.  The friendship answered and the conversation owned *)
(* do not survive; here a conversation that is open only exists.           *)
(*                                                                         *)
(* A step is looked at in two parts: what it writes to the tables, and     *)
(* what it does to the sessions.                                           *)
(***************************************************************************)
EXTENDS Faults, TLAPS

\* The tables: types, and rows that refer to rows that exist.
FriendTable(table) ==
    /\ DOMAIN table \subseteq registered \X registered
    /\ table \in [DOMAIN table -> FriendRow]

TablesOK ==
    /\ DatabaseTypeOK
    /\ FriendTable(friends)
    /\ \A i \in DOMAIN posts : posts[i].author \in registered
    /\ participants \subseteq (1..conversations) \X registered
    /\ \A m \in DOMAIN messages : messages[m].conversation_id \in 1..conversations

\* What is open on a connection exists, whoever takes part in it.
OpenExists ==
    \A sd \in Sd : currentConversation[sd] # NoConversation =>
        /\ isAuthenticated(sd)
        /\ currentConversation[sd] \in 1..conversations

SessionsOK ==
    /\ SessionTypeOK /\ client_socket \subseteq Sd /\ master_set \subseteq Sd
    /\ SessionsAreLive
    /\ \A sd \in Sd : isAuthenticated(sd) => sessions[sd] \in registered
    /\ OpenExists

ResponseOK == response.sd \in Sd \cup {NoSd} /\ response.kind \in ResponseKind

\* The inductive invariant of the server with faults.
FInv == TablesOK /\ SessionsOK /\ ResponseOK

\* Accounts and conversations are never removed.
Grows == registered \subseteq registered' /\ conversations <= conversations'

LEMMA FInvGives == FInv => ReferentialIntegrity /\ SessionsAreLive
BY DEF FInv, TablesOK, FriendTable, SessionsOK, ReferentialIntegrity

LEMMA InitEstablishesFInv == Init => FInv
<1> SUFFICES ASSUME Init PROVE FInv
    OBVIOUS
<1> USE DEF Init, SessionInit, DatabaseInit
<1>1. TablesOK
    BY InitialUsersAssumption
    DEF TablesOK, DatabaseTypeOK, FriendTable, FriendRow, UserRow
<1>2. SessionsOK
    BY DEF SessionsOK, SessionTypeOK, SessionsAreLive, OpenExists, isAuthenticated,
           NoConversation
<1>3. ResponseOK
    BY DEF ResponseOK, NoResponse, ResponseKind
<1> QED
    BY <1>1, <1>2, <1>3 DEF FInv

-------------------------------------------------------------------------------
(* The sessions of a step *)

\* Most commands, and a half-done one after which the process goes on.
LEMMA SessionsStay ==
    ASSUME FInv, TablesOK', Grows, ResponseOK', UNCHANGED <<serverVars, sessionVars>>
    PROVE  FInv'
<1>1. conversations \in Nat /\ conversations' \in Nat
    BY DEF FInv, TablesOK, DatabaseTypeOK
<1>2. SessionsOK'
    BY <1>1 DEF FInv, SessionsOK, SessionTypeOK, SessionsAreLive, OpenExists,
                isAuthenticated, Grows, serverVars, sessionVars
<1> QED
    BY <1>2 DEF FInv

\* The process ends and is started again.
LEMMA SessionsEnd ==
    ASSUME TablesOK', StartsFresh
    PROVE  FInv'
<1>1. SessionsOK'
    BY DEF SessionsOK, SessionTypeOK, SessionsAreLive, OpenExists, isAuthenticated,
           StartsFresh
<1>2. ResponseOK'
    BY DEF ResponseOK, NoResponse, ResponseKind, StartsFresh
<1> QED
    BY <1>1, <1>2 DEF FInv

\* open, and group for the conversation it has just made.
LEMMA SessionsOpen ==
    ASSUME FInv, TablesOK', Grows, ResponseOK', UNCHANGED serverVars,
           NEW sd \in client_socket, isAuthenticated(sd),
           NEW c \in Nat, c \in 1..conversations', openConversation(sd, c)
    PROVE  FInv'
<1>1. conversations \in Nat /\ conversations' \in Nat
    BY DEF FInv, TablesOK, DatabaseTypeOK
<1>2. SessionsOK'
    BY <1>1 DEF FInv, SessionsOK, SessionTypeOK, SessionsAreLive, OpenExists,
                isAuthenticated, Grows, serverVars, openConversation
<1> QED
    BY <1>2 DEF FInv

\* What comes and goes with connections and logins leaves the tables alone.
LEMMA TablesStay ==
    ASSUME TablesOK, UNCHANGED databaseVars
    PROVE  TablesOK' /\ Grows
BY DEF TablesOK, DatabaseTypeOK, FriendTable, registered, Grows, databaseVars,
       messagingVars

LEMMA ReplyOK ==
    ASSUME NEW sd \in Sd, NEW kind \in ResponseKind, NEW rows, Reply(sd, kind, rows)
    PROVE  ResponseOK'
BY DEF Reply, ResponseOK

LEMMA OKReply ==
    ASSUME NEW sd \in Sd, OK(sd)
    PROVE  ResponseOK'
BY ReplyOK DEF OK, ResponseKind

\* A refused command, and every query.
LEMMA Unchanging ==
    ASSUME FInv, NEW sd \in Sd, NEW kind \in ResponseKind, NEW rows,
           Reply(sd, kind, rows), UNCHANGED <<serverVars, sessionVars, databaseVars>>
    PROVE  FInv'
BY ReplyOK, TablesStay, SessionsStay DEF FInv

LEMMA Refusal ==
    ASSUME FInv, NEW sd \in Sd, Refuse(sd), UNCHANGED serverVars
    PROVE  FInv'
BY Unchanging DEF Refuse, ResponseKind

LEMMA Querying ==
    ASSUME FInv, NEW sd \in Sd, NEW kind \in ResponseKind, NEW rows,
           Query(sd, kind, rows), UNCHANGED serverVars
    PROVE  FInv'
BY Unchanging DEF Query, ResponseKind

\* accept, and the end of a connection.
LEMMA Connections ==
    ASSUME FInv, NEW sd \in Sd, Accept(sd) \/ Disconnect(sd)
    PROVE  FInv'
<1>1. TablesOK' /\ Grows
    BY TablesStay DEF FInv, Accept, Disconnect
<1>2. ResponseOK'
    BY DEF Accept, Disconnect, ResponseOK, NoResponse, ResponseKind
<1>3. CASE Accept(sd)
    <2>1. SessionsOK'
        BY <1>3 DEF FInv, Accept, SessionsOK, SessionTypeOK, SessionsAreLive, OpenExists,
                    isAuthenticated, sessionVars, databaseVars, messagingVars, registered
    <2> QED
        BY <1>1, <1>2, <2>1 DEF FInv
<1>4. CASE Disconnect(sd)
    <2>1. SessionsOK'
        BY <1>4 DEF FInv, Disconnect, logout, SessionsOK, SessionTypeOK, SessionsAreLive,
                    OpenExists, isAuthenticated, databaseVars, messagingVars, registered
    <2> QED
        BY <1>1, <1>2, <2>1 DEF FInv
<1> QED
    BY <1>3, <1>4

LEMMA Logins ==
    ASSUME FInv, NEW sd \in client_socket, UNCHANGED serverVars,
           NEW u \in Token, NEW p, LoginCommand(sd, u, p)
    PROVE  FInv'
<1> sd \in Sd
    BY DEF FInv, SessionsOK
<1>1. CASE Refuse(sd)
    BY <1>1, Refusal
<1>2. CASE /\ u # Empty /\ ~isAuthenticated(sd) /\ authenticateUser(u, p)
           /\ login(sd, u) /\ OK(sd) /\ UNCHANGED databaseVars
    <2>1. TablesOK' /\ ResponseOK'
        BY <1>2, TablesStay, OKReply DEF FInv
    <2>2. SessionsOK'
        BY <1>2 DEF FInv, login, SessionsOK, SessionTypeOK, SessionsAreLive, OpenExists,
                    isAuthenticated, authenticateUser, registered, Token, serverVars,
                    databaseVars, messagingVars
    <2> QED
        BY <2>1, <2>2 DEF FInv
<1> QED
    BY <1>1, <1>2 DEF LoginCommand

LEMMA Logouts ==
    ASSUME FInv, NEW sd \in client_socket, UNCHANGED serverVars, LogoutCommand(sd)
    PROVE  FInv'
<1> sd \in Sd
    BY DEF FInv, SessionsOK
<1>1. CASE Refuse(sd)
    BY <1>1, Refusal
<1>2. CASE logout(sd) /\ OK(sd) /\ UNCHANGED databaseVars
    <2>1. TablesOK' /\ ResponseOK'
        BY <1>2, TablesStay, OKReply DEF FInv
    <2>2. SessionsOK'
        BY <1>2 DEF FInv, logout, SessionsOK, SessionTypeOK, SessionsAreLive, OpenExists,
                    isAuthenticated, registered, serverVars, databaseVars, messagingVars
    <2> QED
        BY <2>1, <2>2 DEF FInv
<1> QED
    BY <1>1, <1>2 DEF LogoutCommand

-------------------------------------------------------------------------------
(* The tables of a step *)

LEMMA UsersWritten ==
    ASSUME TablesOK, UNCHANGED <<friends, posts, messagingVars>>,
           registered \subseteq registered', registered' \subseteq Name,
           users' \in [registered' -> UserRow]
    PROVE  TablesOK' /\ Grows
BY DEF TablesOK, DatabaseTypeOK, FriendTable, registered, Grows, messagingVars

LEMMA FriendsWritten ==
    ASSUME TablesOK, UNCHANGED <<users, posts, messagingVars>>, FriendTable(friends)'
    PROVE  TablesOK' /\ Grows
BY DEF TablesOK, DatabaseTypeOK, FriendTable, registered, Grows, messagingVars

LEMMA PostsWritten ==
    ASSUME TablesOK, UNCHANGED <<users, friends, messagingVars>>,
           posts' \in Seq(Post), \A i \in DOMAIN posts' : posts'[i].author \in registered
    PROVE  TablesOK' /\ Grows
BY DEF TablesOK, DatabaseTypeOK, FriendTable, registered, Grows, messagingVars

LEMMA MessagingWritten ==
    ASSUME TablesOK, UNCHANGED <<users, friends, posts>>,
           conversations' \in Nat, conversations <= conversations',
           participants' \subseteq (1..conversations') \X registered,
           messages' \in Seq(Message),
           \A m \in DOMAIN messages' :
              messages'[m].conversation_id \in 1..conversations'
    PROVE  TablesOK' /\ Grows
BY DEF TablesOK, DatabaseTypeOK, FriendTable, registered, Grows

\* The INSERT of registerUser, and the UPDATE that may follow it.
LEMMA InsertUserFacts ==
    ASSUME TablesOK, NEW u \in Name, NEW p \in Password, NEW e \in Email,
           NEW r \in UserType
    PROVE  insertUser(users, u, p, e, r) \in [registered \cup {u} -> UserRow]
<1> DEFINE row == [password |-> Hashpassword(p), email |-> e, user_type |-> r,
                   profile_visibility |-> "public"]
<1>1. row \in UserRow
    BY HashAssumption DEF Hashpassword, UserRow, ProfileVisibility
<1>2. insertUser(users, u, p, e, r) = Insert(users, u, row)
    BY DEF insertUser
<1>3. users \in [DOMAIN users -> UserRow]
    BY DEF TablesOK, DatabaseTypeOK
<1> HIDE DEF row
<1> QED
    BY <1>1, <1>2, <1>3 DEF Insert, registered

LEMMA VisibilityWritten ==
    ASSUME NEW D, NEW table \in [D -> UserRow], NEW u \in D, NEW v \in ProfileVisibility
    PROVE  updateProfileVisibility(table, u, v) \in [D -> UserRow]
BY DEF updateProfileVisibility, UserRow

LEMMA Registers ==
    ASSUME FInv, NEW sd \in client_socket, UNCHANGED serverVars,
           NEW u \in Token, NEW p \in Password \cup {Empty}, NEW e \in Email \cup {Empty},
           NEW r, NEW v, RegisterCommand(sd, u, p, e, r, v)
    PROVE  FInv'
<1> sd \in Sd
    BY DEF FInv, SessionsOK
<1>1. CASE Refuse(sd)
    BY <1>1, Refusal
<1> DEFINE inserted == insertUser(users, u, p, e, r)
<1>2. CASE /\ u # Empty /\ p # Empty /\ e # Empty
           /\ r \in UserType /\ v \in ProfileVisibility
           /\ users' = updateProfileVisibility(inserted, u, v)
           /\ OK(sd)
           /\ UNCHANGED <<sessionVars, friends, posts, messagingVars>>
    <2>1. u \in Name
        BY <1>2 DEF Token
    <2>2. inserted \in [registered \cup {u} -> UserRow]
        BY <1>2, <2>1, InsertUserFacts DEF FInv
    <2> HIDE DEF inserted
    <2>3. users' \in [registered \cup {u} -> UserRow]
        BY <1>2, <2>2, VisibilityWritten
    <2>4. /\ registered' = registered \cup {u} /\ registered' \subseteq Name
        BY <2>1, <2>3 DEF registered, FInv, TablesOK, DatabaseTypeOK
    <2>5. TablesOK' /\ Grows
        BY <1>2, <2>3, <2>4, UsersWritten DEF FInv
    <2> QED
        BY <1>2, <2>5, OKReply, SessionsStay
<1> QED
    BY <1>1, <1>2 DEF RegisterCommand

LEMMA SetsVisibility ==
    ASSUME FInv, NEW sd \in client_socket, UNCHANGED serverVars,
           NEW v, SetProfileVisibilityCommand(sd, v)
    PROVE  FInv'
<1> sd \in Sd
    BY DEF FInv, SessionsOK
<1>1. CASE Refuse(sd)
    BY <1>1, Refusal
<1>2. CASE /\ v \in ProfileVisibility /\ getUserByUsername(getUsername(sd))
           /\ users' = updateProfileVisibility(users, getUsername(sd), v)
           /\ OK(sd)
           /\ UNCHANGED <<sessionVars, friends, posts, messagingVars>>
    <2>1. users \in [registered -> UserRow] /\ registered \subseteq Name
        BY DEF FInv, TablesOK, DatabaseTypeOK, registered
    <2>2. users' \in [registered -> UserRow]
        BY <1>2, <2>1, VisibilityWritten DEF getUserByUsername, registered
    <2>3. registered' = registered
        BY <2>2 DEF registered
    <2>4. TablesOK' /\ Grows
        BY <1>2, <2>1, <2>2, <2>3, UsersWritten DEF FInv
    <2> QED
        BY <1>2, <2>4, OKReply, SessionsStay
<1> QED
    BY <1>1, <1>2 DEF SetProfileVisibilityCommand

-------------------------------------------------------------------------------
(* Friendships: each statement leaves a table of friendships one. *)

LEMMA InsertFriendFacts ==
    ASSUME NEW table, FriendTable(table), NEW pair \in registered \X registered,
           NEW row \in FriendRow
    PROVE  FriendTable(Insert(table, pair, row))
BY DEF FriendTable, Insert

LEMMA UpdateFacts ==
    ASSUME NEW table, FriendTable(table), NEW a, NEW b, <<a, b>> \in DOMAIN table,
           NEW type \in FriendTypes
    PROVE  FriendTable(updateStatus(table, a, b))
           /\ FriendTable(updateFriendType(table, a, b, type))
BY DEF FriendTable, updateStatus, updateFriendType, FriendRow, Accepted

LEMMA InsertReverseFacts ==
    ASSUME NEW table, FriendTable(table), NEW a, NEW b,
           <<a, b>> \in registered \X registered
    PROVE  FriendTable(insertReverse(table, a, b))
<1>1. [friend_type |-> Normal, status |-> Accepted] \in FriendRow
    BY DEF FriendRow, FriendTypes, Normal, Accepted
<1> QED
    BY <1>1, InsertFriendFacts DEF insertReverse

\* What a friendship command writes is a table of friendships.
LEMMA FriendsChange ==
    ASSUME FInv, NEW table, FriendTable(table), friends' = table,
           UNCHANGED <<users, posts, messagingVars>>
    PROVE  TablesOK' /\ Grows
<1>1. FriendTable(friends)'
    BY DEF FriendTable, registered
<1> QED
    BY <1>1, FriendsWritten DEF FInv

LEMMA FriendRequests ==
    ASSUME FInv, NEW sd \in client_socket, UNCHANGED serverVars,
           NEW target, FriendRequestCommand(sd, target)
    PROVE  FInv'
<1> sd \in Sd
    BY DEF FInv, SessionsOK
<1>1. CASE Refuse(sd)
    BY <1>1, Refusal
<1> DEFINE user == getUsername(sd)
           row == [friend_type |-> Normal, status |-> Pending]
<1>2. CASE /\ isAuthenticated(sd) /\ getUserByUsername(target)
           /\ sendFriendRequest(user, target) /\ OK(sd)
           /\ UNCHANGED <<sessionVars, users, posts, messagingVars>>
    <2>1. <<user, target>> \in registered \X registered /\ row \in FriendRow
        BY <1>2 DEF FInv, SessionsOK, getUserByUsername, getUsername, registered,
                    FriendRow, FriendTypes, Normal, Pending
    <2>2. friends' = Insert(friends, <<user, target>>, row)
        BY <1>2 DEF sendFriendRequest, insertRequest
    <2> HIDE DEF row, user
    <2>3. FriendTable(Insert(friends, <<user, target>>, row))
        BY <2>1, InsertFriendFacts DEF FInv, TablesOK
    <2>4. TablesOK' /\ Grows
        BY <1>2, <2>2, <2>3, FriendsChange
    <2> QED
        BY <1>2, <2>4, OKReply, SessionsStay
<1> QED
    BY <1>1, <1>2 DEF FriendRequestCommand

\* The two statements of acceptFriendRequest, one of them or both.
LEMMA AcceptFacts ==
    ASSUME FInv, NEW user, NEW source, pendingRequest(source, user)
    PROVE  /\ FriendTable(friends)
           /\ FriendTable(updateStatus(friends, source, user))
           /\ FriendTable(insertReverse(friends, user, source))
           /\ FriendTable(insertReverse(updateStatus(friends, source, user), user, source))
<1>1. FriendTable(friends)
    BY DEF FInv, TablesOK
<1>2. <<source, user>> \in DOMAIN friends
    BY DEF pendingRequest, hasRow
<1>3. <<user, source>> \in registered \X registered
    BY <1>1, <1>2 DEF FriendTable
<1>4. FriendTable(updateStatus(friends, source, user))
    BY <1>1, <1>2, UpdateFacts DEF FriendTypes
<1> QED
    BY <1>1, <1>3, <1>4, InsertReverseFacts

LEMMA AcceptsFriend ==
    ASSUME FInv, NEW sd \in client_socket, UNCHANGED serverVars,
           NEW source, AcceptFriendCommand(sd, source)
    PROVE  FInv'
<1> sd \in Sd
    BY DEF FInv, SessionsOK
<1>1. CASE Refuse(sd)
    BY <1>1, Refusal
<1>2. CASE /\ pendingRequest(source, getUsername(sd))
           /\ acceptFriendRequest(getUsername(sd), source) /\ OK(sd)
           /\ UNCHANGED <<sessionVars, users, posts, messagingVars>>
    <2>1. TablesOK' /\ Grows
        BY <1>2, AcceptFacts, FriendsChange DEF acceptFriendRequest
    <2> QED
        BY <1>2, <2>1, OKReply, SessionsStay
<1> QED
    BY <1>1, <1>2 DEF AcceptFriendCommand

LEMMA SetsFriendType ==
    ASSUME FInv, NEW sd \in client_socket, UNCHANGED serverVars,
           NEW target, NEW type, SetFriendTypeCommand(sd, target, type)
    PROVE  FInv'
<1> sd \in Sd
    BY DEF FInv, SessionsOK
<1>1. CASE Refuse(sd)
    BY <1>1, Refusal
<1>2. CASE /\ settableType(getUsername(sd), target, type)
           /\ setFriendType(getUsername(sd), target, type) /\ OK(sd)
           /\ UNCHANGED <<sessionVars, users, posts, messagingVars>>
    <2>1. FriendTable(updateFriendType(friends, getUsername(sd), target, type))
        BY <1>2, UpdateFacts DEF FInv, TablesOK, settableType, areFriends, hasRow
    <2>2. TablesOK' /\ Grows
        BY <1>2, <2>1, FriendsChange DEF setFriendType
    <2> QED
        BY <1>2, <2>2, OKReply, SessionsStay
<1> QED
    BY <1>1, <1>2 DEF SetFriendTypeCommand

-------------------------------------------------------------------------------
(* Posts and messages *)

LEMMA CreatesPost ==
    ASSUME FInv, NEW sd \in client_socket, UNCHANGED serverVars,
           NEW visibility, NEW content \in Content \cup {Empty},
           CreatePostCommand(sd, visibility, content)
    PROVE  FInv'
<1> sd \in Sd
    BY DEF FInv, SessionsOK
<1>1. CASE Refuse(sd)
    BY <1>1, Refusal
<1> DEFINE row == [author |-> getUsername(sd), content |-> content,
                   visibility |-> visibility]
<1>2. CASE /\ isAuthenticated(sd) /\ content # Empty /\ postable(visibility)
           /\ createPost(getUsername(sd), content, visibility) /\ OK(sd)
           /\ UNCHANGED <<sessionVars, users, friends, messagingVars>>
    <2>1. row \in Post /\ row.author \in registered
        BY <1>2 DEF FInv, SessionsOK, SessionTypeOK, isAuthenticated, getUsername,
                    postable, Post
    <2>2. posts \in Seq(Post) /\ posts' = Append(posts, row)
        BY <1>2 DEF FInv, TablesOK, DatabaseTypeOK, createPost
    <2> HIDE DEF row
    <2>3. /\ posts' \in Seq(Post)
          /\ \A i \in DOMAIN posts' : \/ i \in DOMAIN posts /\ posts'[i] = posts[i]
                                     \/ posts'[i] = row
        BY <2>1, <2>2
    <2>4. \A i \in DOMAIN posts' : posts'[i].author \in registered
        BY <2>1, <2>3 DEF FInv, TablesOK
    <2>5. TablesOK' /\ Grows
        BY <1>2, <2>3, <2>4, PostsWritten DEF FInv
    <2> QED
        BY <1>2, <2>5, OKReply, SessionsStay
<1> QED
    BY <1>1, <1>2 DEF CreatePostCommand

LEMMA SendsMessage ==
    ASSUME FInv, NEW sd \in client_socket, UNCHANGED serverVars,
           NEW content \in Content, SendCommand(sd, content)
    PROVE  FInv'
<1> sd \in Sd
    BY DEF FInv, SessionsOK
<1>1. CASE Refuse(sd)
    BY <1>1, Refusal
<1> DEFINE c == getCurrentConversation(sd)
           row == [conversation_id |-> c, sender |-> getUsername(sd),
                   content |-> content]
<1>2. CASE /\ isParticipant(c, getUsername(sd))
           /\ sendMessage(c, getUsername(sd), content) /\ OK(sd)
           /\ UNCHANGED <<sessionVars, users, friends, posts, conversations,
                          participants>>
    <2>1. c \in 1..conversations /\ row \in Message
        BY <1>2 DEF FInv, TablesOK, DatabaseTypeOK, isParticipant, Message
    <2>2. messages \in Seq(Message) /\ messages' = Append(messages, row)
        BY <1>2 DEF FInv, TablesOK, DatabaseTypeOK, sendMessage
    <2>3. row.conversation_id \in 1..conversations
        BY <2>1
    <2> HIDE DEF row
    <2>4. /\ messages' \in Seq(Message)
          /\ \A m \in DOMAIN messages' :
                \/ m \in DOMAIN messages /\ messages'[m] = messages[m]
                \/ messages'[m] = row
        BY <2>1, <2>2
    <2>5. \A m \in DOMAIN messages' : messages'[m].conversation_id \in 1..conversations
        BY <2>3, <2>4 DEF FInv, TablesOK
    <2>6. /\ conversations \in Nat
          /\ participants \subseteq (1..conversations) \X registered
        BY DEF FInv, TablesOK, DatabaseTypeOK
    <2>7. TablesOK' /\ Grows
        BY <1>2, <2>4, <2>5, <2>6, MessagingWritten DEF FInv
    <2> QED
        BY <1>2, <2>7, OKReply, SessionsStay
<1> QED
    BY <1>1, <1>2 DEF SendCommand

LEMMA AddsUser ==
    ASSUME FInv, NEW sd \in client_socket, UNCHANGED serverVars,
           NEW u, AddCommand(sd, u)
    PROVE  FInv'
<1> sd \in Sd
    BY DEF FInv, SessionsOK
<1>1. CASE Refuse(sd)
    BY <1>1, Refusal
<1> DEFINE c == getCurrentConversation(sd)
<1>2. CASE /\ c # NoConversation /\ getUserByUsername(u)
           /\ participants' = addParticipant(participants, c, u) /\ OK(sd)
           /\ UNCHANGED <<sessionVars, users, friends, posts, conversations, messages>>
    <2>1. c \in 1..conversations /\ u \in registered
        BY <1>2 DEF FInv, SessionsOK, OpenExists, getCurrentConversation,
                    getUserByUsername, registered
    <2>2. TablesOK' /\ Grows
        BY <1>2, <2>1, MessagingWritten
        DEF FInv, TablesOK, DatabaseTypeOK, addParticipant
    <2> QED
        BY <1>2, <2>2, OKReply, SessionsStay
<1> QED
    BY <1>1, <1>2 DEF AddCommand

LEMMA Opens ==
    ASSUME FInv, NEW sd \in client_socket, UNCHANGED serverVars,
           NEW c \in Int, OpenCommand(sd, c)
    PROVE  FInv'
<1> sd \in Sd
    BY DEF FInv, SessionsOK
<1>1. CASE Refuse(sd)
    BY <1>1, Refusal
<1>2. CASE /\ isAuthenticated(sd) /\ isParticipant(c, getUsername(sd))
           /\ openConversation(sd, c) /\ OK(sd) /\ UNCHANGED databaseVars
    <2>1. TablesOK' /\ Grows /\ ResponseOK'
        BY <1>2, TablesStay, OKReply DEF FInv
    <2>2. c \in Nat /\ c \in 1..conversations'
        BY <1>2 DEF FInv, TablesOK, DatabaseTypeOK, isParticipant, databaseVars,
                    messagingVars
    <2> QED
        BY <1>2, <2>1, <2>2, SessionsOpen
<1> QED
    BY <1>1, <1>2 DEF OpenCommand

\* A new conversation with some users in it, chosen however.
LEMMA ConversationMade ==
    ASSUME FInv, NEW some, some \subseteq registered,
           conversations' = conversations + 1,
           participants' = participants \cup {<<conversations + 1, u>> : u \in some},
           UNCHANGED <<users, friends, posts, messages>>
    PROVE  TablesOK' /\ Grows
<1>1. conversations \in Nat
    BY DEF FInv, TablesOK, DatabaseTypeOK
<1>2. /\ participants' \subseteq (1..conversations') \X registered
      /\ messages' \in Seq(Message)
      /\ \A m \in DOMAIN messages' :
            messages'[m].conversation_id \in 1..conversations'
    BY <1>1 DEF FInv, TablesOK, DatabaseTypeOK
<1> QED
    BY <1>1, <1>2, MessagingWritten DEF FInv

LEMMA Chats ==
    ASSUME FInv, NEW sd \in client_socket, UNCHANGED serverVars,
           NEW other, ChatCommand(sd, other)
    PROVE  FInv'
<1> sd \in Sd
    BY DEF FInv, SessionsOK
<1>1. CASE Refuse(sd)
    BY <1>1, Refusal
<1> DEFINE user == getUsername(sd)
<1>2. CASE /\ OK(sd)
           /\ UNCHANGED <<sessionVars, users, friends, posts, messages>>
           /\ UNCHANGED <<conversations, participants>>
    BY <1>2, Unchanging DEF OK, ResponseKind, databaseVars, messagingVars
<1>3. CASE /\ isAuthenticated(sd) /\ getUserByUsername(other)
           /\ createConversation(user, other) /\ OK(sd)
           /\ UNCHANGED <<sessionVars, users, friends, posts, messages>>
    <2>1. {user, other} \subseteq registered
        BY <1>3 DEF FInv, SessionsOK, getUsername, getUserByUsername, registered
    <2>2. /\ conversations' = conversations + 1
          /\ participants' = participants \cup
                 {<<conversations + 1, u>> : u \in {user, other}}
        BY <1>3 DEF createConversation, addParticipant
    <2>3. TablesOK' /\ Grows
        BY <1>3, <2>1, <2>2, ConversationMade
    <2> QED
        BY <1>3, <2>3, OKReply, SessionsStay
<1> QED
    BY <1>1, <1>2, <1>3 DEF ChatCommand

\* Some of the words typed after "group", and the user.
LEMMA NamedFacts ==
    ASSUME NEW n \in Nat, NEW us \in [1..n -> Name], NEW me \in Name,
           NEW D \in SUBSET DOMAIN Append(us, me),
           \A i \in DOMAIN Append(us, me) : getUserByUsername(Append(us, me)[i])
    PROVE  {Append(us, me)[i] : i \in D} \subseteq registered
BY DEF getUserByUsername, registered

LEMMA Groups ==
    ASSUME FInv, NEW sd \in client_socket, UNCHANGED serverVars,
           NEW n \in Nat, NEW us \in [1..n -> Name], GroupCommand(sd, us)
    PROVE  FInv'
<1> sd \in Sd
    BY DEF FInv, SessionsOK
<1>1. CASE Refuse(sd)
    BY <1>1, Refusal
<1> DEFINE all == Append(us, getUsername(sd))
           some == {all[i] : i \in DOMAIN all}
<1>2. CASE /\ isAuthenticated(sd)
           /\ \A i \in DOMAIN all : getUserByUsername(all[i])
           /\ createGroupConversation(all)
           /\ openConversation(sd, conversations') /\ OK(sd)
           /\ UNCHANGED <<users, friends, posts, messages>>
    <2>1. getUsername(sd) \in Name
        BY <1>2 DEF FInv, SessionsOK, SessionTypeOK, isAuthenticated, getUsername
    <2>2. some \subseteq registered
        BY <1>2, <2>1, NamedFacts
    <2>3. /\ conversations' = conversations + 1
          /\ participants' = participants \cup {<<conversations + 1, u>> : u \in some}
        BY <1>2 DEF createGroupConversation
    <2> HIDE DEF some
    <2>4. TablesOK' /\ Grows
        BY <1>2, <2>2, <2>3, ConversationMade
    <2>5. conversations' \in Nat /\ conversations' \in 1..conversations'
          /\ openConversation(sd, conversations + 1)
        BY <1>2, <2>3 DEF FInv, TablesOK, DatabaseTypeOK, openConversation
    <2> QED
        BY <1>2, <2>3, <2>4, <2>5, OKReply, SessionsOpen
<1> QED
    BY <1>1, <1>2 DEF GroupCommand

-------------------------------------------------------------------------------
(* Commands half done *)

LEMMA HalfRegisters ==
    ASSUME FInv, NEW sd \in client_socket, NEW u \in Token,
           NEW p \in Password, NEW e \in Email, NEW r \in UserType,
           HalfRegister(sd, u, p, e, r)
    PROVE  FInv'
<1> sd \in Sd
    BY DEF FInv, SessionsOK
<1>1. u \in Name
    BY DEF HalfRegister, Token
<1>2. users' \in [registered \cup {u} -> UserRow]
    BY <1>1, InsertUserFacts DEF HalfRegister, FInv
<1>3. registered' = registered \cup {u} /\ registered' \subseteq Name
    BY <1>1, <1>2 DEF registered, FInv, TablesOK, DatabaseTypeOK
<1>4. TablesOK' /\ Grows
    BY <1>2, <1>3, UsersWritten DEF HalfRegister, FInv
<1> QED
    BY <1>4, OKReply, SessionsStay, SessionsEnd DEF HalfRegister

LEMMA HalfSetsVisibility ==
    ASSUME FInv, NEW sd \in client_socket, HalfSetVisibility(sd)
    PROVE  FInv'
<1> sd \in Sd
    BY DEF FInv, SessionsOK
<1>1. TablesOK' /\ Grows
    BY TablesStay DEF HalfSetVisibility, FInv
<1> QED
    BY <1>1, OKReply, SessionsStay DEF HalfSetVisibility

LEMMA HalfAccepts ==
    ASSUME FInv, NEW sd \in client_socket, NEW source, HalfAccept(sd, source)
    PROVE  FInv'
<1> sd \in Sd
    BY DEF FInv, SessionsOK
<1> DEFINE user == getUsername(sd)
<1>1. pendingRequest(source, user)
    BY DEF HalfAccept
<1>2. /\ UNCHANGED <<users, posts, messagingVars>>
      /\ \/ friends' = updateStatus(friends, source, user)
         \/ friends' = insertReverse(friends, user, source)
         \/ friends' = friends
    BY DEF HalfAccept
<1>3. TablesOK' /\ Grows
    BY <1>1, <1>2, AcceptFacts, FriendsChange
<1> QED
    BY <1>3, OKReply, SessionsStay, SessionsEnd DEF HalfAccept

\* Whoever is added, they are users.
LEMMA Creates ==
    ASSUME FInv, NEW names, \A i \in DOMAIN names : names[i] \in registered,
           NEW failed, Create(names, failed)
    PROVE  TablesOK' /\ Grows
<1> DEFINE some == {names[i] : i \in DOMAIN names \ failed}
<1>1. some \subseteq registered
    OBVIOUS
<1>2. /\ conversations' = conversations + 1
      /\ participants' = participants \cup {<<conversations + 1, u>> : u \in some}
      /\ UNCHANGED <<users, friends, posts, messages>>
    BY DEF Create
<1> HIDE DEF some
<1> QED
    BY <1>1, <1>2, ConversationMade

LEMMA HalfChats ==
    ASSUME FInv, NEW sd \in client_socket, NEW other, HalfChat(sd, other)
    PROVE  FInv'
<1> sd \in Sd
    BY DEF FInv, SessionsOK
<1> DEFINE names == <<getUsername(sd), other>>
<1>1. \A i \in DOMAIN names : names[i] \in registered
    BY DEF HalfChat, FInv, SessionsOK, getUsername, getUserByUsername, registered
<1>2. \/ /\ \E failed : Create(names, failed)
         /\ OK(sd) /\ UNCHANGED <<serverVars, sessionVars>>
      \/ /\ \E failed : Create(names, failed)
         /\ StartsFresh
    BY DEF HalfChat, Stops
<1> HIDE DEF names
<1>3. TablesOK' /\ Grows
    BY <1>1, <1>2, Creates
<1> QED
    BY <1>2, <1>3, OKReply, SessionsStay, SessionsEnd

LEMMA HalfGroups ==
    ASSUME FInv, NEW sd \in client_socket, NEW n \in Nat, NEW us \in [1..n -> Name],
           HalfGroup(sd, us)
    PROVE  FInv'
<1> sd \in Sd
    BY DEF FInv, SessionsOK
<1> DEFINE names == Append(us, getUsername(sd))
<1>1. \A i \in DOMAIN names : names[i] \in registered
    BY DEF HalfGroup, getUserByUsername, registered
<1>2. \/ /\ \E failed : Create(names, failed)
         /\ openConversation(sd, conversations') /\ OK(sd) /\ UNCHANGED serverVars
      \/ /\ \E failed : Create(names, failed)
         /\ StartsFresh
    BY DEF HalfGroup, Stops
<1> HIDE DEF names
<1>3. TablesOK' /\ Grows
    BY <1>1, <1>2, Creates
<1>4. isAuthenticated(sd) /\ conversations' = conversations + 1 /\ conversations \in Nat
    BY <1>2 DEF HalfGroup, Create, FInv, TablesOK, DatabaseTypeOK
<1>5. CASE openConversation(sd, conversations') /\ OK(sd) /\ UNCHANGED serverVars
    <2>1. openConversation(sd, conversations + 1)
        BY <1>4, <1>5 DEF openConversation
    <2>2. conversations + 1 \in Nat /\ conversations + 1 \in 1..conversations'
        BY <1>4
    <2> QED
        BY <1>3, <1>4, <1>5, <2>1, <2>2, OKReply, SessionsOpen
<1> QED
    BY <1>2, <1>3, <1>5, SessionsEnd

-------------------------------------------------------------------------------
(* Every step *)

LEMMA Serves ==
    ASSUME FInv, NEW sd \in Sd, Serve(sd)
    PROVE  FInv'
<1>1. sd \in client_socket /\ UNCHANGED serverVars
    BY DEF Serve
<1>2. CASE UnknownCommand(sd)
    BY <1>1, <1>2, Refusal DEF UnknownCommand
<1>3. CASE AccountCommand(sd)
    BY <1>1, <1>3, Logins, Registers, Logouts, SetsVisibility DEF AccountCommand
<1>4. CASE FriendCommand(sd)
    BY <1>1, <1>4, FriendRequests, AcceptsFriend, SetsFriendType, Querying
    DEF FriendCommand, ListFriendsCommand, ListFriendRequestsCommand, ResponseKind
<1>5. CASE PostCommand(sd)
    BY <1>1, <1>5, CreatesPost, Unchanging
    DEF PostCommand, ListPostsCommand, ResponseKind
<1>6. CASE MessagingCommand(sd)
    <2>1. CASE \E u \in Name : ChatCommand(sd, u) \/ AddCommand(sd, u)
        BY <1>1, <2>1, Chats, AddsUser
    <2>2. CASE ChatsCommand(sd)
        BY <1>1, <2>2, Querying DEF ChatsCommand, ResponseKind
    <2>3. CASE \E c \in -1..MaxConversations : OpenCommand(sd, c)
        BY <1>1, <2>3, Opens, ServerAssumption
    <2>4. CASE \E c \in Content : SendCommand(sd, c)
        BY <1>1, <2>4, SendsMessage
    <2>5. CASE ShowCommand(sd)
        BY <1>1, <2>5, Refusal, Unchanging DEF ShowCommand, ResponseKind
    <2>6. CASE \E us \in UNION {[1..n -> Name] : n \in 1..MaxGroup} :
                  GroupCommand(sd, us)
        <3>1. PICK n \in 1..MaxGroup : \E us \in [1..n -> Name] : GroupCommand(sd, us)
            BY <2>6
        <3>2. n \in Nat
            BY ServerAssumption
        <3> QED
            BY <1>1, <3>1, <3>2, Groups
    <2> QED
        BY <1>6, <2>1, <2>2, <2>3, <2>4, <2>5, <2>6 DEF MessagingCommand
<1> QED
    BY <1>2, <1>3, <1>4, <1>5, <1>6 DEF Serve

LEMMA HalfDoneKeepsFInv ==
    ASSUME FInv, NEW sd \in Sd, HalfDone(sd)
    PROVE  FInv'
<1>1. sd \in client_socket
    BY DEF HalfDone
<1>2. CASE \E u \in Token, p \in Password, e \in Email, r \in UserType :
               HalfRegister(sd, u, p, e, r)
    BY <1>1, <1>2, HalfRegisters
<1>3. CASE \E u \in Name : HalfAccept(sd, u) \/ HalfChat(sd, u)
    BY <1>1, <1>3, HalfAccepts, HalfChats
<1>4. CASE \E us \in UNION {[1..n -> Name] : n \in 1..MaxGroup} : HalfGroup(sd, us)
    <2>1. PICK n \in 1..MaxGroup : \E us \in [1..n -> Name] : HalfGroup(sd, us)
        BY <1>4
    <2>2. n \in Nat
        BY ServerAssumption
    <2> QED
        BY <1>1, <2>1, <2>2, HalfGroups
<1>5. CASE HalfSetVisibility(sd)
    BY <1>1, <1>5, HalfSetsVisibility
<1> QED
    BY <1>2, <1>3, <1>4, <1>5 DEF HalfDone

LEMMA FaultyNextKeepsFInv == FInv /\ [FaultyNext]_faultyVars => FInv'
<1> SUFFICES ASSUME FInv, [FaultyNext]_faultyVars PROVE FInv'
    OBVIOUS
<1>1. CASE UNCHANGED vars
    BY <1>1, TablesStay, SessionsStay DEF FInv, ResponseOK, vars
<1>2. ASSUME NEW sd \in Sd, Accept(sd) \/ Disconnect(sd) PROVE FInv'
    BY <1>2, Connections
<1>3. ASSUME NEW sd \in Sd, Serve(sd) PROVE FInv'
    BY <1>3, Serves
<1>4. CASE Restart
    BY <1>4, TablesStay, SessionsEnd DEF FInv, Restart
<1>5. ASSUME NEW sd \in Sd, HalfDone(sd) PROVE FInv'
    BY <1>5, HalfDoneKeepsFInv
<1> QED
    BY <1>1, <1>2, <1>3, <1>4, <1>5 DEF FaultyNext, Next, faultyVars

-------------------------------------------------------------------------------
(* What no fault can take away *)

\* Failed statements and ends of the process keep FInv like every command,
\* whatever MaxFaults is (Database.cpp:265-306, 627-660, server.cpp:58-133).
THEOREM FaultyInvariance == FaultySpec => []FInv
<1>1. FaultyInit => FInv
    BY InitEstablishesFInv DEF FaultyInit
<1>2. FInv /\ [FaultyNext]_faultyVars => FInv'
    BY FaultyNextKeepsFInv
<1> QED
    BY <1>1, <1>2, PTL DEF FaultySpec

\* However many statements fail and wherever the process ends, every row
\* refers to accounts and conversations that exist (Database.cpp:265-306,
\* 627-660).
THEOREM ForeignKeysOutliveFaults == FaultySpec => []ReferentialIntegrity
<1>1. FInv => ReferentialIntegrity
    BY FInvGives
<1> QED
    BY <1>1, FaultyInvariance, PTL

\* And a descriptor that is handed out again belongs to a guest.
THEOREM SessionsEndDespiteFaults == FaultySpec => []SessionsAreLive
<1>1. FInv => SessionsAreLive
    BY FInvGives
<1> QED
    BY <1>1, FaultyInvariance, PTL

===============================================================================
