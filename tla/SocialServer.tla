----------------------------- MODULE SocialServer -----------------------------
(***************************************************************************)
(* The server as its clients see it: connections (server/server.cpp), and  *)
(* one action per command (server/commands/*.cpp) over the session tables  *)
(* and the database.  The server is a single thread, so a command is one   *)
(* step; a crash or restart happens between commands here.                 *)
(*                                                                         *)
(* A handler either passes all its checks and takes effect, or answers     *)
(* ERROR and changes nothing; every command below is that disjunction.     *)
(***************************************************************************)
EXTENDS SessionManager, Database

CONSTANTS
    MaxClients,        \* MAX_CLIENTS: slots of the array client_socket
    NoSd,              \* addressee of the reply nobody was sent
    Commands,          \* the commands the clients of a run use
    MaxConversations, MaxMessages, MaxPosts,   \* bounds of a run
    MaxGroup           \* most names typed after "group"

ASSUME ServerAssumption ==
    /\ MaxClients \in Nat \ {0} /\ NoSd \notin Sd
    /\ MaxConversations \in Nat /\ MaxGroup \in Nat

VARIABLES
    client_socket,   \* the descriptors that hold a slot of the array
    master_set,      \* the descriptors select watches: all that are open
    response         \* the last reply: to whom, what about, the rows in it

serverVars == <<client_socket, master_set>>

vars == <<serverVars, sessionVars, databaseVars, response>>

ResponseKind == {"none", "ERROR", "OK", "friends", "requests", "posts", "chats",
                 "messages"}

NoResponse == [sd |-> NoSd, kind |-> "none", rows |-> {}]

Reply(sd, kind, rows) == response' = [sd |-> sd, kind |-> kind, rows |-> rows]

OK(sd) == Reply(sd, "OK", {})

Refuse(sd) == Reply(sd, "ERROR", {}) /\ UNCHANGED <<sessionVars, databaseVars>>

\* A query changes nothing; it is refused to a connection not logged in.
Query(sd, kind, rows) ==
    /\ IF isAuthenticated(sd) THEN Reply(sd, kind, rows) ELSE Reply(sd, "ERROR", {})
    /\ UNCHANGED <<sessionVars, databaseVars>>

Token == Name \cup {Empty}      \* a word of a command, Empty when it is missing

Init ==
    /\ SessionInit
    /\ DatabaseInit
    /\ client_socket = {}
    /\ master_set = {}
    /\ response = NoResponse

-------------------------------------------------------------------------------
(* Connections *)

\* Mutant: the slot is given back before the session is forgotten.
Disconnect_KeepsSession(sd) ==
    /\ sd \in client_socket
    /\ client_socket' = client_socket \ {sd}
    /\ master_set' = master_set \ {sd}
    /\ response' = NoResponse
    /\ UNCHANGED <<sessionVars, databaseVars>>

\* The kernel hands out a descriptor that is not open; when the array is
\* full the connection is watched but never looked at again.
Accept(sd) ==
    /\ sd \notin master_set
    /\ client_socket' = IF Cardinality(client_socket) < MaxClients
                        THEN client_socket \cup {sd}
                        ELSE client_socket
    /\ master_set' = master_set \cup {sd}
    /\ response' = NoResponse
    /\ UNCHANGED <<sessionVars, databaseVars>>

Disconnect(sd) ==
    /\ sd \in client_socket
    /\ logout(sd)
    /\ client_socket' = client_socket \ {sd}
    /\ master_set' = master_set \ {sd}
    /\ response' = NoResponse
    /\ UNCHANGED databaseVars

\* The process ends, by error_exit or from outside, and is started again:
\* what it holds is lost.
StartsFresh ==
    /\ sessions' = [sd \in Sd |-> Empty]
    /\ currentConversation' = [sd \in Sd |-> NoConversation]
    /\ client_socket' = {}
    /\ master_set' = {}
    /\ response' = NoResponse

\* What SQLite holds survives.
Restart == StartsFresh /\ UNCHANGED databaseVars

\* CommandFactory::create returned nullptr.
UnknownCommand(sd) == Refuse(sd)

-------------------------------------------------------------------------------
(* Accounts *)

LoginCommand(sd, username, password) ==
    LET ok == /\ username # Empty /\ password # Empty
              /\ ~isAuthenticated(sd)
              /\ authenticateUser(username, password)
    IN \/ ok /\ login(sd, username) /\ OK(sd) /\ UNCHANGED databaseVars
       \/ ~ok /\ Refuse(sd)

\* After the INSERT the new row is found again by its name and password,
\* which succeeds, and its visibility is set from the default.
RegisterCommand(sd, username, password, email, role, visibility) ==
    LET ok == /\ username # Empty /\ password # Empty /\ email # Empty
              /\ role \in UserType /\ visibility \in ProfileVisibility
              /\ uniqueUser(username, email)
    IN \/ /\ ok
          /\ users' = updateProfileVisibility(
                          insertUser(users, username, password, email, role),
                          username, visibility)
          /\ OK(sd)
          /\ UNCHANGED <<sessionVars, friends, posts, messagingVars>>
       \/ ~ok /\ Refuse(sd)

LogoutCommand(sd) ==
    \/ isAuthenticated(sd) /\ logout(sd) /\ OK(sd) /\ UNCHANGED databaseVars
    \/ ~isAuthenticated(sd) /\ Refuse(sd)

SetProfileVisibilityCommand(sd, visibility) ==
    LET ok == /\ isAuthenticated(sd)
              /\ visibility \in ProfileVisibility
              /\ getUserByUsername(getUsername(sd))
    IN \/ /\ ok
          /\ users' = updateProfileVisibility(users, getUsername(sd), visibility)
          /\ OK(sd)
          /\ UNCHANGED <<sessionVars, friends, posts, messagingVars>>
       \/ ~ok /\ Refuse(sd)

-------------------------------------------------------------------------------
(* Friends *)

\* Mutant: requests may go to names nobody registered.
FriendRequestCommand_UnknownTarget(sd, target) ==
    LET user == getUsername(sd)
        ok == /\ isAuthenticated(sd)
              /\ user # target
              /\ target # Empty
              /\ ~areFriends(user, target)
              /\ ~hasRow(user, target)
    IN \/ /\ ok
          /\ sendFriendRequest(user, target)
          /\ OK(sd)
          /\ UNCHANGED <<sessionVars, users, posts, messagingVars>>
       \/ ~ok /\ Refuse(sd)

FriendRequestCommand(sd, target) ==
    LET user == getUsername(sd)
        ok == /\ isAuthenticated(sd)
              /\ user # target
              /\ getUserByUsername(target)
              /\ ~areFriends(user, target)
              /\ ~hasRow(user, target)
    IN \/ /\ ok
          /\ sendFriendRequest(user, target)
          /\ OK(sd)
          /\ UNCHANGED <<sessionVars, users, posts, messagingVars>>
       \/ ~ok /\ Refuse(sd)

AcceptFriendCommand(sd, source) ==
    LET user == getUsername(sd)
        ok == isAuthenticated(sd) /\ pendingRequest(source, user)
    IN \/ /\ ok
          /\ acceptFriendRequest(user, source)
          /\ OK(sd)
          /\ UNCHANGED <<sessionVars, users, posts, messagingVars>>
       \/ ~ok /\ Refuse(sd)

SetFriendTypeCommand(sd, target, type) ==
    LET user == getUsername(sd)
        ok == isAuthenticated(sd) /\ settableType(user, target, type)
    IN \/ /\ ok
          /\ setFriendType(user, target, type)
          /\ OK(sd)
          /\ UNCHANGED <<sessionVars, users, posts, messagingVars>>
       \/ ~ok /\ Refuse(sd)

ListFriendsCommand(sd) == Query(sd, "friends", getFriends(getUsername(sd)))

ListFriendRequestsCommand(sd) ==
    Query(sd, "requests", getFriendRequests(getUsername(sd)))

-------------------------------------------------------------------------------
(* Posts *)

CreatePostCommand(sd, visibility, content) ==
    LET ok == /\ isAuthenticated(sd)
              /\ content # Empty
              /\ postable(visibility)
    IN \/ /\ ok
          /\ Len(posts) < MaxPosts
          /\ createPost(getUsername(sd), content, visibility)
          /\ OK(sd)
          /\ UNCHANGED <<sessionVars, users, friends, messagingVars>>
       \/ ~ok /\ Refuse(sd)

\* The one command a guest may use.
ListPostsCommand(sd) ==
    /\ Reply(sd, "posts", IF isAuthenticated(sd)
                          THEN getVisiblePosts(getUsername(sd))
                          ELSE getPublicPosts)
    /\ UNCHANGED <<sessionVars, databaseVars>>

-------------------------------------------------------------------------------
(* Messaging *)

\* A conversation found by getPrivateConversation is answered with as it is.
ChatCommand(sd, otherUser) ==
    LET user == getUsername(sd)
        ok == /\ isAuthenticated(sd)
              /\ user # otherUser
              /\ getUserByUsername(otherUser)
    IN \/ /\ ok
          /\ IF getPrivateConversation(user, otherUser) # {}
             THEN UNCHANGED <<conversations, participants>>
             ELSE /\ conversations < MaxConversations
                  /\ createConversation(user, otherUser)
          /\ OK(sd)
          /\ UNCHANGED <<sessionVars, users, friends, posts, messages>>
       \/ ~ok /\ Refuse(sd)

ChatsCommand(sd) ==
    Query(sd, "chats", {<<c, getConversationParticipants(c)>> :
                            c \in getUserConversations(getUsername(sd))})

\* Mutant: any conversation that exists may be opened.
OpenCommand_AnyConversation(sd, conversation_id) ==
    LET ok == isAuthenticated(sd) /\ conversation_id \in 1..conversations
    IN \/ ok /\ openConversation(sd, conversation_id) /\ OK(sd)
             /\ UNCHANGED databaseVars
       \/ ~ok /\ Refuse(sd)

OpenCommand(sd, conversation_id) ==
    LET ok == /\ isAuthenticated(sd)
              /\ isParticipant(conversation_id, getUsername(sd))
    IN \/ ok /\ openConversation(sd, conversation_id) /\ OK(sd)
             /\ UNCHANGED databaseVars
       \/ ~ok /\ Refuse(sd)

SendCommand(sd, content) ==
    LET conversation_id == getCurrentConversation(sd)
        ok == /\ content # Empty
              /\ isAuthenticated(sd)
              /\ conversation_id # NoConversation
              /\ isParticipant(conversation_id, getUsername(sd))
    IN \/ /\ ok
          /\ Len(messages) < MaxMessages
          /\ sendMessage(conversation_id, getUsername(sd), content)
          /\ OK(sd)
          /\ UNCHANGED <<sessionVars, users, friends, posts, conversations,
                         participants>>
       \/ ~ok /\ Refuse(sd)

\* Only the session is consulted, not the table of participants.
ShowCommand(sd) ==
    LET conversation_id == getCurrentConversation(sd)
        ok == isAuthenticated(sd) /\ conversation_id # NoConversation
    IN \/ /\ ok
          /\ Reply(sd, "messages", getMessages(conversation_id))
          /\ UNCHANGED <<sessionVars, databaseVars>>
       \/ ~ok /\ Refuse(sd)

\* Mutant: the creator of the group is not among its participants.
GroupCommand_WithoutMe(sd, usernames) ==
    LET ok == /\ isAuthenticated(sd)
              /\ \A i \in DOMAIN usernames : getUserByUsername(usernames[i])
              /\ Len(usernames) >= 2
    IN \/ /\ ok
          /\ conversations < MaxConversations
          /\ createGroupConversation(usernames)
          /\ openConversation(sd, conversations')
          /\ OK(sd)
          /\ UNCHANGED <<users, friends, posts, messages>>
       \/ ~ok /\ Refuse(sd)

\* usernames are the words typed after "group"; the user joins them.
GroupCommand(sd, usernames) ==
    LET allUsers == Append(usernames, getUsername(sd))
        ok == /\ isAuthenticated(sd)
              /\ \A i \in DOMAIN allUsers : getUserByUsername(allUsers[i])
              /\ Len(allUsers) >= 2
    IN \/ /\ ok
          /\ conversations < MaxConversations
          /\ createGroupConversation(allUsers)
          /\ openConversation(sd, conversations')
          /\ OK(sd)
          /\ UNCHANGED <<users, friends, posts, messages>>
       \/ ~ok /\ Refuse(sd)

\* The conversation is the one open on the connection; who opened it is
\* not looked at again.
AddCommand(sd, username) ==
    LET conversation_id == getCurrentConversation(sd)
        ok == /\ isAuthenticated(sd)
              /\ conversation_id # NoConversation
              /\ getUserByUsername(username)
    IN \/ /\ ok
          /\ participants' = addParticipant(participants, conversation_id, username)
          /\ OK(sd)
          /\ UNCHANGED <<sessionVars, users, friends, posts, conversations, messages>>
       \/ ~ok /\ Refuse(sd)

-------------------------------------------------------------------------------
(* One command of the connection sd, with arguments the factory can build. *)

AccountCommand(sd) ==
    \/ /\ "login" \in Commands
       /\ \E u \in Token, p \in Password \cup {Empty} : LoginCommand(sd, u, p)
    \/ /\ "register" \in Commands
       /\ \E u \in Token, p \in Password \cup {Empty}, e \in Email \cup {Empty},
             r \in UserType \cup {Empty}, v \in ProfileVisibility \cup {Empty} :
             RegisterCommand(sd, u, p, e, r, v)
    \/ "logout" \in Commands /\ LogoutCommand(sd)
    \/ /\ "set_visibility" \in Commands
       /\ \E v \in ProfileVisibility \cup {Empty} : SetProfileVisibilityCommand(sd, v)

\* The type is an uninitialized int when the number is missing: any value.
FriendCommand(sd) ==
    \/ "add_friend" \in Commands /\ \E u \in Token : FriendRequestCommand(sd, u)
    \/ "accept_friend" \in Commands /\ \E u \in Token : AcceptFriendCommand(sd, u)
    \/ /\ "set_friend_type" \in Commands
       /\ \E u \in Token, t \in -1..3 : SetFriendTypeCommand(sd, u, t)
    \/ "list_friends" \in Commands /\ ListFriendsCommand(sd)
    \/ "list_friend_requests" \in Commands /\ ListFriendRequestsCommand(sd)

PostCommand(sd) ==
    \/ /\ "create_post" \in Commands
       /\ \E v \in -1..3, c \in Content \cup {Empty} : CreatePostCommand(sd, v, c)
    \/ "list_posts" \in Commands /\ ListPostsCommand(sd)

MessagingCommand(sd) ==
    \/ "chat" \in Commands /\ \E u \in Name : ChatCommand(sd, u)
    \/ "chats" \in Commands /\ ChatsCommand(sd)
    \/ /\ "open" \in Commands
       /\ \E c \in -1..MaxConversations : OpenCommand(sd, c)
    \/ "send" \in Commands /\ \E c \in Content : SendCommand(sd, c)
    \/ "show" \in Commands /\ ShowCommand(sd)
    \/ /\ "group" \in Commands
       /\ \E us \in UNION {[1..n -> Name] : n \in 1..MaxGroup} : GroupCommand(sd, us)
    \/ "add" \in Commands /\ \E u \in Name : AddCommand(sd, u)

\* The body of the loop over client_socket, for one readable descriptor.
Serve(sd) ==
    /\ sd \in client_socket
    /\ \/ UnknownCommand(sd)
       \/ AccountCommand(sd)
       \/ FriendCommand(sd)
       \/ PostCommand(sd)
       \/ MessagingCommand(sd)
    /\ UNCHANGED serverVars

Next ==
    \/ \E sd \in Sd : Accept(sd) \/ Disconnect(sd) \/ Serve(sd)
    \/ "restart" \in Commands /\ Restart

Spec == Init /\ [][Next]_vars

===============================================================================
