------------------------------- MODULE Database -------------------------------
(***************************************************************************)
(* The SQLite tables and the functions of server/Database.cpp over them.   *)
(* A table with a primary key is a function from keys to rows, so that the *)
(* key's uniqueness constraint is "key \notin DOMAIN table"; a table with  *)
(* an AUTOINCREMENT key is a sequence, or a counter when it has no other   *)
(* column.  The foreign keys of the schema are not modelled, because       *)
(* SQLite does not enforce them unless PRAGMA foreign_keys is on, and the  *)
(* server never turns it on.                                               *)
(*                                                                         *)
(* Operators that take a table are single SQL statements; operators over   *)
(* the variables are the member functions of class Database: the test that *)
(* makes one return false (areFriends, pendingRequest, settableType,       *)
(* postable, isParticipant, ...) is an operator, which the commands use as *)
(* guard, and what it writes when it succeeds is another.  Timestamps and  *)
(* the ORDER BY clauses that use them are left out: a query returns the    *)
(* set of its rows.                                                        *)
(***************************************************************************)
EXTENDS Domains, Integers, Sequences, FiniteSets

CONSTANTS
    Password, Digest,
    HashOf,         \* std::hash as a function; nothing makes it injective
    Email,
    Content,        \* the texts of posts and messages
    InitialUsers    \* the accounts in the database file at the first start

VARIABLES
    users,          \* username -> account row
    friends,        \* <<user_username, friend_username>> -> friendship row
    posts,          \* the posts in the order of post_id
    conversations,  \* number of conversations; their ids are 1..conversations
    participants,   \* set of <<conversation_id, username>>
    messages        \* the messages in the order of message_id

messagingVars == <<conversations, participants, messages>>

databaseVars == <<users, friends, posts, messagingVars>>

UserType == {"normal", "admin"}
ProfileVisibility == {"public", "private"}

Pending == 0        \* values of friends.status
Accepted == 1

Normal == 0         \* values of friends.friend_type
Close == 1
FriendTypes == 0..2

Public == 0         \* values of posts.visibility
FriendsOnly == 1
CloseFriends == 2
PostVisibility == 0..2

UserRow == [password: Digest, email: Email, user_type: UserType,
            profile_visibility: ProfileVisibility]
FriendRow == [friend_type: FriendTypes, status: {Pending, Accepted}]
Post == [author: Name, content: Content, visibility: PostVisibility]
Message == [conversation_id: Nat, sender: Name, content: Content]

ASSUME HashAssumption == HashOf \in [Password -> Digest]

ASSUME StringAssumption ==
    Empty \notin Password /\ Empty \notin Email /\ Empty \notin Content

ASSUME InitialUsersAssumption ==
    /\ DOMAIN InitialUsers \subseteq Name
    /\ InitialUsers \in [DOMAIN InitialUsers -> UserRow]

DatabaseTypeOK ==
    /\ DOMAIN users \subseteq Name
    /\ users \in [DOMAIN users -> UserRow]
    /\ DOMAIN friends \subseteq Name \X Name
    /\ friends \in [DOMAIN friends -> FriendRow]
    /\ posts \in Seq(Post)
    /\ conversations \in Nat
    /\ participants \subseteq Nat \X Name
    /\ messages \in Seq(Message)

DatabaseInit ==
    /\ users = InitialUsers
    /\ friends = [pair \in {} |-> Pending]
    /\ posts = <<>>
    /\ conversations = 0
    /\ participants = {}
    /\ messages = <<>>

-------------------------------------------------------------------------------
(* Single SQL statements, on the table given. *)

Insert(table, key, row) ==
    [k \in DOMAIN table \cup {key} |-> IF k = key THEN row ELSE table[k]]

Hashpassword(password) == HashOf[password]

\* The column default makes every new profile public.
insertUser(table, username, password, email, user_type) ==
    Insert(table, username,
           [password |-> Hashpassword(password), email |-> email,
            user_type |-> user_type, profile_visibility |-> "public"])

updateProfileVisibility(table, username, visibility) ==
    [table EXCEPT ![username].profile_visibility = visibility]

insertRequest(table, from, to) ==
    Insert(table, <<from, to>>, [friend_type |-> Normal, status |-> Pending])

updateStatus(table, from, to) ==
    [table EXCEPT ![<<from, to>>].status = Accepted]

\* The result of the INSERT is not looked at: when the row exists already
\* the statement fails on the primary key and the table stays as it is.
insertReverse(table, to, from) ==
    IF <<to, from>> \in DOMAIN table
    THEN table
    ELSE Insert(table, <<to, from>>, [friend_type |-> Normal, status |-> Accepted])

\* Mutant: the names are bound in the wrong order.
updateFriendType_Swapped(table, user, friendUser, type) ==
    [table EXCEPT ![<<friendUser, user>>].friend_type = type]

updateFriendType(table, user, friendUser, type) ==
    [table EXCEPT ![<<user, friendUser>>].friend_type = type]

-------------------------------------------------------------------------------
(* Accounts *)

getUserByUsername(username) == username \in DOMAIN users

\* Mutant: the UNIQUE constraint on username is forgotten.
uniqueUser_EmailOnly(username, email) ==
    \A u \in DOMAIN users : users[u].email # email

\* UNIQUE username and UNIQUE email: what the INSERT of registerUser needs.
uniqueUser(username, email) ==
    /\ username \notin DOMAIN users
    /\ \A u \in DOMAIN users : users[u].email # email

authenticateUser(username, password) ==
    /\ username \in DOMAIN users
    /\ users[username].password = Hashpassword(password)

-------------------------------------------------------------------------------
(* Friendships: the row <<a, b>> is a's side of the relation with b. *)

hasRow(a, b) == <<a, b>> \in DOMAIN friends

areFriends(a, b) == hasRow(a, b) /\ friends[<<a, b>>].status = Accepted

pendingRequest(from, to) ==
    hasRow(from, to) /\ friends[<<from, to>>].status = Pending

sendFriendRequest(from, to) == friends' = insertRequest(friends, from, to)

\* Mutant: the requester's row is accepted, the other side is not written.
acceptFriendRequest_NoReverse(to, from) ==
    friends' = updateStatus(friends, from, to)

acceptFriendRequest(to, from) ==
    friends' = insertReverse(updateStatus(friends, from, to), to, from)

settableType(user, friendUser, type) ==
    type \in FriendTypes /\ areFriends(user, friendUser)

setFriendType(user, friendUser, type) ==
    friends' = updateFriendType(friends, user, friendUser, type)

getFriends(username) == {f \in Name : areFriends(username, f)}

getFriendRequests(username) == {f \in Name : pendingRequest(f, username)}

-------------------------------------------------------------------------------
(* Posts *)

\* Mutant: the upper bound is off by one.
postable_OffByOne(visibility) == visibility \in 0..3

postable(visibility) == visibility \in PostVisibility

createPost(author, content, visibility) ==
    posts' = Append(posts, [author |-> author, content |-> content,
                            visibility |-> visibility])

isCloseFriend(author, viewer) ==
    areFriends(author, viewer) /\ friends[<<author, viewer>>].friend_type = Close

\* Mutant: the relation is looked up on the reader's side.
getVisiblePosts_ReaderSide(username) ==
    {i \in DOMAIN posts :
        LET p == posts[i] IN
        \/ p.author = username
        \/ p.visibility = Public
        \/ p.visibility = FriendsOnly /\ areFriends(username, p.author)
        \/ p.visibility = CloseFriends /\ isCloseFriend(username, p.author)}

\* The relation is always looked up on the author's side.
getVisiblePosts(username) ==
    {i \in DOMAIN posts :
        LET p == posts[i] IN
        \/ p.author = username
        \/ p.visibility = Public
        \/ p.visibility = FriendsOnly /\ areFriends(p.author, username)
        \/ p.visibility = CloseFriends /\ isCloseFriend(p.author, username)}

getPublicPosts == {i \in DOMAIN posts : posts[i].visibility = Public}

-------------------------------------------------------------------------------
(* Messaging *)

isParticipant(conversation_id, username) ==
    <<conversation_id, username>> \in participants

addParticipant(table, conversation_id, username) ==
    table \cup {<<conversation_id, username>>}

sendMessage(conversation_id, sender, content) ==
    messages' = Append(messages, [conversation_id |-> conversation_id,
                                  sender |-> sender, content |-> content])

getMessages(conversation_id) ==
    {m \in DOMAIN messages : messages[m].conversation_id = conversation_id}

getConversationParticipants(conversation_id) ==
    {u \in Name : isParticipant(conversation_id, u)}

getUserConversations(username) ==
    {c \in 1..conversations : isParticipant(c, username)}

\* The self-join of the query, grouped by conversation: a conversation
\* qualifies when exactly two joined rows name user1 and user2.
getPrivateConversation(user1, user2) ==
    {c \in 1..conversations :
        Cardinality({rows \in participants \X participants :
                        /\ rows[1] = <<c, user1>>
                        /\ rows[2] = <<c, user2>>}) = 2}

createConversation(user1, user2) ==
    LET conversation_id == conversations + 1 IN
    /\ conversations' = conversation_id
    /\ participants' = addParticipant(
                           addParticipant(participants, conversation_id, user1),
                           conversation_id, user2)

\* usernames is the argument vector; a repeated name is inserted once.
createGroupConversation(usernames) ==
    LET conversation_id == conversations + 1 IN
    /\ conversations' = conversation_id
    /\ participants' = participants \cup
                       {<<conversation_id, usernames[i]>> : i \in DOMAIN usernames}

===============================================================================
