------------------------ MODULE SocialRefinementProofs ------------------------
(***************************************************************************)
(* Theorems about the steps of SocialServer: what its replies disclose,    *)
(* who changes what, and the abstract specifications it implements.  Each  *)
(* rests on the inductive invariant of SocialServerProofs.                 *)
(***************************************************************************)
EXTENDS SocialServerProofs, FiniteSetTheorems

-------------------------------------------------------------------------------
(* The lookup of a private chat *)

\* getPrivateConversation finds nothing, whatever is in the database: the
\* join has at most one row for a conversation and the query wants two.
\* The branch of ChatCommand that answers "Chat already exists" is dead.
THEOREM PrivateConversationNeverFound ==
    ASSUME NEW user1, NEW user2
    PROVE  getPrivateConversation(user1, user2) = {}
<1> SUFFICES ASSUME NEW c \in 1..conversations,
                    Cardinality({rows \in participants \X participants :
                                    /\ rows[1] = <<c, user1>>
                                    /\ rows[2] = <<c, user2>>}) = 2
             PROVE  FALSE
    BY DEF getPrivateConversation
<1> DEFINE joined == <<<<c, user1>>, <<c, user2>>>>
           found == {rows \in participants \X participants :
                        rows[1] = <<c, user1>> /\ rows[2] = <<c, user2>>}
<1>1. found \subseteq {joined}
    OBVIOUS
<1> HIDE DEF found, joined
<1>2. found = {} \/ found = {joined}
    BY <1>1
<1>3. Cardinality(found) = 0 \/ Cardinality(found) = 1
    BY <1>2, FS_EmptySet, FS_Singleton
<1> QED
    BY <1>3 DEF found

-------------------------------------------------------------------------------
(* What the replies disclose *)

\* Every command answers the connection it came from, and only "show" and
\* "list_posts" disclose messages and posts.
LEMMA ServeReplies ==
    ASSUME NEW sd \in Sd, Serve(sd)
    PROVE  /\ response'.sd = sd
           /\ response'.kind = "messages" => ShowCommand(sd)
           /\ response'.kind = "posts" => ListPostsCommand(sd)
<1> USE DEF Reply, OK, Refuse, Query
<1>1. CASE UnknownCommand(sd)
    BY <1>1 DEF UnknownCommand
<1>2. CASE AccountCommand(sd)
    BY <1>2 DEF AccountCommand, LoginCommand, RegisterCommand, LogoutCommand,
                SetProfileVisibilityCommand
<1>3. CASE FriendCommand(sd)
    BY <1>3 DEF FriendCommand, FriendRequestCommand, AcceptFriendCommand,
                SetFriendTypeCommand, ListFriendsCommand, ListFriendRequestsCommand
<1>4. CASE PostCommand(sd)
    <2>1. CASE ListPostsCommand(sd)
        BY <2>1 DEF ListPostsCommand
    <2>2. ASSUME NEW v, NEW c, CreatePostCommand(sd, v, c)
          PROVE  response'.sd = sd /\ response'.kind \in {"OK", "ERROR"}
        BY <2>2 DEF CreatePostCommand
    <2> QED
        BY <1>4, <2>1, <2>2 DEF PostCommand
<1>5. CASE MessagingCommand(sd)
    <2>1. CASE ShowCommand(sd)
        BY <2>1 DEF ShowCommand
    <2>2. ASSUME ChatsCommand(sd)
          PROVE  response'.sd = sd /\ response'.kind \in {"chats", "ERROR"}
        BY <2>2 DEF ChatsCommand
    <2>3. ASSUME \/ \E u \in Name : ChatCommand(sd, u) \/ AddCommand(sd, u)
                 \/ \E c \in -1..MaxConversations : OpenCommand(sd, c)
                 \/ \E c \in Content : SendCommand(sd, c)
                 \/ \E us : GroupCommand(sd, us)
          PROVE  response'.sd = sd /\ response'.kind \in {"OK", "ERROR"}
        BY <2>3 DEF ChatCommand, AddCommand, OpenCommand, SendCommand, GroupCommand
    <2> QED
        BY <1>5, <2>1, <2>2, <2>3 DEF MessagingCommand
<1> QED
    BY <1>1, <1>2, <1>3, <1>4, <1>5 DEF Serve

\* Outside a command nothing is disclosed.
LEMMA OtherStepsReplyNothing ==
    ASSUME Next, \A sd \in Sd : ~Serve(sd)
    PROVE  response' = NoResponse
BY DEF Next, Accept, Disconnect, Restart, StartsFresh

\* "show" discloses messages only to participants of their conversation.
THEOREM ShowIsForParticipants == Spec => []ShownToParticipants
<1>1. Init => ShownToParticipants
    BY DEF Init, NoResponse, ShownToParticipants
<1>2. IInv /\ ShownToParticipants /\ [Next]_vars => ShownToParticipants'
    <2> SUFFICES ASSUME IInv, ShownToParticipants, [Next]_vars,
                        response'.kind = "messages"
                 PROVE  \A m \in response'.rows :
                           isParticipant(messages[m].conversation_id,
                                         sessions[response.sd])'
        BY DEF ShownToParticipants
    <2>1. CASE UNCHANGED vars
        BY <2>1 DEF ShownToParticipants, isParticipant, vars, sessionVars,
                    databaseVars, messagingVars
    <2>2. ASSUME NEW sd \in Sd, Serve(sd)
          PROVE  \A m \in response'.rows :
                    isParticipant(messages[m].conversation_id,
                                  sessions[response.sd])'
        <3>1. ShowCommand(sd)
            BY <2>2, ServeReplies
        <3>2. /\ currentConversation[sd] # NoConversation
              /\ response'.sd = sd
              /\ response'.rows = getMessages(currentConversation[sd])
              /\ UNCHANGED <<sessionVars, databaseVars>>
            BY <3>1 DEF ShowCommand, Refuse, Reply, getCurrentConversation
        <3>3. isParticipant(currentConversation[sd], sessions[sd])
            BY <3>2 DEF IInv, OpenConversationIsOwn
        <3> QED
            BY <3>2, <3>3 DEF getMessages, isParticipant, sessionVars, databaseVars,
                              messagingVars
    <2>3. CASE Next /\ \A sd \in Sd : ~Serve(sd)
        BY <2>3, OtherStepsReplyNothing DEF NoResponse
    <2> QED
        BY <2>1, <2>2, <2>3
<1> QED
    BY <1>1, <1>2, Invariance, PTL DEF Spec

\* "list_posts" discloses to its reader public posts, their own, and those
\* that a friendship agreed on both sides opens to them.
THEOREM PostsAreListedToTheAllowed == Spec => []ListedPostsAreAllowed
<1>1. Init => ListedPostsAreAllowed
    BY DEF Init, NoResponse, ListedPostsAreAllowed
<1>2. IInv /\ ListedPostsAreAllowed /\ [Next]_vars => ListedPostsAreAllowed'
    <2> SUFFICES ASSUME IInv, ListedPostsAreAllowed, [Next]_vars
                 PROVE  ListedPostsAreAllowed'
        OBVIOUS
    <2>1. CASE UNCHANGED vars
        BY <2>1 DEF ListedPostsAreAllowed, areFriends, hasRow, vars, sessionVars,
                    databaseVars
    <2>2. ASSUME NEW sd \in Sd, Serve(sd), response'.kind = "posts"
          PROVE  ListedPostsAreAllowed'
        <3>1. ListPostsCommand(sd)
            BY <2>2, ServeReplies
        <3>2. /\ response'.sd = sd
              /\ response'.rows = IF isAuthenticated(sd)
                                  THEN getVisiblePosts(sessions[sd])
                                  ELSE getPublicPosts
              /\ UNCHANGED <<sessions, friends, posts>>
            BY <3>1 DEF ListPostsCommand, Reply, getUsername, sessionVars, databaseVars
        <3>3. \A a, b : areFriends(a, b) => hasRow(b, a)
            BY DEF IInv, AcceptedIsAnswered, areFriends, hasRow
        <3>4. ASSUME NEW i \in response'.rows
              PROVE  \/ posts[i].visibility = Public
                     \/ posts[i].author = sessions[sd]
                     \/ /\ areFriends(posts[i].author, sessions[sd])
                        /\ hasRow(sessions[sd], posts[i].author)
                        /\ posts[i].visibility = CloseFriends =>
                              friends[<<posts[i].author, sessions[sd]>>].friend_type
                                  = Close
            BY <3>2, <3>3 DEF getVisiblePosts, getPublicPosts, isCloseFriend, Public,
                              FriendsOnly, CloseFriends
        <3> QED
            BY <3>2, <3>4 DEF ListedPostsAreAllowed, areFriends, hasRow
    <2>3. CASE Next /\ \A sd \in Sd : ~Serve(sd)
        BY <2>3, OtherStepsReplyNothing DEF NoResponse, ListedPostsAreAllowed
    <2>4. CASE response'.kind # "posts"
        BY <2>4 DEF ListedPostsAreAllowed
    <2> QED
        BY <2>1, <2>2, <2>3, <2>4
<1> QED
    BY <1>1, <1>2, Invariance, PTL DEF Spec

-------------------------------------------------------------------------------
(* Accounts *)

\* The accounts change by "register" and "set_visibility" only.
LEMMA ServeUsers ==
    ASSUME NEW sd \in Sd, Serve(sd)
    PROVE  \/ users' = users
           \/ \E u \in Token, p \in Password \cup {Empty}, e \in Email \cup {Empty} :
                \E r, v : RegisterCommand(sd, u, p, e, r, v)
           \/ \E v : SetProfileVisibilityCommand(sd, v)
<1> USE DEF Refuse, Query, sessionVars, databaseVars, messagingVars
<1>1. CASE UnknownCommand(sd)
    BY <1>1 DEF UnknownCommand
<1>2. CASE AccountCommand(sd)
    BY <1>2 DEF AccountCommand, LoginCommand, LogoutCommand
<1>3. CASE FriendCommand(sd)
    BY <1>3 DEF FriendCommand, FriendRequestCommand, AcceptFriendCommand,
                SetFriendTypeCommand, ListFriendsCommand, ListFriendRequestsCommand
<1>4. CASE PostCommand(sd)
    BY <1>4 DEF PostCommand, CreatePostCommand, ListPostsCommand
<1>5. CASE MessagingCommand(sd)
    BY <1>5 DEF MessagingCommand, ChatCommand, ChatsCommand, OpenCommand, SendCommand,
                ShowCommand, GroupCommand, AddCommand
<1> QED
    BY <1>1, <1>2, <1>3, <1>4, <1>5 DEF Serve

\* What a step leaves of the account u, as AccountsChangeByTheirOwner has it.
OwnerKeeps(u) ==
    /\ u \in registered'
    /\ users'[u] # users[u] =>
          /\ \E sd \in Sd : response'.sd = sd /\ sessions[sd] = u
          /\ \E v \in ProfileVisibility :
                users'[u] = [users[u] EXCEPT !.profile_visibility = v]

\* Whatever the other tables hold.
LEMMA OwnersKept ==
    ASSUME users \in [registered -> UserRow], [Next]_vars, NEW u \in registered
    PROVE  OwnerKeeps(u)
<1> USE DEF OwnerKeeps
<1>1. CASE users' = users
    BY <1>1 DEF registered
<1>2. ASSUME NEW sd \in Sd, Serve(sd),
             NEW n, NEW p, NEW e, NEW r, NEW v, RegisterCommand(sd, n, p, e, r, v)
      PROVE  OwnerKeeps(u)
    <2>1. CASE users' = users
        BY <2>1, <1>1
    <2>2. CASE /\ n \notin registered
               /\ users' = updateProfileVisibility(insertUser(users, n, p, e, r),
                                                   n, v)
        <3>1. u # n
            BY <2>2
        <3>2. u \in DOMAIN users' /\ users'[u] = users[u]
            BY <2>2, <3>1 DEF updateProfileVisibility, insertUser, Insert, registered
        <3> QED
            BY <3>2 DEF registered
    <2> QED
        BY <1>2, <2>1, <2>2 DEF RegisterCommand, Refuse, databaseVars, uniqueUser,
                                registered
<1>3. ASSUME NEW sd \in Sd, Serve(sd), NEW v, SetProfileVisibilityCommand(sd, v)
      PROVE  OwnerKeeps(u)
    <2>1. CASE users' = users
        BY <2>1, <1>1
    <2>2. CASE /\ v \in ProfileVisibility
               /\ users' = updateProfileVisibility(users, sessions[sd], v)
        <3>1. response'.sd = sd
            BY <1>3, ServeReplies
        <3>2. DOMAIN users' = DOMAIN users
            BY <2>2 DEF updateProfileVisibility
        <3>3. CASE u # sessions[sd]
            BY <2>2, <3>2, <3>3 DEF updateProfileVisibility, registered
        <3>4. CASE u = sessions[sd]
            <4>1. users'[u] = [users[u] EXCEPT !.profile_visibility = v]
                BY <2>2, <3>4 DEF updateProfileVisibility, registered
            <4> QED
                BY <2>2, <3>1, <3>2, <3>4, <4>1 DEF registered
        <3> QED
            BY <3>3, <3>4
    <2> QED
        BY <1>3, <2>1, <2>2 DEF SetProfileVisibilityCommand, Refuse, databaseVars,
                                getUsername
<1>4. ASSUME NEW sd \in Sd, Serve(sd) PROVE OwnerKeeps(u)
    BY <1>1, <1>2, <1>3, <1>4, ServeUsers
<1>5. CASE Next /\ \A sd \in Sd : ~Serve(sd)
    BY <1>1, <1>5 DEF Next, Accept, Disconnect, Restart, StartsFresh, databaseVars
<1>6. CASE UNCHANGED vars
    BY <1>1, <1>6 DEF vars, databaseVars
<1> QED
    BY <1>4, <1>5, <1>6

\* An account is changed by its owner only, and only its visibility.
THEOREM AccountsAreTheirOwners == Spec => AccountsChangeByTheirOwner
<1>1. IInv => users \in [registered -> UserRow]
    BY DEF IInv, TypeOK, DatabaseTypeOK, registered
<1>2. IInv /\ [Next]_vars => \A u \in registered : OwnerKeeps(u)
    BY <1>1, OwnersKept
<1> QED
    BY <1>2, Invariance, PTL DEF Spec, AccountsChangeByTheirOwner, OwnerKeeps

-------------------------------------------------------------------------------
(* SocialServer implements ConversationAccess *)

\* A command that leaves the sessions and the messaging tables alone.
LEMMA AccessStutter ==
    ASSUME UNCHANGED <<sessions, messagingVars>>
    PROVE  [Access!AccessNext]_Access!accessVars
BY DEF Access!accessVars, messagingVars

\* Logging in and out, on one connection or on all.
LEMMA AccessSignIn ==
    ASSUME NEW sd \in Sd, NEW u \in Name, sessions[sd] = Empty,
           sessions' = [sessions EXCEPT ![sd] = u], UNCHANGED messagingVars
    PROVE  Access!AccessNext
BY DEF Access!AccessNext, Access!SignIn, messagingVars

LEMMA AccessSignOut ==
    ASSUME NEW gone \in SUBSET Sd,
           sessions' = [sd \in Sd |-> IF sd \in gone THEN Empty ELSE sessions[sd]],
           UNCHANGED messagingVars
    PROVE  Access!AccessNext
BY DEF Access!AccessNext, Access!SignOut, messagingVars

LEMMA AccessLogout ==
    ASSUME IInv, NEW sd \in Sd, logout(sd), UNCHANGED messagingVars
    PROVE  Access!AccessNext
<1>1. sessions' = [d \in Sd |-> IF d \in {sd} THEN Empty ELSE sessions[d]]
    BY DEF IInv, TypeOK, SessionTypeOK, logout
<1> QED
    BY <1>1, AccessSignOut

\* What each messaging command is in ConversationAccess.
LEMMA MessagingAccess ==
    ASSUME IInv, NEW sd \in Sd, MessagingCommand(sd)
    PROVE  [Access!AccessNext]_Access!accessVars
<1> USE DEF sessionVars, databaseVars, messagingVars
<1>1. CASE UNCHANGED <<sessions, messagingVars>>
    BY <1>1, AccessStutter
<1>2. ASSUME NEW u \in Name, ChatCommand(sd, u)
      PROVE  [Access!AccessNext]_Access!accessVars
    <2>1. CASE isAuthenticated(sd) /\ createConversation(sessions[sd], u)
               /\ UNCHANGED <<sessions, messages>>
        <3>1. Access!Create(sd, {u})
            BY <2>1 DEF Access!Create, createConversation, addParticipant,
                        isAuthenticated
        <3> QED
            BY <3>1 DEF Access!AccessNext
    <2> QED
        BY <1>1, <1>2, <2>1 DEF ChatCommand, Refuse, getUsername
<1>3. ASSUME NEW n \in Nat \ {0}, NEW us \in [1..n -> Name], GroupCommand(sd, us)
      PROVE  [Access!AccessNext]_Access!accessVars
    <2> DEFINE all == Append(us, sessions[sd])
               others == {us[i] : i \in 1..n}
    <2>1. CASE isAuthenticated(sd) /\ createGroupConversation(all)
               /\ UNCHANGED <<sessions, messages>>
        <3>1. us \in Seq(Name) /\ Len(us) = n
            OBVIOUS
        <3>2. {all[i] : i \in DOMAIN all} = others \cup {sessions[sd]}
            <4>1. sessions[sd] \in Name
                BY <2>1 DEF IInv, TypeOK, SessionTypeOK, isAuthenticated
            <4>2. /\ DOMAIN all = 1..(n + 1) /\ all[n + 1] = sessions[sd]
                  /\ \A i \in 1..n : all[i] = us[i]
                BY <3>1, <4>1
            <4> HIDE DEF all
            <4>3. \A i \in 1..(n + 1) : i \in 1..n \/ i = n + 1
                OBVIOUS
            <4> QED
                BY <4>2, <4>3
        <3>3. Access!Create(sd, others)
            <4> HIDE DEF all, others
            <4>1. participants' = participants \cup
                                {<<conversations + 1, u>> : u \in {all[i] : i \in DOMAIN all}}
                BY <2>1 DEF createGroupConversation
            <4> QED
                BY <2>1, <3>2, <4>1 DEF Access!Create, createGroupConversation,
                                        isAuthenticated
        <3>4. others \in SUBSET Name
            OBVIOUS
        <3> QED
            BY <3>3, <3>4 DEF Access!AccessNext
    <2> QED
        BY <1>1, <1>3, <2>1 DEF GroupCommand, Refuse, getUsername, openConversation
<1>4. ASSUME NEW u \in Name, AddCommand(sd, u)
      PROVE  [Access!AccessNext]_Access!accessVars
    <2> DEFINE c == currentConversation[sd]
    <2>1. CASE /\ c # NoConversation
               /\ participants' = addParticipant(participants, c, u)
               /\ UNCHANGED <<sessions, conversations, messages>>
        <3>1. c \in 1..conversations /\ <<c, sessions[sd]>> \in participants
            BY <2>1 DEF IInv, OpenConversationIsOwn, ReferentialIntegrity, isParticipant
        <3>2. Access!Invite(sd, c, u)
            BY <2>1, <3>1 DEF Access!Invite, addParticipant
        <3> QED
            BY <3>1, <3>2 DEF Access!AccessNext
    <2> QED
        BY <1>1, <1>4, <2>1 DEF AddCommand, Refuse, getCurrentConversation
<1>5. ASSUME NEW text \in Content, SendCommand(sd, text)
      PROVE  [Access!AccessNext]_Access!accessVars
    <2> DEFINE c == currentConversation[sd]
    <2>1. CASE /\ isParticipant(c, sessions[sd])
               /\ sendMessage(c, sessions[sd], text)
               /\ UNCHANGED <<sessions, conversations, participants>>
        <3>1. c \in 1..conversations
            BY <2>1 DEF IInv, ReferentialIntegrity, isParticipant
        <3>2. Access!Write(sd, c, text)
            BY <2>1 DEF Access!Write, sendMessage, isParticipant
        <3> QED
            BY <3>1, <3>2 DEF Access!AccessNext
    <2> QED
        BY <1>1, <1>5, <2>1 DEF SendCommand, Refuse, getCurrentConversation, getUsername
<1>6. CASE ChatsCommand(sd) \/ ShowCommand(sd)
           \/ \E c \in -1..MaxConversations : OpenCommand(sd, c)
    BY <1>1, <1>6 DEF ChatsCommand, Query, ShowCommand, OpenCommand, openConversation,
                      Refuse
<1>7. ASSUME NEW us \in UNION {[1..n -> Name] : n \in 1..MaxGroup}, GroupCommand(sd, us)
      PROVE  [Access!AccessNext]_Access!accessVars
    <2>1. PICK n \in 1..MaxGroup : us \in [1..n -> Name]
        OBVIOUS
    <2>2. n \in Nat \ {0}
        BY ServerAssumption
    <2> QED
        BY <1>3, <1>7, <2>1, <2>2
<1> QED
    BY <1>2, <1>4, <1>5, <1>6, <1>7 DEF MessagingCommand

LEMMA ServeAccess ==
    ASSUME IInv, NEW sd \in Sd, Serve(sd)
    PROVE  [Access!AccessNext]_Access!accessVars
<1> USE DEF sessionVars, databaseVars, Refuse, Query
<1>1. CASE UNCHANGED <<sessions, messagingVars>>
    BY <1>1, AccessStutter
<1>2. CASE UnknownCommand(sd)
    BY <1>1, <1>2 DEF UnknownCommand
<1>3. CASE AccountCommand(sd)
    <2>1. ASSUME NEW u \in Token, NEW p, LoginCommand(sd, u, p)
          PROVE  [Access!AccessNext]_Access!accessVars
        BY <1>1, <2>1, AccessSignIn DEF LoginCommand, login, isAuthenticated, Token
    <2>2. CASE LogoutCommand(sd)
        BY <1>1, <2>2, AccessLogout DEF LogoutCommand
    <2> QED
        BY <1>1, <1>3, <2>1, <2>2
        DEF AccountCommand, RegisterCommand, SetProfileVisibilityCommand
<1>4. CASE FriendCommand(sd)
    BY <1>1, <1>4 DEF FriendCommand, FriendRequestCommand, AcceptFriendCommand,
                      SetFriendTypeCommand, ListFriendsCommand,
                      ListFriendRequestsCommand
<1>5. CASE PostCommand(sd)
    BY <1>1, <1>5 DEF PostCommand, CreatePostCommand, ListPostsCommand
<1>6. CASE MessagingCommand(sd)
    BY <1>6, MessagingAccess
<1> QED
    BY <1>2, <1>3, <1>4, <1>5, <1>6 DEF Serve

\* The server implements ConversationAccess: nobody writes in a conversation,
\* or brings somebody into it, without being a member of it at that moment.
THEOREM ImplementsConversationAccess == Spec => AccessSpec
<1>1. Init => Access!AccessInit
    BY DEF Init, SessionInit, DatabaseInit, Access!AccessInit
<1>2. IInv /\ [Next]_vars => [Access!AccessNext]_Access!accessVars
    <2> SUFFICES ASSUME IInv, [Next]_vars
                 PROVE  [Access!AccessNext]_Access!accessVars
        OBVIOUS
    <2>1. ASSUME NEW sd \in Sd, Accept(sd) PROVE UNCHANGED <<sessions, messagingVars>>
        BY <2>1 DEF Accept, sessionVars, databaseVars
    <2>2. ASSUME NEW sd \in Sd, Disconnect(sd) PROVE Access!AccessNext
        BY <2>2, AccessLogout DEF Disconnect, databaseVars
    <2>3. CASE Restart
        <3>1. sessions' = [sd \in Sd |-> IF sd \in Sd THEN Empty ELSE sessions[sd]]
            BY <2>3 DEF Restart, StartsFresh
        <3> QED
            BY <2>3, <3>1, AccessSignOut DEF Restart, StartsFresh, databaseVars
    <2>4. CASE UNCHANGED vars
        BY <2>4, AccessStutter DEF vars, sessionVars, databaseVars
    <2> QED
        BY <2>1, <2>2, <2>3, <2>4, AccessStutter, ServeAccess DEF Next
<1> QED
    BY <1>1, <1>2, Invariance, PTL DEF Spec, AccessSpec, Access!AccessSpec

-------------------------------------------------------------------------------
(* SocialServer implements MutualConsent *)

\* The values the refinement mapping of SocialProperties gives to granted
\* and close.
acceptedPairs == {pair \in DOMAIN friends : friends[pair].status = Accepted}

closePairs == {pair \in DOMAIN friends :
                  friends[pair].status = Accepted /\ friends[pair].friend_type = Close}

LEMMA ConsentStutter ==
    ASSUME UNCHANGED <<sessions, friends>>
    PROVE  [Consent!ConsentNext]_Consent!consentVars
BY DEF Consent!consentVars

LEMMA ConsentSignIn ==
    ASSUME NEW sd \in Sd, NEW u \in Name, sessions[sd] = Empty,
           sessions' = [sessions EXCEPT ![sd] = u], UNCHANGED friends
    PROVE  Consent!ConsentNext
BY DEF Consent!ConsentNext, Consent!SignIn

LEMMA ConsentSignOut ==
    ASSUME NEW gone \in SUBSET Sd,
           sessions' = [sd \in Sd |-> IF sd \in gone THEN Empty ELSE sessions[sd]],
           UNCHANGED friends
    PROVE  Consent!ConsentNext
BY DEF Consent!ConsentNext, Consent!SignOut

LEMMA ConsentLogout ==
    ASSUME IInv, NEW sd \in Sd, logout(sd), UNCHANGED friends
    PROVE  Consent!ConsentNext
<1>1. sessions' = [d \in Sd |-> IF d \in {sd} THEN Empty ELSE sessions[d]]
    BY DEF IInv, TypeOK, SessionTypeOK, logout
<1> QED
    BY <1>1, ConsentSignOut

\* A new request is consent that grants nothing yet.
LEMMA FriendRequestConsent ==
    ASSUME IInv, NEW sd \in Sd, NEW target \in Name, UNCHANGED sessions,
           isAuthenticated(sd), sessions[sd] # target,
           ~hasRow(sessions[sd], target), sendFriendRequest(sessions[sd], target)
    PROVE  Consent!Agree(sd, target)
<1> DEFINE pair == <<sessions[sd], target>>
           row == [friend_type |-> Normal, status |-> Pending]
<1>1. /\ pair \notin DOMAIN friends
      /\ friends' = [k \in DOMAIN friends \cup {pair} |->
                        IF k = pair THEN row ELSE friends[k]]
    BY DEF hasRow, sendFriendRequest, insertRequest, Insert
<1> HIDE DEF pair
<1>2. /\ DOMAIN friends' = DOMAIN friends \cup {pair}
      /\ friends'[pair].status = Pending
      /\ \A k \in DOMAIN friends : friends'[k] = friends[k]
    BY <1>1
<1>3. acceptedPairs' = acceptedPairs /\ closePairs' = closePairs
    BY <1>1, <1>2 DEF acceptedPairs, closePairs, Pending, Accepted
<1>4. acceptedPairs' = acceptedPairs \cup {} /\ {} \in SUBSET {pair, <<target, sessions[sd]>>}
    BY <1>3
<1> QED
    BY <1>2, <1>3, <1>4 DEF Consent!Agree, acceptedPairs, closePairs, isAuthenticated,
                            pair

\* Accepting is the second consent; it grants the requester's side, and the
\* accepting side unless a crossed request of theirs is still pending.
LEMMA AcceptFriendConsent ==
    ASSUME IInv, NEW sd \in Sd, NEW source, UNCHANGED sessions,
           isAuthenticated(sd), pendingRequest(source, sessions[sd]),
           acceptFriendRequest(sessions[sd], source)
    PROVE  Consent!Agree(sd, source)
<1> DEFINE asked == <<source, sessions[sd]>>
           answer == <<sessions[sd], source>>
           accepted == updateStatus(friends, source, sessions[sd])
           row == [friend_type |-> Normal, status |-> Accepted]
<1>1. /\ asked \in DOMAIN friends /\ friends[asked].status = Pending
      /\ friends[asked].friend_type = Normal
      /\ source # sessions[sd] /\ answer # asked
    BY DEF IInv, PendingIsPlain, NoSelfFriendship, pendingRequest, hasRow
<1>2. friends \in [DOMAIN friends -> FriendRow]
    BY DEF IInv, TypeOK, DatabaseTypeOK
<1>3. /\ DOMAIN accepted = DOMAIN friends
      /\ accepted[asked].status = Accepted
      /\ accepted[asked].friend_type = Normal
      /\ \A k \in DOMAIN friends : k # asked => accepted[k] = friends[k]
    BY <1>1, <1>2 DEF updateStatus, FriendRow
<1>4. friends' = IF answer \in DOMAIN accepted THEN accepted
                 ELSE Insert(accepted, answer, row)
    BY DEF acceptFriendRequest, insertReverse
<1> HIDE DEF accepted
<1>5. /\ DOMAIN friends' = DOMAIN friends \cup {answer}
      /\ friends'[asked].status = Accepted /\ friends'[asked].friend_type = Normal
      /\ \A k \in DOMAIN friends : k # asked => friends'[k] = friends[k]
      /\ answer \notin DOMAIN friends => friends'[answer].status = Accepted
                                        /\ friends'[answer].friend_type = Normal
    BY <1>1, <1>3, <1>4 DEF Insert
<1> DEFINE grants == IF answer \in DOMAIN friends THEN {asked} ELSE {asked, answer}
<1> HIDE DEF asked, answer
<1>6. acceptedPairs' = acceptedPairs \cup grants
    BY <1>1, <1>5 DEF acceptedPairs
<1>7. closePairs' = closePairs
    BY <1>1, <1>5 DEF closePairs, Normal, Close, Pending, Accepted
<1>8. grants \in SUBSET {answer, asked}
    OBVIOUS
<1> HIDE DEF grants
<1> QED
    BY <1>1, <1>5, <1>6, <1>7, <1>8
    DEF Consent!Agree, acceptedPairs, closePairs, isAuthenticated, asked, answer

\* Changing the type marks or unmarks a close friend.
LEMMA SetFriendTypeConsent ==
    ASSUME IInv, NEW sd \in Sd, NEW target, NEW type, UNCHANGED sessions,
           settableType(sessions[sd], target, type),
           setFriendType(sessions[sd], target, type)
    PROVE  Consent!Mark(sd, target)
<1> DEFINE pair == <<sessions[sd], target>>
<1>1. pair \in DOMAIN friends /\ friends[pair].status = Accepted
    BY DEF settableType, areFriends, hasRow
<1>2. friends \in [DOMAIN friends -> FriendRow]
    BY DEF IInv, TypeOK, DatabaseTypeOK
<1>3. /\ DOMAIN friends' = DOMAIN friends
      /\ friends'[pair].status = Accepted
      /\ \A k \in DOMAIN friends : k # pair => friends'[k] = friends[k]
    BY <1>1, <1>2 DEF setFriendType, updateFriendType, FriendRow
<1> HIDE DEF pair
<1>4. acceptedPairs' = acceptedPairs /\ pair \in acceptedPairs
    BY <1>1, <1>3 DEF acceptedPairs
<1>5. closePairs' \in {closePairs \cup {pair}, closePairs \ {pair}}
    <2>1. CASE friends'[pair].friend_type = Close
        BY <1>1, <1>3, <2>1 DEF closePairs
    <2>2. CASE friends'[pair].friend_type # Close
        BY <1>1, <1>3, <2>2 DEF closePairs
    <2> QED
        BY <2>1, <2>2
<1> QED
    BY <1>3, <1>4, <1>5 DEF Consent!Mark, acceptedPairs, closePairs, pair

LEMMA ServeConsent ==
    ASSUME IInv, NEW sd \in Sd, Serve(sd)
    PROVE  [Consent!ConsentNext]_Consent!consentVars
<1> USE DEF sessionVars, databaseVars, Refuse, Query, getUsername
<1>1. CASE UNCHANGED <<sessions, friends>>
    BY <1>1, ConsentStutter
<1>2. CASE UnknownCommand(sd)
    BY <1>1, <1>2 DEF UnknownCommand
<1>3. CASE AccountCommand(sd)
    <2>1. ASSUME NEW u \in Token, NEW p, LoginCommand(sd, u, p)
          PROVE  [Consent!ConsentNext]_Consent!consentVars
        BY <1>1, <2>1, ConsentSignIn DEF LoginCommand, login, isAuthenticated, Token
    <2>2. CASE LogoutCommand(sd)
        BY <1>1, <2>2, ConsentLogout DEF LogoutCommand
    <2> QED
        BY <1>1, <1>3, <2>1, <2>2
        DEF AccountCommand, RegisterCommand, SetProfileVisibilityCommand
<1>4. CASE FriendCommand(sd)
    <2>1. ASSUME NEW u \in Token, FriendRequestCommand(sd, u)
          PROVE  [Consent!ConsentNext]_Consent!consentVars
        <3>1. CASE Refuse(sd)
            BY <1>1, <3>1
        <3>2. CASE /\ isAuthenticated(sd) /\ sessions[sd] # u
                   /\ getUserByUsername(u) /\ ~hasRow(sessions[sd], u)
                   /\ sendFriendRequest(sessions[sd], u) /\ UNCHANGED sessionVars
            <4>1. u \in Name
                BY <3>2 DEF IInv, TypeOK, DatabaseTypeOK, getUserByUsername
            <4> QED
                BY <3>2, <4>1, FriendRequestConsent DEF Consent!ConsentNext
        <3> QED
            BY <2>1, <3>1, <3>2 DEF FriendRequestCommand
    <2>2. ASSUME NEW u \in Token, AcceptFriendCommand(sd, u)
          PROVE  [Consent!ConsentNext]_Consent!consentVars
        <3>1. CASE Refuse(sd)
            BY <1>1, <3>1
        <3>2. CASE /\ isAuthenticated(sd) /\ pendingRequest(u, sessions[sd])
                   /\ acceptFriendRequest(sessions[sd], u) /\ UNCHANGED sessionVars
            <4>1. u \in Name
                BY <3>2 DEF IInv, TypeOK, DatabaseTypeOK, pendingRequest, hasRow
            <4> QED
                BY <3>2, <4>1, AcceptFriendConsent DEF Consent!ConsentNext
        <3> QED
            BY <2>2, <3>1, <3>2 DEF AcceptFriendCommand
    <2>3. ASSUME NEW u \in Token, NEW t, SetFriendTypeCommand(sd, u, t)
          PROVE  [Consent!ConsentNext]_Consent!consentVars
        <3>1. CASE Refuse(sd)
            BY <1>1, <3>1
        <3>2. CASE /\ settableType(sessions[sd], u, t)
                   /\ setFriendType(sessions[sd], u, t) /\ UNCHANGED sessionVars
            <4>1. u \in Name
                BY <3>2 DEF IInv, TypeOK, DatabaseTypeOK, settableType, areFriends,
                            hasRow
            <4> QED
                BY <3>2, <4>1, SetFriendTypeConsent DEF Consent!ConsentNext
        <3> QED
            BY <2>3, <3>1, <3>2 DEF SetFriendTypeCommand
    <2>4. CASE ListFriendsCommand(sd) \/ ListFriendRequestsCommand(sd)
        BY <1>1, <2>4 DEF ListFriendsCommand, ListFriendRequestsCommand
    <2> QED
        BY <1>4, <2>1, <2>2, <2>3, <2>4 DEF FriendCommand
<1>5. CASE PostCommand(sd)
    BY <1>1, <1>5 DEF PostCommand, CreatePostCommand, ListPostsCommand
<1>6. CASE MessagingCommand(sd)
    BY <1>1, <1>6 DEF MessagingCommand, ChatCommand, ChatsCommand, OpenCommand,
                      openConversation, SendCommand, ShowCommand, GroupCommand,
                      AddCommand
<1> QED
    BY <1>2, <1>3, <1>4, <1>5, <1>6 DEF Serve

\* The server implements MutualConsent: a friendship opens posts on either
\* side only after both users have asked for it or accepted it.
THEOREM ImplementsMutualConsent == Spec => ConsentSpec
<1>1. Init => Consent!ConsentInit
    BY DEF Init, SessionInit, DatabaseInit, Consent!ConsentInit
<1>2. IInv /\ [Next]_vars => [Consent!ConsentNext]_Consent!consentVars
    <2> SUFFICES ASSUME IInv, [Next]_vars
                 PROVE  [Consent!ConsentNext]_Consent!consentVars
        OBVIOUS
    <2>1. ASSUME NEW sd \in Sd, Accept(sd) PROVE UNCHANGED <<sessions, friends>>
        BY <2>1 DEF Accept, sessionVars, databaseVars
    <2>2. ASSUME NEW sd \in Sd, Disconnect(sd) PROVE Consent!ConsentNext
        BY <2>2, ConsentLogout DEF Disconnect, databaseVars
    <2>3. CASE Restart
        <3>1. sessions' = [sd \in Sd |-> IF sd \in Sd THEN Empty ELSE sessions[sd]]
            BY <2>3 DEF Restart, StartsFresh
        <3> QED
            BY <2>3, <3>1, ConsentSignOut DEF Restart, StartsFresh, databaseVars
    <2>4. CASE UNCHANGED vars
        BY <2>4, ConsentStutter DEF vars, sessionVars, databaseVars
    <2> QED
        BY <2>1, <2>2, <2>3, <2>4, ConsentStutter, ServeConsent DEF Next
<1> QED
    BY <1>1, <1>2, Invariance, PTL DEF Spec, ConsentSpec, Consent!ConsentSpec

===============================================================================
