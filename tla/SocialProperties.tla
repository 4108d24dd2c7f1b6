--------------------------- MODULE SocialProperties ---------------------------
(***************************************************************************)
(* What should be true of SocialServer: invariants, what a step may do,    *)
(* and the abstract specifications the server implements.                  *)
(***************************************************************************)
EXTENDS SocialServer

\* The session tables, the tables of the database, the slots and the reply
\* hold values of the kinds server/server.cpp and the schema declare.
TypeOK ==
    /\ SessionTypeOK
    /\ DatabaseTypeOK
    /\ client_socket \subseteq Sd
    /\ master_set \subseteq Sd
    /\ response.sd \in Sd \cup {NoSd}
    /\ response.kind \in ResponseKind

registered == DOMAIN users

-------------------------------------------------------------------------------
(* Invariants *)

\* A descriptor without a client has no user and no open conversation, so
\* the next client the kernel gives the same descriptor starts as a guest
\* (server.cpp:103-109 clears the session before the descriptor is reused).
SessionsAreLive ==
    /\ client_socket \subseteq master_set
    /\ \A sd \in Sd \ client_socket :
          sessions[sd] = Empty /\ currentConversation[sd] = NoConversation

\* The conversation open on a connection belongs to the user logged in on
\* it now: no login, logout, disconnect or reuse of the descriptor lets one
\* user inherit the conversation of another.  "show" and "add" rely on it,
\* for they ask the session only (ShowCommand.cpp:11, AddCommand.cpp:13).
OpenConversationIsOwn ==
    \A sd \in Sd : currentConversation[sd] # NoConversation =>
        /\ isAuthenticated(sd)
        /\ isParticipant(currentConversation[sd], sessions[sd])

\* The foreign keys of the schema (Database.cpp:50-51, 61, 76-77, 87-88)
\* hold although SQLite is never told to enforce them: the handlers check
\* the names they store, and sessions only name registered users.
ReferentialIntegrity ==
    /\ \A sd \in Sd : isAuthenticated(sd) => sessions[sd] \in registered
    /\ DOMAIN friends \subseteq registered \X registered
    /\ \A i \in DOMAIN posts : posts[i].author \in registered
    /\ participants \subseteq (1..conversations) \X registered
    /\ \A m \in DOMAIN messages : messages[m].conversation_id \in 1..conversations

\* An accepted friendship has been agreed to on the other side too: the
\* friend has a row of their own, accepted or still pending, even when two
\* requests crossed (Database.cpp:285-304).
AcceptedIsAnswered ==
    \A pair \in DOMAIN friends :
        friends[pair].status = Accepted => hasRow(pair[2], pair[1])

\* Nobody is a close friend before they are a friend: a request carries no
\* type until it is accepted (Database.cpp:326).
PendingIsPlain ==
    \A pair \in DOMAIN friends :
        friends[pair].status = Pending => friends[pair].friend_type = Normal

\* Nobody is a friend of themselves (FriendRequestCommand.cpp:13).
NoSelfFriendship == \A pair \in DOMAIN friends : pair[1] # pair[2]

\* A post that is not public is listed only to its author and to users with
\* whom the friendship is agreed on both sides, the author's being accepted;
\* a close-friends post only to those whom the author marked as close, never
\* to those who marked the author (Database.cpp:418-439).
ListedPostsAreAllowed ==
    response.kind = "posts" =>
        \A i \in response.rows :
            LET p == posts[i]
                reader == sessions[response.sd]
            IN \/ p.visibility = Public
               \/ p.author = reader
               \/ /\ areFriends(p.author, reader)
                  /\ hasRow(reader, p.author)
                  /\ p.visibility = CloseFriends =>
                        friends[<<p.author, reader>>].friend_type = Close

\* "show" discloses messages only to a participant of their conversation,
\* although it never asks the database who that is (ShowCommand.cpp:6-21).
ShownToParticipants ==
    response.kind = "messages" =>
        \A m \in response.rows :
            isParticipant(messages[m].conversation_id, sessions[response.sd])

-------------------------------------------------------------------------------
(* What a step may do *)

\* No command of one user changes the account of another, and nobody's
\* password, email or role ever changes: registering a name again never
\* takes the account over (Database.cpp:34-41, SetProfileVisibilityCommand.cpp).
AccountsChangeByTheirOwner ==
    [][ \A u \in registered :
          /\ u \in registered'
          /\ users'[u] # users[u] =>
                /\ \E sd \in Sd : response'.sd = sd /\ sessions[sd] = u
                /\ \E v \in ProfileVisibility :
                      users'[u] = [users[u] EXCEPT !.profile_visibility = v]
      ]_vars

-------------------------------------------------------------------------------
(* Abstract specifications *)

Access == INSTANCE ConversationAccess WITH
    who <- sessions, created <- conversations,
    members <- participants, log <- messages

\* The server implements ConversationAccess: across logins, descriptor
\* reuse and restarts, only members write in a conversation or invite to it.
AccessSpec == Access!AccessSpec

Consent == INSTANCE MutualConsent WITH
    who <- sessions,
    consent <- DOMAIN friends,
    granted <- {pair \in DOMAIN friends : friends[pair].status = Accepted},
    close <- {pair \in DOMAIN friends :
                 friends[pair].status = Accepted /\ friends[pair].friend_type = Close}

\* The server implements MutualConsent: a friendship takes effect on either
\* side only once both users have agreed to it, crossed requests included.
ConsentSpec == Consent!ConsentSpec

===============================================================================
