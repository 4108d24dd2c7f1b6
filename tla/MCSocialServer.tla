---------------------------- MODULE MCSocialServer ----------------------------
(* Small instances of SocialServer for TLC: values for its constants. *)
EXTENDS SocialClaims, TLC

NoAccounts == [n \in {} |-> Empty]

\* One password that everybody uses.
OnePassword == {1}
OneDigest == {1}
OnlyHash == [p \in OnePassword |-> 1]
EverybodyRegistered ==
    [n \in Name |-> [password |-> 1, email |-> n, user_type |-> "normal",
                     profile_visibility |-> "public"]]

FriendCommands == {"login", "logout", "add_friend", "accept_friend",
                   "set_friend_type", "list_friends", "list_friend_requests",
                   "create_post", "list_posts"}

MessagingCommands == {"login", "logout", "chat", "chats", "open", "send", "show",
                      "group", "add", "restart"}

FriendshipCommands == {"login", "logout", "add_friend", "accept_friend"}

Interchangeable == Permutations(Name) \cup Permutations(Sd)

===============================================================================
