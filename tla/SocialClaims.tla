----------------------------- MODULE SocialClaims -----------------------------
(***************************************************************************)
(* What the README, a comment or a check of the repository says of the     *)
(* server and the code does not do.  TLC finds it violated; the behaviour  *)
(* it prints is an ordinary sequence of client commands.                   *)
(***************************************************************************)
EXTENDS SocialProperties

\* Friendship is consistent for both users: whoever has an accepted friend
\* is an accepted friend of theirs (README.md:51; the comment "we change the
\* other side too" at Database.cpp:295).
\* Not so when two requests cross: accepting one leaves the other pending,
\* because the INSERT of the reverse row fails on the primary key.
FriendshipSymmetric ==
    \A pair \in DOMAIN friends :
        friends[pair].status = Accepted => areFriends(pair[2], pair[1])

===============================================================================
