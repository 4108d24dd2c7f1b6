---------------------------- MODULE CommandFactory ----------------------------
(***************************************************************************)
(* From the text a client sends to the command the server runs             *)
(* (server/CommandFactory.cpp).  A text is a sequence of items, each a     *)
(* word, a blank or a line break; no two words are neighbours.  What is    *)
(* typed into one field may hold several words, or none, and the factory   *)
(* sees only the words of the whole.                                       *)
(***************************************************************************)
EXTENDS SocialServer, TLC

blank == " "
newline == "\n"

isWord(item) == item \notin {blank, newline}

\* ss >> word skips blanks and line breaks alike: where the words are, and
\* where the n-th is, one place or none.
wordsAt(text) == {i \in DOMAIN text : isWord(text[i])}

nthWordAt(text, n) ==
    LET at == wordsAt(text) IN {i \in at : Cardinality({j \in at : j <= i}) = n}

word(text, n) ==
    LET at == nthWordAt(text, n)
    IN  IF at = {} THEN Empty ELSE text[CHOOSE i \in at : TRUE]

words(text) == [n \in 1..Cardinality(wordsAt(text)) |-> word(text, n)]

\* The numbers a text may hold, all conversations included.
Numbers == -1 .. 9 + MaxConversations    \* bound: no other word is a number

\* The words that stand for them.
numeral == [t \in {ToString(n) : n \in Numbers} |->
               CHOOSE n \in Numbers : ToString(n) = t]

isNumber(item) == item # Empty /\ item \in DOMAIN numeral

\* ss >> int: a missing number leaves the variable uninitialized, a word
\* that is no number sets it to 0.
number(text, n) ==
    IF word(text, n) = Empty THEN -1..3
    ELSE IF isNumber(word(text, n)) THEN {numeral[word(text, n)]}
    ELSE {0}

firstLine(text) ==
    LET breaks == {i \in DOMAIN text : text[i] = newline}
    IN  IF breaks = {} THEN text
        ELSE SubSeq(text, 1, (CHOOSE i \in breaks : \A j \in breaks : i <= j) - 1)

\* getline after n words: what is left of the line, without one blank.
restOfLine(text, n) ==
    IF nthWordAt(text, n) = {} THEN <<>>
    ELSE LET last == CHOOSE i \in nthWordAt(text, n) : TRUE
             line == firstLine(SubSeq(text, last + 1, Len(text)))
         IN  IF line # <<>> /\ line[1] = blank THEN Tail(line) ELSE line

content(text, n) ==
    LET rest == restOfLine(text, n) IN IF rest = <<>> THEN Empty ELSE rest

\* Mutant: the words of the registration are read in another order.
RegisterWords_Swapped(sd, text) ==
    RegisterCommand(sd, word(text, 2), word(text, 4), word(text, 3),
                    word(text, 5), word(text, 6))

RegisterWords(sd, text) ==
    RegisterCommand(sd, word(text, 2), word(text, 3), word(text, 4),
                    word(text, 5), word(text, 6))

\* A stream that failed on the number has no content either.
CreatePostWords(sd, text) ==
    \E visibility \in number(text, 2) :
        CreatePostCommand(sd, visibility,
                          IF isNumber(word(text, 2)) THEN content(text, 2) ELSE Empty)

SetFriendTypeWords(sd, text) ==
    \E type \in number(text, 3) : SetFriendTypeCommand(sd, word(text, 2), type)

OpenWords(sd, text) ==
    IF isNumber(word(text, 2)) THEN OpenCommand(sd, numeral[word(text, 2)])
                               ELSE UnknownCommand(sd)

\* One text served: create and execute of the command it stands for.  The
\* last four commands with a condition are not built without an argument.
execute(sd, text) ==
    LET cmd == word(text, 1)
        name == word(text, 2)
    IN
    /\ sd \in client_socket
    /\ CASE cmd = "login"           -> LoginCommand(sd, name, word(text, 3))
         [] cmd = "register"        -> RegisterWords(sd, text)
         [] cmd = "logout"          -> LogoutCommand(sd)
         [] cmd = "set_visibility"  -> SetProfileVisibilityCommand(sd, name)
         [] cmd = "add_friend"      -> FriendRequestCommand(sd, name)
         [] cmd = "accept_friend"   -> AcceptFriendCommand(sd, name)
         [] cmd = "set_friend_type" -> SetFriendTypeWords(sd, text)
         [] cmd = "list_friends"    -> ListFriendsCommand(sd)
         [] cmd = "list_friend_requests" -> ListFriendRequestsCommand(sd)
         [] cmd = "create_post"     -> CreatePostWords(sd, text)
         [] cmd = "list_posts"      -> ListPostsCommand(sd)
         [] cmd = "chats"           -> ChatsCommand(sd)
         [] cmd = "chat" /\ name # Empty  -> ChatCommand(sd, name)
         [] cmd = "open"            -> OpenWords(sd, text)
         [] cmd = "send" /\ content(text, 1) # Empty ->
                SendCommand(sd, content(text, 1))
         [] cmd = "show"            -> ShowCommand(sd)
         [] cmd = "group" /\ name # Empty -> GroupCommand(sd, Tail(words(text)))
         [] cmd = "add" /\ name # Empty   -> AddCommand(sd, name)
         [] OTHER                             -> UnknownCommand(sd)
    /\ UNCHANGED serverVars

===============================================================================
