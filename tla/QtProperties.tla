----------------------------- MODULE QtProperties -----------------------------
(***************************************************************************)
(* What should be true of the Qt program and the server together, through  *)
(* crashes of the server, lost replies and the end of the program.         *)
(***************************************************************************)
EXTENDS QtClient

loginText(name, pass) == <<"login", blank>> \o name \o <<blank>> \o pass

\* The account that the words typed into name and password log in.
opensAccount(name, pass) ==
    LET text == loginText(name, pass)
    IN  word(text, 3) # Empty /\ authenticateUser(word(text, 2), word(text, 3))

-------------------------------------------------------------------------------
(* Login, register and the main window *)

\* The main window is on top exactly while the connection is logged in, and
\* as the user whose name was typed: no crash, lost reply, dead socket kept
\* or timer of a closed window lets the window and the session of the
\* server part (NetworkClient.cpp:20-67, MainWindow.cpp:225-230).  Between a
\* command and its reply they may.
WindowMatchesSession ==
    connected /\ reply = Waiting =>
        /\ visible = "main" <=> isAuthenticated(sock)
        /\ visible = "main" /\ words(typed.name) # <<>> =>
              getUsername(sock) = word(typed.name, 1)

\* Whoever registers through the form, with something in the name and the
\* password field, can log in by typing the same again, however many words
\* each field holds (RegisterWindow.cpp:119-125, CommandFactory.cpp:29-38).
RegisteredCanLogIn ==
    /\ doing("register") /\ reply.kind = "OK"
    /\ words(typed.name) # <<>> /\ words(typed.pass) # <<>>
    => opensAccount(typed.name, typed.pass)

\* A user who keeps trying to log in gets in again after the server has
\* ended and was started again: the dead socket is found and given up
\* (NetworkClient.cpp:54-57), although connectToServer keeps it.  The
\* register window has no way back and is excepted.
BackOnline == visible \in {"login", "guest"} ~> visible \in {"main", "register"}

\* A friendship that somebody else accepted appears in the list of a user
\* who stays logged in, by the timer alone (MainWindow.cpp:243-249).
FriendsAreListed ==
    \A u, f \in Name :
        visible = "main" /\ connected /\ getUsername(sock) = u /\ areFriends(u, f)
        ~> f \in friendsList \/ visible # "main" \/ ~connected

-------------------------------------------------------------------------------
(* Messages *)

copies(text) == {m \in DOMAIN messages : messages[m].content = firstLine(text)}

\* No text gets lost on its way: it is still to be written, in the field of
\* a window, or stored, at least its first line (MessagesWindow.cpp:21-27).
TypedIsKept ==
    \A text \in Text :
        \/ text \in toWrite
        \/ \E w \in Window : messageInput[w] = text
        \/ copies(text) # {}

\* Copies are told apart by what they say: no two texts begin with the same
\* line, and nobody else writes one of these lines.
DistinctTexts ==
    /\ \A s, t \in Text : firstLine(s) = firstLine(t) => s = t
    /\ \A t \in Text : firstLine(t) \notin PeerText

\* The user sends again what was not confirmed, so that a text may be stored
\* more than once, but each copy more than one costs a crash of the server
\* (NetworkClient.cpp:60-63, MessagesWindow.cpp:23-26).
OneMorePerCrash == \A text \in Text : Cardinality(copies(text)) <= 1 + crashes

\* A message stored in the conversation a window shows appears in it while
\* that is also the one the server has open (MessagesWindow.cpp:193-196).
NewMessagesAreShown ==
    \A w \in Window, m \in 1..MaxMessages :
        /\ connected /\ w \in opened /\ m \in DOMAIN messages
        /\ messages[m].conversation_id = currentConversationId[w]
        ~> \/ m \in messagesView[w] \/ ~connected
           \/ currentConversation[sock] # currentConversationId[w]

\* "Each conversation maintains its own participant list and message stream"
\* (README.md): what is written in the window of one conversation is not
\* stored in another.
\* Not so: group creation switches the conversation the server has open, and
\* not the one the window shows (GroupCommand.cpp:24, MessagesWindow.cpp:104).
SentWhereShown ==
    [][ \A w \in Window :
          /\ doing("send") /\ Head(todo).window = w /\ Call /\ messages' # messages
          /\ currentConversationId[w] # NoConversation
          => messages'[Len(messages')].conversation_id = currentConversationId[w]
      ]_desktopVars

-------------------------------------------------------------------------------
(* The user keeps trying: they type what opens an account, and come back   *)
(* from the guest window.                                                  *)

Retries ==
    /\ SF_desktopVars(BackClicked /\ UNCHANGED messagesVars)
    /\ SF_desktopVars(\E name, pass \in Entry :
                          /\ LoginClicked(name, pass) /\ UNCHANGED messagesVars
                          /\ words(name) # <<>> /\ opensAccount(name, pass))

RetrySpec == TimedSpec /\ Retries

===============================================================================
