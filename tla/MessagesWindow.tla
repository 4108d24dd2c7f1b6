---------------------------- MODULE MessagesWindow ----------------------------
(***************************************************************************)
(* The messages windows (qt_client/MessagesWindow.cpp).  Each remembers    *)
(* the conversation its user clicked, while the server remembers one open  *)
(* conversation for the connection they all share.  A window stays usable  *)
(* when the main window that opened it is closed.                          *)
(***************************************************************************)
EXTENDS MainWindows

CONSTANTS Window     \* the messages windows a run may open

VARIABLES
    opened,                  \* the windows on the screen
    currentConversationId,   \* what each window believes to show, or NoConversation
    conversationsList,       \* the conversations each lists
    messagesView,            \* the messages each displays
    messageInput,            \* the text in the input field of each
    toWrite                  \* the texts the user has still to write

messagesVars == <<opened, currentConversationId, conversationsList, messagesView,
                  messageInput, toWrite>>

MessagesInit ==
    /\ opened = {}
    /\ currentConversationId = [w \in Window |-> NoConversation]
    /\ conversationsList = [w \in Window |-> {}]
    /\ messagesView = [w \in Window |-> {}]
    /\ messageInput = [w \in Window |-> <<>>]
    /\ toWrite = Text

windowCall(w, do, text) == [do |-> do, text |-> text, window |-> w]

loadConversations(w) == <<windowCall(w, "loadConversations", <<"chats">>)>>
loadMessages(w) == <<windowCall(w, "show", <<"show">>)>>

-------------------------------------------------------------------------------
(* Events *)

\* No dialog is before the windows and no handler runs.
Usable(w) == todo = <<>> /\ dialog = NoDialog /\ w \in opened

MessagesClicked(w) ==
    /\ AtMain("messages") /\ w \notin opened
    /\ opened' = opened \cup {w}
    /\ Calls(loadConversations(w))
    /\ UNCHANGED <<currentConversationId, conversationsList, messagesView, messageInput,
                   toWrite>>

ConversationClicked(w, id) ==
    /\ Usable(w) /\ id \in conversationsList[w]
    /\ currentConversationId' = [currentConversationId EXCEPT ![w] = id]
    /\ Calls(<<windowCall(w, "none", <<"open", blank, ToString(id)>>)>> \o loadMessages(w))
    /\ UNCHANGED <<opened, conversationsList, messagesView, messageInput, toWrite>>

Types(w, text) ==
    /\ Usable(w) /\ messageInput[w] = <<>> /\ text \in toWrite
    /\ messageInput' = [messageInput EXCEPT ![w] = text]
    /\ toWrite' = toWrite \ {text}
    /\ Calls(<<>>)
    /\ UNCHANGED <<opened, currentConversationId, conversationsList, messagesView>>

WindowCalls(calls) == Calls(calls) /\ UNCHANGED messagesVars

SendClicked(w) ==
    /\ Usable(w) /\ messageInput[w] # <<>>
    /\ WindowCalls(<<windowCall(w, "send", <<"send", blank>> \o messageInput[w])>>)

\* Mutant: the window is not refreshed while its user writes.
Tick_NotWhileTyping(w) ==
    /\ todo = <<>> /\ w \in opened /\ currentConversationId[w] # NoConversation
    /\ messageInput[w] = <<>>
    /\ WindowCalls(loadMessages(w))

\* The timer of a window fires under dialogs, too.
Tick(w) ==
    /\ todo = <<>> /\ w \in opened /\ currentConversationId[w] # NoConversation
    /\ WindowCalls(loadMessages(w))

\* The bound on conversations is the user's here: no command is refused for it.
NewChatClicked(w, user) ==
    /\ Usable(w) /\ "chat" \in Button /\ user # <<>>
    /\ conversations < MaxConversations
    /\ WindowCalls(<<windowCall(w, "none", <<"chat", blank>> \o user)>>
                     \o loadConversations(w))

NewGroupClicked(w, usernames) ==
    /\ Usable(w) /\ "group" \in Button /\ usernames # <<>>
    /\ conversations < MaxConversations
    /\ WindowCalls(<<windowCall(w, "none", <<"group", blank>> \o usernames)>>
                     \o loadConversations(w))

MessagesEvent ==
    \E w \in Window :
        \/ MessagesClicked(w)
        \/ \E id \in 1..MaxConversations : ConversationClicked(w, id)
        \/ \E text \in Text : Types(w, text)
        \/ SendClicked(w)
        \/ Tick(w)
        \/ \E names \in Entry : NewChatClicked(w, names) \/ NewGroupClicked(w, names)

-------------------------------------------------------------------------------
(* Replies *)

ConversationsReturned(w) ==
    /\ doing("loadConversations") /\ Head(todo).window = w
    /\ Proceeds
    /\ conversationsList' = [conversationsList EXCEPT ![w] =
           IF reply.kind = "chats" THEN {row[1] : row \in reply.rows} ELSE {}]
    /\ UNCHANGED <<opened, currentConversationId, messagesView, messageInput, toWrite>>

\* Any reply replaces what is on display, be it the text of an error.
MessagesReturned(w) ==
    /\ doing("show") /\ Head(todo).window = w
    /\ Proceeds
    /\ messagesView' = [messagesView EXCEPT ![w] =
           IF reply.kind = "messages" THEN reply.rows ELSE {}]
    /\ UNCHANGED <<opened, currentConversationId, conversationsList, messageInput, toWrite>>

\* Mutant: the field is cleared whatever the server said.
SendReturned_ClearsFirst(w) ==
    /\ doing("send") /\ Head(todo).window = w
    /\ Returned
    /\ messageInput' = [messageInput EXCEPT ![w] = <<>>]
    /\ todo' = IF repliedOK THEN loadMessages(w) ELSE <<>>
    /\ UNCHANGED <<opened, currentConversationId, conversationsList, messagesView, toWrite>>

\* Mutant: the field keeps a message that was confirmed.
SendReturned_KeepsText(w) ==
    /\ doing("send") /\ Head(todo).window = w
    /\ Returned
    /\ todo' = IF repliedOK THEN loadMessages(w) ELSE <<>>
    /\ UNCHANGED messagesVars

\* A message that was not confirmed stays in the field.
SendReturned(w) ==
    /\ doing("send") /\ Head(todo).window = w
    /\ Returned
    /\ messageInput' = [messageInput EXCEPT ![w] = IF repliedOK THEN <<>> ELSE @]
    /\ todo' = IF repliedOK THEN loadMessages(w) ELSE <<>>
    /\ UNCHANGED <<opened, currentConversationId, conversationsList, messagesView, toWrite>>

MessagesReturn ==
    \E w \in Window : ConversationsReturned(w) \/ MessagesReturned(w) \/ SendReturned(w)

===============================================================================
