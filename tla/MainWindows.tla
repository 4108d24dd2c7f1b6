------------------------------ MODULE MainWindows ------------------------------
(***************************************************************************)
(* The windows of the Qt program but for the messages: login, register,    *)
(* guest posts, the main window and its dialogs (qt_client/*.cpp).  One    *)
(* thread runs the handlers; a handler that has called sendCommand keeps   *)
(* it until the reply is there, so that nothing else of the program runs   *)
(* between the calls of a handler, while the server serves other clients.  *)
(*                                                                         *)
(* todo is the rest of the handler under way: the commands it still has to *)
(* send.  Status labels and the posts on display are left out.             *)
(***************************************************************************)
EXTENDS NetworkClient

CONSTANTS
    Button,        \* what the user of a run clicks
    Entry,         \* what they type into a one-line field
    Mail,          \* and into the one for the email
    Text,          \* what they type into a field of many lines, trimmed
    NoWindow       \* the window of a call that is not a messages window's

ASSUME TypedAssumption ==
    Entry \cup Mail \cup Text \subseteq Seq(STRING) /\ <<>> \notin Text

VARIABLES
    visible,       \* the top window
    typed,         \* name and password in the fields of the form used last; the
                   \* name is what MainWindow shows as its user
    hidden,        \* has a main window been closed: it lives on with its timer
    friendsList,   \* the names in MainWindow's list
    dialog,        \* the dialog before the main window, and the names it shows
    todo

mainVars == <<visible, typed, hidden, friendsList, dialog>>

Top == {"login", "register", "guest", "main"}

NothingTyped == [name |-> <<>>, pass |-> <<>>]
NoDialog == [kind |-> "none", names |-> {}]

call(do, text) == [do |-> do, text |-> text, window |-> NoWindow]

loadFriends == <<call("loadFriends", <<"list_friends">>)>>
refreshPosts == <<call("refreshPosts", <<"list_posts">>)>>
loadRequests == <<call("loadRequests", <<"list_friend_requests">>)>>

\* The name a list item stands for; "(no friends yet)" stands for none.
itemText(name) == IF name = Empty THEN <<>> ELSE <<name>>

MainInit ==
    /\ visible = "login"
    /\ typed = NothingTyped
    /\ hidden = FALSE
    /\ friendsList = {}
    /\ dialog = NoDialog
    /\ todo = <<>>

-------------------------------------------------------------------------------
(* What the user and the timers do when no handler runs *)

At(top) == todo = <<>> /\ visible = top

\* In the main window, with no modal dialog before it.
AtMain(button) == At("main") /\ dialog = NoDialog /\ button \in Button

InDialog(kind) == At("main") /\ dialog.kind = kind

\* The handler goes on to the calls given.
Calls(calls) == todo' = calls /\ UNCHANGED <<vars, networkVars>>

ConnectAndCall(calls) ==
    /\ connectToServer
    /\ todo' = calls
    /\ UNCHANGED <<reply, peers, running, crashes>>

LoginClicked(name, pass) ==
    /\ At("login") /\ name # <<>> /\ pass # <<>>
    /\ typed' = [name |-> name, pass |-> pass]
    /\ ConnectAndCall(<<call("login", <<"login", blank>> \o name \o <<blank>> \o pass)>>)
    /\ UNCHANGED <<visible, hidden, friendsList, dialog>>

RegisterLinkClicked ==
    /\ At("login") /\ "register" \in Button
    /\ visible' = "register"
    /\ Calls(<<>>)
    /\ UNCHANGED <<typed, hidden, friendsList, dialog>>

RegisterClicked(name, pass, mail, role, visibility) ==
    /\ At("register") /\ name # <<>> /\ pass # <<>> /\ mail # <<>>
    /\ ConnectAndCall(<<call("register",
           <<"register", blank>> \o name \o <<blank>> \o pass \o <<blank>> \o mail
               \o <<blank, role, blank, visibility>>)>>)
    /\ typed' = [name |-> name, pass |-> pass]
    /\ UNCHANGED <<visible, hidden, friendsList, dialog>>

ViewPostsClicked ==
    /\ At("login") /\ "guest" \in Button
    /\ visible' = "guest"
    /\ \/ Offline /\ Calls(<<>>)
       \/ ConnectAndCall(<<call("loadPublicPosts", <<"list_posts">>)>>)
    /\ UNCHANGED <<typed, hidden, friendsList, dialog>>

BackClicked ==
    /\ At("guest")
    /\ visible' = "login"
    /\ Calls(<<>>)
    /\ UNCHANGED <<typed, hidden, friendsList, dialog>>

\* Mutant: the windows change and the server is not told.
LogoutClicked_LocalOnly ==
    /\ AtMain("logout")
    /\ Calls(<<>>)
    /\ visible' = "login" /\ hidden' = TRUE
    /\ UNCHANGED <<typed, friendsList, dialog>>

LogoutClicked ==
    /\ AtMain("logout")
    /\ Calls(<<call("logout", <<"logout">>)>>)
    /\ UNCHANGED mainVars

ReloadClicked ==
    /\ AtMain("reload")
    /\ Calls(refreshPosts)
    /\ UNCHANGED mainVars

\* Mutant: the timer loads the posts only.
Poll_PostsOnly ==
    /\ At("main")
    /\ Calls(refreshPosts)
    /\ UNCHANGED mainVars

\* The timer of the main window on top fires under its dialogs, too.
Poll ==
    /\ At("main")
    /\ Calls(loadFriends \o refreshPosts)
    /\ UNCHANGED mainVars

\* The timers of the main windows that were closed.
HiddenPoll ==
    /\ todo = <<>> /\ hidden
    /\ Calls(<<call("hidden", <<"list_friends">>), call("hidden", <<"list_posts">>)>>)
    /\ UNCHANGED mainVars

OpenDialog(kind, names, calls) ==
    /\ dialog' = [kind |-> kind, names |-> names]
    /\ Calls(calls)
    /\ UNCHANGED <<visible, typed, hidden, friendsList>>

AddFriendOpened == AtMain("add_friend") /\ OpenDialog("add_friend", {}, <<>>)
RequestsOpened == AtMain("requests") /\ OpenDialog("requests", {}, loadRequests)
PostOpened == AtMain("post") /\ OpenDialog("post", {}, <<>>)
FriendOpened ==
    /\ AtMain("friend_type")
    /\ \E name \in friendsList : OpenDialog("friend_type", {name}, <<>>)

DialogCalls(calls) == Calls(calls) /\ UNCHANGED mainVars

\* The dialog that got its OK closes 800 ms later.
AddClicked(name) ==
    /\ dialog.kind \in {"add_friend", "added"} /\ At("main") /\ name # <<>>
    /\ DialogCalls(<<call("add_friend", <<"add_friend", blank>> \o name)>>)

AcceptClicked(name) ==
    /\ InDialog("requests") /\ name \in dialog.names
    /\ DialogCalls(<<call("none", <<"accept_friend", blank, name>>)>> \o loadRequests)

\* The button rejects nothing: it loads the list again.
RejectClicked ==
    /\ InDialog("requests") /\ dialog.names # {}
    /\ DialogCalls(loadRequests)

TypeClicked(type) ==
    /\ InDialog("friend_type")
    /\ \E name \in dialog.names :
          DialogCalls(<<call("dialog", <<"set_friend_type", blank>> \o itemText(name)
                                           \o <<blank, ToString(type)>>)>>)

\* The bound on posts is the user's here: no command is refused for it.
PostClicked(visibility, text) ==
    /\ InDialog("post") /\ Len(posts) < MaxPosts
    /\ DialogCalls(<<call("post", <<"create_post", blank, ToString(visibility), blank>>
                                    \o text)>>)

\* After exec: what the main window loads again.  The requests are loaded
\* again however their dialog ends, the others only when they succeeded.
DialogClosed ==
    /\ At("main") /\ dialog # NoDialog
    /\ dialog' = NoDialog
    /\ \/ dialog.kind = "added" /\ Calls(loadFriends \o refreshPosts)
       \/ dialog.kind = "requests" /\ Calls(loadFriends)
       \/ dialog.kind # "requests" /\ Calls(<<>>)
    /\ UNCHANGED <<visible, typed, hidden, friendsList>>

MainEvent ==
    \/ \E name, pass \in Entry : LoginClicked(name, pass)
    \/ RegisterLinkClicked
    \/ \E name, pass \in Entry, mail \in Mail, role \in UserType, visibility \in ProfileVisibility :
          RegisterClicked(name, pass, mail, role, visibility)
    \/ ViewPostsClicked \/ BackClicked
    \/ LogoutClicked \/ ReloadClicked
    \/ Poll \/ HiddenPoll
    \/ AddFriendOpened \/ RequestsOpened \/ PostOpened \/ FriendOpened
    \/ \E name \in Entry : AddClicked(name)
    \/ \E name \in Name : AcceptClicked(name)
    \/ RejectClicked
    \/ \E type \in FriendTypes : TypeClicked(type)
    \/ \E visibility \in PostVisibility, text \in Text : PostClicked(visibility, text)
    \/ DialogClosed

-------------------------------------------------------------------------------
(* What a handler does with a reply *)

doing(do) == todo # <<>> /\ Head(todo).do = do

Proceeds == Returned /\ todo' = Tail(todo)

\* Nothing on display depends on the reply.
ReplyIgnored ==
    /\ \/ doing("refreshPosts") \/ doing("loadPublicPosts") \/ doing("hidden")
       \/ doing("none")
    /\ Proceeds
    /\ UNCHANGED mainVars

LoginReturned ==
    /\ doing("login")
    /\ Returned
    /\ IF repliedOK
       THEN /\ visible' = "main" /\ friendsList' = {}
            /\ todo' = loadFriends \o refreshPosts
       ELSE UNCHANGED <<visible, friendsList>> /\ todo' = <<>>
    /\ UNCHANGED <<typed, hidden, dialog>>

RegisterReturned ==
    /\ doing("register")
    /\ Proceeds
    /\ visible' = IF repliedOK THEN "login" ELSE visible
    /\ UNCHANGED <<typed, hidden, friendsList, dialog>>

\* The reply to the logout is not looked at.
LogoutReturned ==
    /\ doing("logout")
    /\ Proceeds
    /\ visible' = "login"
    /\ hidden' = TRUE
    /\ UNCHANGED <<typed, friendsList, dialog>>

\* An empty list has an item that says so.
FriendsReturned ==
    /\ doing("loadFriends")
    /\ Proceeds
    /\ friendsList' = IF reply = [kind |-> "friends", rows |-> {}] THEN {Empty}
                      ELSE IF reply.kind = "friends" THEN reply.rows ELSE {}
    /\ UNCHANGED <<visible, typed, hidden, dialog>>

RequestsReturned ==
    /\ doing("loadRequests")
    /\ Proceeds
    /\ dialog' = [dialog EXCEPT !.names = IF repliedOK THEN reply.rows ELSE {}]
    /\ UNCHANGED <<visible, typed, hidden, friendsList>>

AddReturned ==
    /\ doing("add_friend")
    /\ Proceeds
    /\ dialog' = IF repliedOK THEN [dialog EXCEPT !.kind = "added"] ELSE dialog
    /\ UNCHANGED <<visible, typed, hidden, friendsList>>

\* A dialog that gets its OK is accepted at once; its caller loads again.
DialogReturned ==
    /\ doing("dialog") \/ doing("post")
    /\ Returned
    /\ IF repliedOK
       THEN /\ dialog' = NoDialog
            /\ todo' = IF doing("post") THEN refreshPosts ELSE loadFriends \o refreshPosts
       ELSE UNCHANGED dialog /\ todo' = <<>>
    /\ UNCHANGED <<visible, typed, hidden, friendsList>>

MainReturn ==
    \/ ReplyIgnored \/ LoginReturned \/ RegisterReturned \/ LogoutReturned
    \/ FriendsReturned \/ RequestsReturned \/ AddReturned \/ DialogReturned

===============================================================================
