------------------------------- MODULE QtClient -------------------------------
(***************************************************************************)
(* The Qt program as a whole, with the server it is connected to and the   *)
(* other clients (qt_client/main.cpp).                                     *)
(***************************************************************************)
EXTENDS MessagesWindow

desktopVars == <<vars, networkVars, mainVars, todo, messagesVars>>

DesktopInit == NetworkInit /\ MainInit /\ MessagesInit

\* The command at the head of todo goes to the server.
Call ==
    /\ todo # <<>>
    /\ sendCommand(Head(todo).text)
    /\ UNCHANGED <<mainVars, todo, messagesVars>>

\* The handler continues with the reply.
Return ==
    \/ MainReturn /\ UNCHANGED messagesVars
    \/ MessagesReturn /\ UNCHANGED mainVars

Event ==
    \/ MainEvent /\ UNCHANGED messagesVars
    \/ MessagesEvent /\ UNCHANGED mainVars

\* The program ends and its user starts it again; what was in a field and
\* has not been sent is still to be written.
StartsAgain ==
    /\ visible' = "login" /\ typed' = NothingTyped /\ hidden' = FALSE
    /\ friendsList' = {} /\ dialog' = NoDialog /\ todo' = <<>>
    /\ opened' = {}
    /\ currentConversationId' = [w \in Window |-> NoConversation]
    /\ conversationsList' = [w \in Window |-> {}]
    /\ messagesView' = [w \in Window |-> {}]
    /\ messageInput' = [w \in Window |-> <<>>]
    /\ toWrite' = toWrite \cup ({messageInput[w] : w \in Window} \ {<<>>})
    /\ sock' = NotConnected /\ reply' = Waiting
    /\ UNCHANGED <<vars, peers, running, crashes>>

Quit == todo = <<>> /\ "quit" \in Button /\ StartsAgain

Killed == todo # <<>> /\ sendKills /\ reply = Waiting /\ StartsAgain

Environment == Elsewhere /\ UNCHANGED <<mainVars, todo, messagesVars>>

DesktopNext == Event \/ Call \/ Return \/ Quit \/ Killed \/ Environment

DesktopSpec == DesktopInit /\ [][DesktopNext]_desktopVars

-------------------------------------------------------------------------------
(* Fairness *)

\* The thread of the program goes on with a handler; the server is started
\* again, and notices the connections that were closed.
ProgramRuns ==
    /\ WF_desktopVars(Call)
    /\ WF_desktopVars(Return)
    /\ WF_desktopVars(Start /\ UNCHANGED <<mainVars, todo, messagesVars>>)
    /\ \A sd \in Sd :
          WF_desktopVars(sd \notin peers /\ Leaves(sd)
                            /\ UNCHANGED <<mainVars, todo, messagesVars>>)

\* A timer that is due fires when the event loop comes back to it.
TimersFire ==
    /\ SF_desktopVars(Poll /\ UNCHANGED messagesVars)
    /\ \A w \in Window : SF_desktopVars(Tick(w) /\ UNCHANGED mainVars)

TimedSpec == DesktopSpec /\ ProgramRuns /\ TimersFire

===============================================================================
