------------------------------- MODULE MCFaults -------------------------------
(* Small instances of Faults for TLC. *)
EXTENDS Faults, MCSocialServer

FaultyCommands == {"login", "logout", "register", "set_visibility", "set_friend_type", "add_friend",
                   "accept_friend", "chat", "open", "send", "group", "add", "restart"}

===============================================================================
