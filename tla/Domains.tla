------------------------------- MODULE Domains -------------------------------
(***************************************************************************)
(* The values that every part of the social network shares.                *)
(***************************************************************************)

CONSTANTS
    Name,   \* the user names a client may type, registered or not
    Empty   \* the empty string: a token missing from a command, or the
            \* answer of getUsername for a connection nobody logged in on

ASSUME EmptyAssumption == Empty \notin Name

===============================================================================
