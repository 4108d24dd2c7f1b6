---------------------------- MODULE MutualConsent ----------------------------
(***************************************************************************)
(* What friendship promises, without rows, keys or statuses: a user opens  *)
(* their friends-only posts to another, or has another's opened to them,   *)
(* only after both have agreed to the friendship, each by a command of     *)
(* their own; and only the author decides who is a close friend.           *)
(***************************************************************************)
EXTENDS Domains

CONSTANTS Sd

VARIABLES
    who,       \* who[sd]: the user speaking on the connection, or Empty
    consent,   \* <<a, b>>: a has asked b for friendship, or accepted b's
    granted,   \* <<a, b>>: b reads the friends-only posts of a
    close      \* <<a, b>>: b reads the close-friends posts of a

consentVars == <<who, consent, granted, close>>

ConsentInit ==
    /\ who = [sd \in Sd |-> Empty]
    /\ consent = {} /\ granted = {} /\ close = {}

SignIn(sd, u) ==
    /\ who[sd] = Empty
    /\ who' = [who EXCEPT ![sd] = u]
    /\ UNCHANGED <<consent, granted, close>>

\* Any number of connections may lose their user at once (a restart).
SignOut(gone) ==
    /\ who' = [sd \in Sd |-> IF sd \in gone THEN Empty ELSE who[sd]]
    /\ UNCHANGED <<consent, granted, close>>

\* The second of two users to agree may open either side, or both: the
\* promise says when a grant may appear, not that it must.
Agree(sd, other) ==
    LET me == who[sd] IN
    /\ me # Empty /\ me # other
    /\ consent' = consent \cup {<<me, other>>}
    /\ \E grants \in SUBSET {<<me, other>>, <<other, me>>} :
          /\ grants # {} => <<other, me>> \in consent
          /\ granted' = granted \cup grants
    /\ UNCHANGED <<who, close>>

Mark(sd, other) ==
    LET pair == <<who[sd], other>> IN
    /\ pair \in granted
    /\ close' \in {close \cup {pair}, close \ {pair}}
    /\ UNCHANGED <<who, consent, granted>>

ConsentNext ==
    \/ \E gone \in SUBSET Sd : SignOut(gone)
    \/ \E sd \in Sd, u \in Name : SignIn(sd, u) \/ Agree(sd, u) \/ Mark(sd, u)

ConsentSpec == ConsentInit /\ [][ConsentNext]_consentVars

===============================================================================
