------------------------------ MODULE MCQtClient ------------------------------
(* Small instances of QtClient for TLC: values for its constants. *)
EXTENDS QtProperties

\* Every word that can end up as a name, a password or an email.
Words == {"ann", "bob", "normal", "admin", "public", "private"}
SameWord == [w \in Words |-> w]

account(email) == [password |-> "bob", email |-> email, user_type |-> "normal",
                   profile_visibility |-> "public"]

\* Both have the password "bob".
TwoWords == {"ann", "bob"}
PlainWord == [w \in TwoWords |-> w]
TwoAccounts == [n \in {"ann", "bob"} |->
                   IF n = "ann" THEN account("normal") ELSE account("public")]
OneText == {<<"hi">>}
OneAccount == [n \in {"bob"} |-> account("normal")]

\* The main window, its dialogs, and another user who makes friends.
OneWord == {<<"ann">>, <<"bob">>}

\* The forms: one field may hold two words, or a blank.
SeveralWords == {<<"ann">>, <<"bob">>, <<"ann", " ", "bob">>}
OneMail == {<<"ann">>, <<" ">>}

\* The messages windows: a text of two lines, and another user who answers.
TwoLines == {<<"hi", "\n", "bob">>}
PeerLines == {<<"yes">>}
Lines == {<<"hi">>, <<"yes">>}

ASSUME DistinctTextsAssumption == DistinctTexts

===============================================================================
