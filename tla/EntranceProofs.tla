---------------------------- MODULE EntranceProofs ----------------------------
(***************************************************************************)
(* Theorems of the Qt program: its windows and the session the server      *)
(* keeps for it agree, and who registers can log in, for every value of    *)
(* the constants.                                                          *)
(***************************************************************************)
EXTENDS QtProperties, FiniteSetTheorems, SequenceTheorems, WellFoundedInduction,
        TLAPS

-------------------------------------------------------------------------------
(* Words *)

\* The places of a text before another one are finitely many.
LEMMA PlacesBefore ==
    ASSUME NEW S, NEW text \in Seq(S), NEW i \in DOMAIN text
    PROVE  IsFiniteSet({j \in wordsAt(text) : j <= i})
<1> DEFINE places == {j \in wordsAt(text) : j <= i}
<1>1. i \in Nat /\ places \in SUBSET (1..i)
    BY LenProperties DEF wordsAt
<1>2. IsFiniteSet(1..i)
    BY <1>1, FS_Interval
<1> QED
    BY <1>1, <1>2, FS_Subset

\* There is one n-th word at most: word finds it wherever it is.
LEMMA WordAt ==
    ASSUME NEW S, NEW text \in Seq(S), NEW n, NEW i \in nthWordAt(text, n)
    PROVE  nthWordAt(text, n) = {i} /\ word(text, n) = text[i]
<1> DEFINE before(k) == {j \in wordsAt(text) : j <= k}
<1>1. ASSUME NEW k \in nthWordAt(text, n), NEW l \in nthWordAt(text, n), k <= l
      PROVE  k = l
    <2>1. k \in before(k) /\ l \in before(l) /\ k \in Nat /\ l \in Nat
        BY <1>1, LenProperties DEF nthWordAt, wordsAt
    <2>2. before(k) \in SUBSET before(l)
        BY <1>1, LenProperties DEF wordsAt, nthWordAt
    <2>3. IsFiniteSet(before(l)) /\ Cardinality(before(l)) = Cardinality(before(k))
        BY <1>1, PlacesBefore DEF nthWordAt, wordsAt
    <2>4. before(k) = before(l)
        BY <2>2, <2>3, FS_Subset
    <2> QED
        BY <1>1, <2>1, <2>4
<1>2. \A k \in nthWordAt(text, n) : k = i
    BY <1>1, LenProperties DEF nthWordAt, wordsAt
<1> QED
    BY <1>2 DEF word

\* What a text starts with, when that is a word.
LEMMA FirstWord ==
    ASSUME NEW S, NEW text \in Seq(S), text # <<>>, isWord(text[1])
    PROVE  nthWordAt(text, 1) = {1} /\ word(text, 1) = text[1]
<1>1. Len(text) \in Nat \ {0} /\ DOMAIN text = 1..Len(text)
    BY EmptySeq, LenProperties
<1>2. {j \in wordsAt(text) : j <= 1} = {1}
    BY <1>1 DEF wordsAt
<1>3. 1 \in nthWordAt(text, 1)
    BY <1>1, <1>2, FS_Singleton DEF nthWordAt, wordsAt
<1> QED
    BY <1>3, WordAt

\* A set of numbers has a least one.
LEMMA LeastNumber ==
    ASSUME NEW T \in SUBSET Nat, T # {}
    PROVE  \E least \in T : \A y \in T : least <= y
<1>1. PICK least \in T : \A y \in T : <<y, least>> \notin OpToRel(<, Nat)
    BY NatLessThanWellFounded, WFMin
<1>2. \A y \in T : ~(y < least)
    BY <1>1, Zenon DEF OpToRel
<1>3. \A y \in T : y \in Nat /\ least \in Nat
    OBVIOUS
<1> QED
    BY <1>2, <1>3

\* A text with words in it has a first one.
LEMMA SomeFirstWord ==
    ASSUME NEW S, NEW text \in Seq(S), wordsAt(text) # {}
    PROVE  \E k \in wordsAt(text) :
              nthWordAt(text, 1) = {k} /\ \A j \in wordsAt(text) : k <= j
<1>1. wordsAt(text) \in SUBSET Nat
    BY LenProperties DEF wordsAt
<1>2. PICK k \in wordsAt(text) : \A j \in wordsAt(text) : k <= j
    BY <1>1, LeastNumber
<1>3. {j \in wordsAt(text) : j <= k} = {k}
    BY <1>1, <1>2
<1>4. k \in nthWordAt(text, 1)
    BY <1>3, FS_Singleton DEF nthWordAt
<1> QED
    BY <1>2, <1>4, WordAt

LEMMA NoWords ==
    ASSUME NEW text, wordsAt(text) = {}
    PROVE  words(text) = <<>>
<1>1. Cardinality(wordsAt(text)) = 0
    BY FS_EmptySet
<1> QED
    BY <1>1 DEF words

-------------------------------------------------------------------------------
(* The texts of the login and the registration *)

\* What these texts are made of.  The provers do not know that a literal is
\* a member of STRING.
Item == STRING \cup {"login", "register", "send", blank} \cup UserType
            \cup ProfileVisibility

LEMMA TypedItems == Seq(STRING) \subseteq Seq(Item)
BY SeqMonotonic DEF Item

registerText(name, pass, mail, role, visibility) ==
    <<"register", blank>> \o name \o <<blank>> \o pass \o <<blank>> \o mail
        \o <<blank, role, blank, visibility>>

LEMMA TwoThings ==
    ASSUME NEW a, NEW b, a # b
    PROVE  IsFiniteSet({a, b}) /\ Cardinality({a, b}) = 2
<1>1. IsFiniteSet({a}) /\ Cardinality({a}) = 1
    BY FS_Singleton
<1>2. {a, b} = {a} \cup {b} /\ b \notin {a}
    OBVIOUS
<1>3. IsFiniteSet({a} \cup {b}) /\ Cardinality({a} \cup {b}) = Cardinality({a}) + 1
    BY <1>1, <1>2, FS_AddElement
<1> QED
    BY <1>1, <1>2, <1>3

LEMMA ThreeThings ==
    ASSUME NEW a, NEW b, NEW c, a # b, a # c, b # c
    PROVE  Cardinality({a, b, c}) = 3
<1>1. {a, b, c} = {a, b} \cup {c} /\ c \notin {a, b}
    OBVIOUS
<1>2. Cardinality({a, b} \cup {c}) = Cardinality({a, b}) + 1
    BY <1>1, TwoThings, FS_AddElement
<1> QED
    BY <1>1, <1>2, TwoThings

\* One text after the other.
IsJoin(whole, r, s) ==
    /\ Len(r) \in Nat /\ Len(s) \in Nat /\ Len(whole) = Len(r) + Len(s)
    /\ \A i \in 1..Len(r) : whole[i] = r[i]
    /\ \A i \in 1..Len(s) : whole[Len(r) + i] = s[i]

LEMMA Joined ==
    ASSUME NEW S, NEW r \in Seq(S), NEW s \in Seq(S)
    PROVE  r \o s \in Seq(S) /\ IsJoin(r \o s, r, s)
BY ConcatProperties, LenProperties DEF IsJoin

\* The text of a form: a command, a name, a password and maybe more.
Starts(text, cmd, name, pass) ==
    /\ Len(name) \in Nat /\ Len(pass) \in Nat /\ Len(text) \in Nat
    /\ Len(text) >= Len(name) + Len(pass) + 3
    /\ text[1] = cmd /\ isWord(cmd) /\ text[2] = blank
    /\ \A i \in 1..Len(name) : text[i + 2] = name[i]
    /\ text[Len(name) + 3] = blank
    /\ \A i \in 1..Len(pass) : text[Len(name) + 3 + i] = pass[i]

LEMMA FormText ==
    ASSUME NEW cmd \in Item, isWord(cmd),
           NEW name \in Seq(Item), NEW pass \in Seq(Item),
           NEW text, text = <<cmd, blank>> \o name \o <<blank>> \o pass
    PROVE  text \in Seq(Item) /\ Starts(text, cmd, name, pass)
<1> DEFINE start == <<cmd, blank>>
           between == <<blank>>
           front == start \o name
           middle == front \o between
<1>1. start \in Seq(Item) /\ between \in Seq(Item)
    <2>1. blank \in Item
        BY DEF Item
    <2> QED
        BY <2>1
<1>2. /\ Len(start) = 2 /\ start[1] = cmd /\ start[2] = blank
      /\ Len(between) = 1 /\ between[1] = blank
    OBVIOUS
<1> HIDE DEF start, between
<1>3. front \in Seq(Item) /\ IsJoin(front, start, name)
    BY <1>1, Joined
<1> HIDE DEF front
<1>4. middle \in Seq(Item) /\ IsJoin(middle, front, between)
    BY <1>1, <1>3, Joined
<1> HIDE DEF middle
<1>5. text \in Seq(Item) /\ IsJoin(text, middle, pass)
    <2>1. text = middle \o pass
        BY DEF front, middle, start, between
    <2> QED
        BY <2>1, <1>4, Joined
<1>6. /\ Len(name) \in Nat /\ Len(pass) \in Nat
      /\ Len(front) = Len(name) + 2 /\ Len(middle) = Len(name) + 3
    BY <1>2, <1>3, <1>4, <1>5 DEF IsJoin
<1>7. /\ \A i \in 1..(Len(name) + 2) : text[i] = front[i]
      /\ text[Len(name) + 3] = blank
    BY <1>2, <1>4, <1>5, <1>6 DEF IsJoin
<1>8. text[1] = cmd /\ text[2] = blank
    BY <1>2, <1>3, <1>6, <1>7 DEF IsJoin
<1>9. \A i \in 1..Len(name) : text[i + 2] = name[i]
    <2> TAKE i \in 1..Len(name)
    <2>1. front[2 + i] = name[i]
        BY <1>2, <1>3 DEF IsJoin
    <2> QED
        BY <2>1, <1>6, <1>7
<1>10. /\ Len(text) = Len(name) + Len(pass) + 3
       /\ \A i \in 1..Len(pass) : text[Len(name) + 3 + i] = pass[i]
    BY <1>5, <1>6 DEF IsJoin
<1> QED
    BY <1>5, <1>6, <1>7, <1>8, <1>9, <1>10 DEF Starts

\* The name's first word is the text's second.
LEMMA SecondWord ==
    ASSUME NEW name \in Seq(Item), NEW pass \in Seq(Item), wordsAt(name) # {},
           NEW text \in Seq(Item), NEW cmd, Starts(text, cmd, name, pass)
    PROVE  \E k \in nthWordAt(text, 2) :
              /\ 1 < k /\ k <= Len(name) + 2 /\ text[k] = word(name, 1)
              /\ {j \in wordsAt(text) : j <= k} = {1, k}
<1>1. PICK k \in wordsAt(name) :
          nthWordAt(name, 1) = {k} /\ \A j \in wordsAt(name) : k <= j
    BY SomeFirstWord
<1>2. /\ k \in 1..Len(name) /\ Len(name) \in Nat /\ Len(pass) \in Nat
      /\ isWord(name[k]) /\ word(name, 1) = name[k]
    <2>1. k \in nthWordAt(name, 1) /\ k \in DOMAIN name /\ isWord(name[k])
        BY <1>1 DEF wordsAt
    <2> QED
        BY <2>1, WordAt, LenProperties DEF Starts
<1>3. DOMAIN text = 1..Len(text)
    BY LenProperties
<1>4. {j \in wordsAt(text) : j <= k + 2} = {1, k + 2}
    <2>1. 1 \in wordsAt(text) /\ k + 2 \in wordsAt(text)
        <3>1. isWord(text[1])
            BY DEF Starts
        <3>2. isWord(text[k + 2])
            BY <1>2 DEF Starts
        <3>3. 1 \in 1..Len(text) /\ k + 2 \in 1..Len(text)
            BY <1>2 DEF Starts
        <3> QED
            BY <3>1, <3>2, <3>3, <1>3 DEF wordsAt
    <2>2. ASSUME NEW j \in wordsAt(text), j <= k + 2, j # 1
          PROVE  j = k + 2
        <3>1. j \in 3..(k + 2)
            BY <2>2, <1>2, <1>3 DEF Starts, wordsAt, isWord
        <3>2. text[j] = name[j - 2] /\ j - 2 \in 1..Len(name)
            BY <2>2, <3>1, <1>2 DEF Starts, wordsAt, isWord
        <3>3. j - 2 \in wordsAt(name)
            <4>1. isWord(text[j]) /\ DOMAIN name = 1..Len(name)
                BY <2>2, LenProperties DEF wordsAt
            <4> QED
                BY <3>2, <4>1 DEF wordsAt
        <3> QED
            BY <3>1, <3>3, <1>1, <1>2
    <2>3. 1 <= k + 2 /\ k + 2 <= k + 2
        BY <1>2
    <2> QED
        BY <2>1, <2>2, <2>3
<1>5. Cardinality({1, k + 2}) = 2
    <2>1. 1 # k + 2
        BY <1>2
    <2> QED
        BY <2>1, TwoThings
<1>6. k + 2 \in nthWordAt(text, 2)
    BY <1>4, <1>5, <1>2 DEF nthWordAt
<1> QED
    BY <1>2, <1>4, <1>6 DEF Starts

\* When the password has a word, too, the text has a third.
LEMMA ThirdWord ==
    ASSUME NEW name \in Seq(Item), NEW pass \in Seq(Item),
           wordsAt(name) # {}, wordsAt(pass) # {},
           NEW text \in Seq(Item), NEW cmd, Starts(text, cmd, name, pass)
    PROVE  \E p \in nthWordAt(text, 3) : 1 < p /\ p <= Len(name) + Len(pass) + 3
<1>1. PICK k \in nthWordAt(text, 2) :
          /\ 1 < k /\ k <= Len(name) + 2
          /\ {j \in wordsAt(text) : j <= k} = {1, k}
    BY SecondWord
<1>2. DOMAIN text = 1..Len(text) /\ wordsAt(text) \in SUBSET Nat
    BY LenProperties DEF wordsAt
<1>3. k \in Nat
    BY <1>2 DEF nthWordAt
<1>4. PICK i \in 1..Len(pass) : isWord(pass[i])
    BY LenProperties DEF wordsAt
<1> DEFINE later == {j \in wordsAt(text) : j > k}
<1>5. Len(name) + 3 + i \in later
    <2>1. isWord(text[Len(name) + 3 + i])
        BY <1>4 DEF Starts
    <2> QED
        BY <2>1, <1>1, <1>2, <1>3 DEF Starts, wordsAt
<1>6. PICK p \in later : \A j \in later : p <= j
    BY <1>2, <1>5, LeastNumber
<1>7. p \in Nat /\ 1 < p /\ p <= Len(name) + Len(pass) + 3
    BY <1>1, <1>2, <1>3, <1>5, <1>6 DEF Starts
<1>8. {j \in wordsAt(text) : j <= p} = {1, k, p}
    <2>1. ASSUME NEW j \in wordsAt(text), j <= p
          PROVE  j \in {1, k, p}
        <3>1. CASE j <= k
            BY <3>1, <1>1
        <3>2. CASE j > k
            BY <3>2, <2>1, <1>2, <1>6, <1>7
        <3> QED
            BY <3>1, <3>2, <1>2, <1>3
    <2>2. {1, k, p} \subseteq wordsAt(text) /\ k <= p /\ 1 <= p /\ p <= p
        BY <1>1, <1>2, <1>3, <1>6, <1>7
    <2> QED
        BY <2>1, <2>2
<1>9. Cardinality({1, k, p}) = 3
    <2>1. 1 # k /\ 1 # p /\ k # p
        BY <1>1, <1>3, <1>6, <1>7
    <2> QED
        BY <2>1, ThreeThings
<1>10. p \in nthWordAt(text, 3)
    BY <1>6, <1>8, <1>9 DEF nthWordAt
<1> QED
    BY <1>7, <1>10

\* Whatever the command, the words of the two fields come in the same places.
LEMMA SameWords ==
    ASSUME NEW name \in Seq(Item), NEW pass \in Seq(Item),
           NEW text \in Seq(Item), NEW cmd, Starts(text, cmd, name, pass),
           NEW other \in Seq(Item), NEW cmd2, Starts(other, cmd2, name, pass),
           NEW n, NEW k \in nthWordAt(text, n),
           1 < k, k <= Len(name) + Len(pass) + 3
    PROVE  word(other, n) = word(text, n)
<1>1. DOMAIN text = 1..Len(text) /\ DOMAIN other = 1..Len(other)
    BY LenProperties
<1>2. ASSUME NEW i \in Nat, 1 < i, i <= Len(name) + Len(pass) + 3
      PROVE  other[i] = text[i]
    <2>1. CASE i = 2 \/ i = Len(name) + 3
        BY <2>1 DEF Starts
    <2>2. CASE i > 2 /\ i < Len(name) + 3
        <3>1. i - 2 \in 1..Len(name) /\ i = (i - 2) + 2
            BY <2>2 DEF Starts
        <3> QED
            BY <3>1 DEF Starts
    <2>3. CASE i > Len(name) + 3
        <3>1. /\ i - Len(name) - 3 \in 1..Len(pass)
              /\ i = Len(name) + 3 + (i - Len(name) - 3)
            BY <2>3, <1>2 DEF Starts
        <3> QED
            BY <3>1 DEF Starts
    <2> QED
        BY <1>2, <2>1, <2>2, <2>3 DEF Starts
<1>3. k \in Nat /\ k \in wordsAt(text)
    BY <1>1 DEF nthWordAt, wordsAt
<1>4. {j \in wordsAt(other) : j <= k} = {j \in wordsAt(text) : j <= k}
    <2>1. ASSUME NEW j \in Nat, j >= 1, j <= k
          PROVE  j \in wordsAt(other) <=> j \in wordsAt(text)
        <3>1. j \in DOMAIN text /\ j \in DOMAIN other
            BY <2>1, <1>1, <1>3 DEF Starts
        <3>2. CASE j = 1
            BY <3>1, <3>2 DEF wordsAt, Starts
        <3>3. CASE j > 1
            <4>1. other[j] = text[j]
                BY <2>1, <3>3, <1>2, <1>3 DEF Starts
            <4> QED
                BY <3>1, <4>1 DEF wordsAt
        <3> QED
            BY <2>1, <3>2, <3>3
    <2>2. \A j \in wordsAt(other) \cup wordsAt(text) : j \in Nat /\ j >= 1
        BY <1>1 DEF wordsAt, Starts
    <2> QED
        BY <2>1, <2>2
<1>5. k \in nthWordAt(other, n)
    <2>1. k \in wordsAt(other)
        BY <1>3, <1>4
    <2> QED
        BY <2>1, <1>4 DEF nthWordAt
<1> QED
    BY <1>2, <1>3, <1>5, WordAt

LEMMA JoinStarts ==
    ASSUME NEW name, NEW pass, NEW cmd, NEW text \in Seq(Item), NEW more \in Seq(Item),
           Starts(text, cmd, name, pass)
    PROVE  text \o more \in Seq(Item) /\ Starts(text \o more, cmd, name, pass)
<1> DEFINE whole == text \o more
<1>1. whole \in Seq(Item) /\ IsJoin(whole, text, more)
    BY Joined
<1> HIDE DEF whole
<1>2. Len(whole) \in Nat /\ Len(whole) >= Len(name) + Len(pass) + 3
    BY <1>1 DEF IsJoin, Starts
<1>3. \A i \in 1..(Len(name) + Len(pass) + 3) : whole[i] = text[i]
    BY <1>1 DEF IsJoin, Starts
<1>4. whole[1] = cmd /\ whole[2] = blank /\ whole[Len(name) + 3] = blank
    BY <1>3 DEF Starts
<1>5. \A i \in 1..Len(name) : whole[i + 2] = name[i]
    BY <1>3 DEF Starts
<1>6. \A i \in 1..Len(pass) : whole[Len(name) + 3 + i] = pass[i]
    BY <1>3 DEF Starts
<1>7. Starts(whole, cmd, name, pass)
    BY <1>2, <1>4, <1>5, <1>6 DEF Starts
<1> QED
    BY <1>1, <1>7 DEF whole

LEMMA LoginForm ==
    ASSUME NEW name \in Seq(Item), NEW pass \in Seq(Item)
    PROVE  /\ loginText(name, pass) \in Seq(Item)
           /\ Starts(loginText(name, pass), "login", name, pass)
<1>1. "login" \in Item /\ isWord("login")
    BY DEF Item, isWord, blank, newline
<1> QED
    BY <1>1, FormText DEF loginText

LEMMA RegisterForm ==
    ASSUME NEW name \in Seq(Item), NEW pass \in Seq(Item), NEW mail \in Seq(Item),
           NEW role \in UserType, NEW visibility \in ProfileVisibility
    PROVE  /\ registerText(name, pass, mail, role, visibility) \in Seq(Item)
           /\ Starts(registerText(name, pass, mail, role, visibility),
                     "register", name, pass)
<1> DEFINE form == <<"register", blank>> \o name \o <<blank>> \o pass
           between == <<blank>>
           last == <<blank, role, blank, visibility>>
<1>1. "register" \in Item /\ isWord("register") /\ blank \in Item
    BY DEF Item, isWord, blank, newline
<1>2. role \in Item /\ visibility \in Item
    BY DEF Item
<1>3. between \in Seq(Item) /\ last \in Seq(Item)
    BY <1>1, <1>2
<1>4. form \in Seq(Item) /\ Starts(form, "register", name, pass)
    BY <1>1, FormText
<1> HIDE DEF form, between, last
<1>5. form \o between \in Seq(Item) /\ Starts(form \o between, "register", name, pass)
    BY <1>3, <1>4, JoinStarts
<1>6. /\ form \o between \o mail \in Seq(Item)
      /\ Starts(form \o between \o mail, "register", name, pass)
    BY <1>5, JoinStarts
<1>7. /\ form \o between \o mail \o last \in Seq(Item)
      /\ Starts(form \o between \o mail \o last, "register", name, pass)
    BY <1>3, <1>6, JoinStarts
<1> QED
    BY <1>7 DEF registerText, form, between, last

LEMMA FormCommand ==
    ASSUME NEW name, NEW pass, NEW cmd, NEW text \in Seq(Item),
           Starts(text, cmd, name, pass)
    PROVE  word(text, 1) = cmd
<1>1. text # <<>> /\ text[1] = cmd /\ isWord(cmd)
    BY EmptySeq DEF Starts
<1> QED
    BY <1>1, FirstWord

\* The name that logs in is the first word of the field for the name.
LEMMA LoginWords ==
    ASSUME NEW name \in Seq(Item), NEW pass \in Seq(Item)
    PROVE  /\ word(loginText(name, pass), 1) = "login"
           /\ words(name) # <<>> => word(loginText(name, pass), 2) = word(name, 1)
<1> DEFINE text == loginText(name, pass)
<1>1. text \in Seq(Item) /\ Starts(text, "login", name, pass)
    BY LoginForm
<1> HIDE DEF text
<1>2. word(text, 1) = "login"
    BY <1>1, FormCommand
<1>3. ASSUME words(name) # <<>>
      PROVE  word(text, 2) = word(name, 1)
    <2>1. wordsAt(name) # {}
        BY <1>3, NoWords
    <2>2. PICK k \in nthWordAt(text, 2) : text[k] = word(name, 1)
        BY <2>1, <1>1, SecondWord
    <2> QED
        BY <2>2, <1>1, WordAt
<1> QED
    BY <1>2, <1>3 DEF text

\* A registration and a login with the same in both fields name the same
\* account and the same password.
LEMMA RegisterAndLoginWords ==
    ASSUME NEW name \in Seq(Item), NEW pass \in Seq(Item), NEW mail \in Seq(Item),
           NEW role \in UserType, NEW visibility \in ProfileVisibility,
           words(name) # <<>>, words(pass) # <<>>,
           NEW text, text = registerText(name, pass, mail, role, visibility)
    PROVE  /\ word(loginText(name, pass), 2) = word(text, 2)
           /\ word(loginText(name, pass), 3) = word(text, 3)
<1> DEFINE form == loginText(name, pass)
<1>1. text \in Seq(Item) /\ Starts(text, "register", name, pass)
    BY RegisterForm
<1>2. form \in Seq(Item) /\ Starts(form, "login", name, pass)
    BY LoginForm
<1> HIDE DEF form
<1>3. wordsAt(name) # {} /\ wordsAt(pass) # {}
    BY NoWords
<1>4. PICK k \in nthWordAt(text, 2) : 1 < k /\ k <= Len(name) + 2
    BY <1>1, <1>3, SecondWord
<1>5. PICK p \in nthWordAt(text, 3) : 1 < p /\ p <= Len(name) + Len(pass) + 3
    BY <1>1, <1>3, ThirdWord
<1>6. k <= Len(name) + Len(pass) + 3
    <2>1. k \in Nat
        BY <1>1, LenProperties DEF nthWordAt, wordsAt
    <2> QED
        BY <2>1, <1>1, <1>4 DEF Starts
<1>7. word(form, 2) = word(text, 2)
    BY <1>1, <1>2, <1>4, <1>6, SameWords
<1>8. word(form, 3) = word(text, 3)
    BY <1>1, <1>2, <1>5, SameWords
<1> QED
    BY <1>7, <1>8 DEF form

-------------------------------------------------------------------------------
(* Commands and the calls of a handler *)

IsSeq(s) == s \in Seq({s[i] : i \in DOMAIN s})

\* A text whose first word is cmd, nothing before it.
IsCommand(text, cmd) == IsSeq(text) /\ text # <<>> /\ text[1] = cmd

LEMMA SomeSeq ==
    ASSUME NEW S, NEW s \in Seq(S)
    PROVE  IsSeq(s)
<1> DEFINE T == {s[i] : i \in DOMAIN s}
<1>1. Len(s) \in Int /\ \A i \in 1..Len(s) : s[i] \in T
    BY LenProperties
<1>2. SubSeq(s, 1, Len(s)) = s
    BY SubSeqFull
<1> HIDE DEF T
<1>3. SubSeq(s, 1, Len(s)) \in Seq(T)
    BY <1>1, SubSeqProperties
<1> QED
    BY <1>2, <1>3 DEF IsSeq, T

LEMMA CommandWord ==
    ASSUME NEW text, NEW cmd, IsCommand(text, cmd), isWord(cmd)
    PROVE  word(text, 1) = cmd
BY FirstWord DEF IsCommand, IsSeq

LEMMA CommandOnly ==
    ASSUME NEW cmd
    PROVE  IsCommand(<<cmd>>, cmd)
<1>1. <<cmd>> \in Seq({cmd}) /\ <<cmd>> # <<>> /\ <<cmd>>[1] = cmd
    OBVIOUS
<1> QED
    BY <1>1, SomeSeq DEF IsCommand

LEMMA CommandAndBlank ==
    ASSUME NEW cmd
    PROVE  IsCommand(<<cmd, blank>>, cmd)
<1>1. <<cmd, blank>> \in Seq({cmd, blank}) /\ <<cmd, blank>> # <<>> /\ <<cmd, blank>>[1] = cmd
    OBVIOUS
<1> QED
    BY <1>1, SomeSeq DEF IsCommand

LEMMA CommandAndArgument ==
    ASSUME NEW cmd, NEW argument
    PROVE  /\ IsCommand(<<cmd, blank, argument>>, cmd)
           /\ IsCommand(<<cmd, blank, argument, blank>>, cmd)
<1> DEFINE S == {cmd, blank, argument}
<1>1. /\ <<cmd, blank, argument>> \in Seq(S)
      /\ <<cmd, blank, argument>> # <<>> /\ <<cmd, blank, argument>>[1] = cmd
    OBVIOUS
<1>2. /\ <<cmd, blank, argument, blank>> \in Seq(S)
      /\ <<cmd, blank, argument, blank>> # <<>>
      /\ <<cmd, blank, argument, blank>>[1] = cmd
    OBVIOUS
<1> QED
    BY <1>1, <1>2, SomeSeq DEF IsCommand

LEMMA CommandAndMore ==
    ASSUME NEW text, NEW cmd, IsCommand(text, cmd), NEW more, IsSeq(more)
    PROVE  IsCommand(text \o more, cmd)
<1> DEFINE S == {text[i] : i \in DOMAIN text}
           T == {more[i] : i \in DOMAIN more}
           whole == text \o more
<1>1. text \in Seq(S \cup T) /\ more \in Seq(S \cup T)
    BY SeqMonotonic DEF IsCommand, IsSeq
<1>2. whole \in Seq(S \cup T) /\ IsJoin(whole, text, more)
    BY <1>1, Joined
<1>3. Len(text) >= 1
    BY <1>1, EmptySeq DEF IsCommand
<1> HIDE DEF whole
<1>4. whole[1] = cmd /\ Len(whole) >= 1
    BY <1>2, <1>3 DEF IsJoin, IsCommand
<1>5. whole # <<>>
    BY <1>4, EmptySeq
<1> QED
    BY <1>2, <1>4, <1>5, SomeSeq DEF IsCommand, whole

\* The calls that change neither the session nor an account nor a message.
Special == {"login", "logout", "register", "send"}

PlainCall(c) == c.do \notin Special /\ word(c.text, 1) \notin Special

PlainCalls(calls) == IsSeq(calls) /\ \A i \in DOMAIN calls : PlainCall(calls[i])

LEMMA PlainNone == PlainCalls(<<>>)
<1>1. <<>> \in Seq({}) /\ DOMAIN <<>> = {}
    OBVIOUS
<1> QED
    BY <1>1, SomeSeq DEF PlainCalls

LEMMA PlainOne ==
    ASSUME NEW c, PlainCall(c)
    PROVE  PlainCalls(<<c>>)
<1>1. <<c>> \in Seq({c})
    OBVIOUS
<1>2. IsSeq(<<c>>)
    BY <1>1, SomeSeq
<1>3. \A i \in DOMAIN <<c>> : PlainCall(<<c>>[i])
    OBVIOUS
<1> QED
    BY <1>2, <1>3 DEF PlainCalls

LEMMA PlainTwo ==
    ASSUME NEW c, NEW d, PlainCall(c), PlainCall(d)
    PROVE  PlainCalls(<<c, d>>)
<1>1. <<c, d>> \in Seq({c, d})
    OBVIOUS
<1>2. IsSeq(<<c, d>>)
    BY <1>1, SomeSeq
<1>3. \A i \in DOMAIN <<c, d>> : PlainCall(<<c, d>>[i])
    OBVIOUS
<1> QED
    BY <1>2, <1>3 DEF PlainCalls

LEMMA PlainJoin ==
    ASSUME NEW calls, NEW more, PlainCalls(calls), PlainCalls(more)
    PROVE  PlainCalls(calls \o more)
<1> DEFINE S == {c \in {calls[i] : i \in DOMAIN calls} \cup {more[i] : i \in DOMAIN more} :
                    PlainCall(c)}
           whole == calls \o more
<1>1. calls \in Seq(S) /\ more \in Seq(S)
    <2>1. /\ {calls[i] : i \in DOMAIN calls} \subseteq S
          /\ {more[i] : i \in DOMAIN more} \subseteq S
        BY DEF PlainCalls
    <2> QED
        BY <2>1, SeqMonotonic DEF PlainCalls, IsSeq
<1>2. whole \in Seq(S)
    BY <1>1, ConcatProperties
<1> HIDE DEF whole
<1>3. \A i \in DOMAIN whole : whole[i] \in S
    BY <1>2, LenProperties, ElementOfSeq
<1> QED
    BY <1>2, <1>3, SomeSeq DEF PlainCalls, whole

LEMMA PlainTail ==
    ASSUME NEW calls, PlainCalls(calls), calls # <<>>
    PROVE  PlainCalls(Tail(calls)) /\ PlainCall(Head(calls))
<1> DEFINE S == {c \in {calls[i] : i \in DOMAIN calls} : PlainCall(c)}
           rest == Tail(calls)
<1>1. calls \in Seq(S)
    <2>1. {calls[i] : i \in DOMAIN calls} \subseteq S
        BY DEF PlainCalls
    <2> QED
        BY <2>1, SeqMonotonic DEF PlainCalls, IsSeq
<1>2. rest \in Seq(S) /\ Head(calls) \in S
    BY <1>1, HeadTailProperties
<1> HIDE DEF rest
<1>3. \A i \in DOMAIN rest : rest[i] \in S
    BY <1>2, LenProperties, ElementOfSeq
<1> QED
    BY <1>2, <1>3, SomeSeq DEF PlainCalls, rest

-------------------------------------------------------------------------------
(* What the commands change of the sessions, the accounts and the messages *)

Quiet == UNCHANGED <<sessions, users, messages>>

RowsHavePasswords == \A u \in DOMAIN users : "password" \in DOMAIN users[u]

AccountsKept ==
    \A u \in DOMAIN users :
        u \in DOMAIN users' /\ users'[u].password = users[u].password

\* One more message, or none.
OneMessageMore(contents) ==
    \/ UNCHANGED messages
    \/ \E c \in contents : \E conversation_id, sender :
          messages' = Append(messages, [conversation_id |-> conversation_id,
                                        sender |-> sender, content |-> c])

\* What a command on the connection sd leaves alone, with contents it may write.
ServedOn(sd, contents) ==
    /\ DOMAIN sessions' = DOMAIN sessions
    /\ \A d \in DOMAIN sessions : d # sd => sessions'[d] = sessions[d]
    /\ AccountsKept /\ RowsHavePasswords'
    /\ OneMessageMore(contents)

LEMMA QuietServes ==
    ASSUME RowsHavePasswords, Quiet, NEW sd, NEW contents
    PROVE  ServedOn(sd, contents)
BY DEF Quiet, RowsHavePasswords, ServedOn, AccountsKept, OneMessageMore

LEMMA RefuseIsQuiet ==
    ASSUME NEW sd, Refuse(sd)
    PROVE  Quiet
BY DEF Refuse, Quiet, sessionVars, databaseVars, messagingVars

LEMMA QueryIsQuiet ==
    ASSUME NEW sd, NEW kind, NEW rows, Query(sd, kind, rows)
    PROVE  Quiet
BY DEF Query, Quiet, sessionVars, databaseVars, messagingVars

LEMMA LoginServes ==
    ASSUME RowsHavePasswords, NEW sd, NEW name, NEW password, NEW contents,
           LoginCommand(sd, name, password)
    PROVE  ServedOn(sd, contents)
<1>1. CASE Refuse(sd)
    BY <1>1, RefuseIsQuiet, QuietServes
<1>2. CASE login(sd, name) /\ UNCHANGED databaseVars
    BY <1>2 DEF login, databaseVars, messagingVars, ServedOn, AccountsKept,
                RowsHavePasswords, OneMessageMore
<1> QED
    BY <1>1, <1>2 DEF LoginCommand

LEMMA LogoutServes ==
    ASSUME RowsHavePasswords, NEW sd, NEW contents, LogoutCommand(sd)
    PROVE  ServedOn(sd, contents)
<1>1. CASE Refuse(sd)
    BY <1>1, RefuseIsQuiet, QuietServes
<1>2. CASE logout(sd) /\ UNCHANGED databaseVars
    BY <1>2 DEF logout, databaseVars, messagingVars, ServedOn, AccountsKept,
                RowsHavePasswords, OneMessageMore
<1> QED
    BY <1>1, <1>2 DEF LogoutCommand

\* A changed visibility leaves the password of every row.
LEMMA VisibilityKeepsPasswords ==
    ASSUME NEW table, \A u \in DOMAIN table : "password" \in DOMAIN table[u],
           NEW name, NEW v, NEW new, new = updateProfileVisibility(table, name, v)
    PROVE  /\ DOMAIN new = DOMAIN table
           /\ \A u \in DOMAIN table :
                 "password" \in DOMAIN new[u] /\ new[u].password = table[u].password
BY DEF updateProfileVisibility

LEMMA SetVisibilityServes ==
    ASSUME RowsHavePasswords, NEW sd, NEW v, NEW contents,
           SetProfileVisibilityCommand(sd, v)
    PROVE  ServedOn(sd, contents)
<1>1. CASE Refuse(sd)
    BY <1>1, RefuseIsQuiet, QuietServes
<1>2. CASE /\ users' = updateProfileVisibility(users, getUsername(sd), v)
           /\ UNCHANGED <<sessionVars, messagingVars>>
    <2>1. AccountsKept /\ RowsHavePasswords'
        BY <1>2, VisibilityKeepsPasswords DEF AccountsKept, RowsHavePasswords
    <2> QED
        BY <1>2, <2>1 DEF sessionVars, messagingVars, ServedOn, OneMessageMore
<1> QED
    BY <1>1, <1>2 DEF SetProfileVisibilityCommand

\* Whoever is registered can be authenticated with the name and the password given.
LEMMA RegisterServes ==
    ASSUME RowsHavePasswords, NEW sd, NEW name, NEW password, NEW email, NEW role,
           NEW visibility, NEW contents,
           RegisterCommand(sd, name, password, email, role, visibility)
    PROVE  /\ ServedOn(sd, contents)
           /\ \/ response'.kind = "ERROR"
              \/ /\ response'.kind = "OK" /\ password # Empty
                 /\ name \in DOMAIN users'
                 /\ users'[name].password = Hashpassword(password)
<1>1. CASE Refuse(sd)
    <2>1. response'.kind = "ERROR"
        BY <1>1 DEF Refuse, Reply
    <2> QED
        BY <1>1, <2>1, RefuseIsQuiet, QuietServes
<1>2. CASE /\ password # Empty /\ uniqueUser(name, email)
           /\ users' = updateProfileVisibility(
                           insertUser(users, name, password, email, role),
                           name, visibility)
           /\ OK(sd) /\ UNCHANGED <<sessionVars, messagingVars>>
    <2> DEFINE row == [password |-> Hashpassword(password), email |-> email,
                       user_type |-> role, profile_visibility |-> "public"]
               table == insertUser(users, name, password, email, role)
    <2>1. /\ DOMAIN table = DOMAIN users \cup {name}
          /\ table[name] = row
          /\ \A u \in DOMAIN users : u # name => table[u] = users[u]
        BY DEF insertUser, Insert
    <2>2. "password" \in DOMAIN row /\ row.password = Hashpassword(password)
        OBVIOUS
    <2>3. \A u \in DOMAIN table : "password" \in DOMAIN table[u]
        BY <2>1, <2>2 DEF RowsHavePasswords
    <2> HIDE DEF table, row
    <2>4. /\ DOMAIN users' = DOMAIN table
          /\ \A u \in DOMAIN table :
                "password" \in DOMAIN users'[u] /\ users'[u].password = table[u].password
        BY <1>2, <2>3, VisibilityKeepsPasswords DEF table
    <2>5. AccountsKept /\ RowsHavePasswords'
        BY <1>2, <2>1, <2>4 DEF AccountsKept, RowsHavePasswords, uniqueUser
    <2>6. name \in DOMAIN users' /\ users'[name].password = Hashpassword(password)
        BY <2>1, <2>2, <2>4
    <2>7. response'.kind = "OK"
        BY <1>2 DEF OK, Reply
    <2>8. ServedOn(sd, contents)
        BY <1>2, <2>5 DEF sessionVars, messagingVars, ServedOn, OneMessageMore
    <2> QED
        BY <1>2, <2>6, <2>7, <2>8
<1> QED
    BY <1>1, <1>2 DEF RegisterCommand

LEMMA SendServes ==
    ASSUME RowsHavePasswords, NEW sd, NEW line, NEW contents, line \in contents,
           SendCommand(sd, line)
    PROVE  ServedOn(sd, contents)
<1>1. CASE Refuse(sd)
    BY <1>1, RefuseIsQuiet, QuietServes
<1>2. CASE /\ sendMessage(getCurrentConversation(sd), getUsername(sd), line)
           /\ UNCHANGED <<sessionVars, users>>
    BY <1>2 DEF sendMessage, sessionVars, ServedOn, AccountsKept, RowsHavePasswords,
                OneMessageMore
<1> QED
    BY <1>1, <1>2 DEF SendCommand

LEMMA FriendCommandsAreQuiet ==
    ASSUME NEW sd, NEW name, NEW type
    PROVE  /\ FriendRequestCommand(sd, name) => Quiet
           /\ AcceptFriendCommand(sd, name) => Quiet
           /\ SetFriendTypeCommand(sd, name, type) => Quiet
           /\ ListFriendsCommand(sd) => Quiet
           /\ ListFriendRequestsCommand(sd) => Quiet
<1> USE RefuseIsQuiet, QueryIsQuiet DEF sessionVars, messagingVars
<1>1. FriendRequestCommand(sd, name) => Quiet
    BY DEF FriendRequestCommand, Quiet
<1>2. AcceptFriendCommand(sd, name) => Quiet
    BY DEF AcceptFriendCommand, Quiet
<1>3. SetFriendTypeCommand(sd, name, type) => Quiet
    BY DEF SetFriendTypeCommand, Quiet
<1>4. ListFriendsCommand(sd) => Quiet
    BY DEF ListFriendsCommand
<1>5. ListFriendRequestsCommand(sd) => Quiet
    BY DEF ListFriendRequestsCommand
<1> QED
    BY <1>1, <1>2, <1>3, <1>4, <1>5

LEMMA PostCommandsAreQuiet ==
    ASSUME NEW sd, NEW visibility, NEW text
    PROVE  /\ CreatePostCommand(sd, visibility, text) => Quiet
           /\ ListPostsCommand(sd) => Quiet
<1>1. CreatePostCommand(sd, visibility, text) => Quiet
    BY RefuseIsQuiet DEF CreatePostCommand, Quiet, sessionVars, messagingVars
<1>2. ListPostsCommand(sd) => Quiet
    BY DEF ListPostsCommand, Quiet, sessionVars, databaseVars, messagingVars
<1> QED
    BY <1>1, <1>2

LEMMA ConversationCommandsAreQuiet ==
    ASSUME NEW sd, NEW name, NEW names, NEW id
    PROVE  /\ ChatCommand(sd, name) => Quiet
           /\ ChatsCommand(sd) => Quiet
           /\ OpenCommand(sd, id) => Quiet
           /\ ShowCommand(sd) => Quiet
           /\ GroupCommand(sd, names) => Quiet
           /\ AddCommand(sd, name) => Quiet
<1> USE RefuseIsQuiet DEF sessionVars, databaseVars, messagingVars
<1>1. ChatCommand(sd, name) => Quiet
    BY DEF ChatCommand, Quiet
<1>2. ChatsCommand(sd) => Quiet
    BY QueryIsQuiet DEF ChatsCommand
<1>3. OpenCommand(sd, id) => Quiet
    BY DEF OpenCommand, openConversation, Quiet
<1>4. ShowCommand(sd) => Quiet
    BY DEF ShowCommand, Quiet
<1>5. GroupCommand(sd, names) => Quiet
    BY DEF GroupCommand, openConversation, Quiet
<1>6. AddCommand(sd, name) => Quiet
    BY DEF AddCommand, Quiet
<1> QED
    BY <1>1, <1>2, <1>3, <1>4, <1>5, <1>6

\* What any client may have the server do.
LEMMA ServeServes ==
    ASSUME RowsHavePasswords, NEW sd, Serve(sd)
    PROVE  ServedOn(sd, Content)
<1>1. CASE UnknownCommand(sd)
    BY <1>1, RefuseIsQuiet, QuietServes DEF UnknownCommand
<1>2. CASE AccountCommand(sd)
    BY <1>2, LoginServes, RegisterServes, LogoutServes, SetVisibilityServes
    DEF AccountCommand
<1>3. CASE FriendCommand(sd)
    BY <1>3, FriendCommandsAreQuiet, QuietServes DEF FriendCommand
<1>4. CASE PostCommand(sd)
    BY <1>4, PostCommandsAreQuiet, QuietServes DEF PostCommand
<1>5. CASE MessagingCommand(sd)
    BY <1>5, ConversationCommandsAreQuiet, SendServes, QuietServes DEF MessagingCommand
<1> QED
    BY <1>1, <1>2, <1>3, <1>4, <1>5 DEF Serve

\* What a text has the server do, by its first word.
LEMMA ExecuteCases ==
    ASSUME NEW sd, NEW text, execute(sd, text)
    PROVE  /\ word(text, 1) = "login" =>
                 LoginCommand(sd, word(text, 2), word(text, 3))
           /\ word(text, 1) = "register" => RegisterWords(sd, text)
           /\ word(text, 1) = "logout" => LogoutCommand(sd)
           /\ word(text, 1) = "set_visibility" =>
                 SetProfileVisibilityCommand(sd, word(text, 2))
           /\ word(text, 1) = "send" =>
                 IF content(text, 1) # Empty THEN SendCommand(sd, content(text, 1))
                                             ELSE Refuse(sd)
           /\ word(text, 1) \notin Special \cup {"set_visibility"} => Quiet
<1> USE DEF execute
<1>1. word(text, 1) = "login" => LoginCommand(sd, word(text, 2), word(text, 3))
    OBVIOUS
<1>2. word(text, 1) = "register" => RegisterWords(sd, text)
    OBVIOUS
<1>3. word(text, 1) = "logout" => LogoutCommand(sd)
    OBVIOUS
<1>4. word(text, 1) = "set_visibility" => SetProfileVisibilityCommand(sd, word(text, 2))
    OBVIOUS
<1>5. word(text, 1) = "send" =>
          IF content(text, 1) # Empty THEN SendCommand(sd, content(text, 1))
                                      ELSE Refuse(sd)
    BY DEF UnknownCommand
<1>6. word(text, 1) \notin Special \cup {"set_visibility"} => Quiet
    BY FriendCommandsAreQuiet, PostCommandsAreQuiet, ConversationCommandsAreQuiet,
       RefuseIsQuiet
    DEF Special, UnknownCommand, SetFriendTypeWords, CreatePostWords, OpenWords
<1> QED
    BY <1>1, <1>2, <1>3, <1>4, <1>5, <1>6

-------------------------------------------------------------------------------
(* The inductive invariant *)

\* The client's connection is nobody else's, and only who is connected is
\* logged in.
Connections ==
    /\ DOMAIN sessions = Sd
    /\ client_socket \subseteq master_set
    /\ \A sd \in Sd : isAuthenticated(sd) => sd \in master_set
    /\ peers \subseteq master_set
    /\ connected => sock \in master_set \ peers

\* What a handler under way has still to send, and under which window.
Handler ==
    \/ PlainCalls(todo)
    \/ /\ todo = <<call("login", loginText(typed.name, typed.pass))>>
       /\ visible = "login"
    \/ /\ \E mail \in Mail, role \in UserType, visibility \in ProfileVisibility :
             todo = <<call("register", registerText(typed.name, typed.pass, mail,
                                                    role, visibility))>>
       /\ visible = "register"
    \/ todo = <<call("logout", <<"logout">>)>> /\ visible = "main"
    \/ \E w \in Window :
          todo = <<windowCall(w, "send", <<"send", blank>> \o messageInput[w])>>

Typed ==
    /\ {typed.name, typed.pass} \subseteq Seq(STRING)
    /\ messageInput \in [Window -> Text \cup {<<>>}]

\* The session belongs to the name in the form, as far as there is one.
AsTyped == words(typed.name) # <<>> => getUsername(sock) = word(typed.name, 1)

Agreement ==
    /\ visible = "main" <=> isAuthenticated(sock)
    /\ visible = "main" => AsTyped

\* The window follows the session as soon as the reply is looked at.
Replies ==
    /\ reply # Waiting => todo # <<>>
    /\ connected =>
          /\ reply = Waiting \/ ~(doing("login") \/ doing("logout")) => Agreement
          /\ reply # Waiting /\ doing("login") =>
                (repliedOK <=> isAuthenticated(sock)) /\ (repliedOK => AsTyped)
          /\ reply # Waiting /\ doing("logout") => ~isAuthenticated(sock)

RegistrationHolds ==
    doing("register") /\ reply.kind = "OK" =>
        /\ word(Head(todo).text, 3) # Empty
        /\ authenticateUser(word(Head(todo).text, 2), word(Head(todo).text, 3))

EInv ==
    /\ RowsHavePasswords
    /\ Connections
    /\ Typed
    /\ Handler
    /\ Replies
    /\ RegistrationHolds

LEMMA InitEstablishesEInv == DesktopInit => EInv
<1> SUFFICES ASSUME DesktopInit PROVE EInv
    OBVIOUS
<1> USE DEF DesktopInit, NetworkInit, MainInit, Init
<1>1. RowsHavePasswords
    BY InitialUsersAssumption DEF DatabaseInit, RowsHavePasswords, UserRow
<1>2. Connections
    BY DescriptorAssumption
    DEF SessionInit, Connections, isAuthenticated, connected
<1>3. Typed
    BY DEF Typed, NothingTyped, MessagesInit
<1>4. Handler
    BY PlainNone DEF Handler
<1>5. Replies
    BY DescriptorAssumption DEF Replies, connected, NotConnected
<1>6. RegistrationHolds
    BY DEF RegistrationHolds, doing
<1> QED
    BY <1>1, <1>2, <1>3, <1>4, <1>5, <1>6 DEF EInv

-------------------------------------------------------------------------------
(* Around the program *)

\* Steps that leave the program where it is, its connection as it was or
\* closed, and its reply as it was or lost.
LEMMA AroundPreservesEInv ==
    ASSUME EInv, UNCHANGED <<mainVars, todo, messageInput>>,
           AccountsKept, RowsHavePasswords', Connections',
           \/ reply' = reply
           \/ reply' = Failed /\ todo # <<>> /\ ~connected',
           connected' => connected /\ sock' = sock /\ sessions'[sock] = sessions[sock]
    PROVE  EInv'
<1> USE DEF mainVars
<1>1. Typed' /\ Handler'
    BY DEF EInv, Typed, Handler
<1>2. Replies'
    <2>1. connected' => (Agreement <=> Agreement') /\ (AsTyped <=> AsTyped')
        BY DEF Agreement, AsTyped, isAuthenticated, getUsername
    <2>2. connected' => (isAuthenticated(sock) <=> isAuthenticated(sock)')
        BY DEF isAuthenticated
    <2> QED
        BY <2>1, <2>2 DEF EInv, Replies, doing, repliedOK
<1>3. RegistrationHolds'
    <2>1. reply'.kind = "OK" => reply' = reply
        BY DEF Failed
    <2> QED
        BY <2>1 DEF EInv, RegistrationHolds, doing, authenticateUser, AccountsKept
<1> QED
    BY <1>1, <1>2, <1>3 DEF EInv

LEMMA SameAccounts ==
    ASSUME RowsHavePasswords, UNCHANGED users
    PROVE  AccountsKept /\ RowsHavePasswords'
BY DEF AccountsKept, RowsHavePasswords

LEMMA PeerConnectsPreservesEInv ==
    ASSUME EInv, NEW sd \in Sd, PeerConnects(sd), UNCHANGED <<mainVars, todo, messagesVars>>
    PROVE  EInv'
<1> USE DEF PeerConnects, Accept, sessionVars
<1>1. Connections'
    BY DEF EInv, Connections, isAuthenticated, connected
<1>2. AccountsKept /\ RowsHavePasswords'
    BY SameAccounts DEF EInv, databaseVars
<1>3. UNCHANGED <<mainVars, todo, messageInput, reply, sock, sessions>>
    BY DEF messagesVars
<1> QED
    BY <1>1, <1>2, <1>3, AroundPreservesEInv DEF connected

LEMMA PeerCommandPreservesEInv ==
    ASSUME EInv, NEW sd \in Sd, PeerCommand(sd), UNCHANGED <<mainVars, todo, messagesVars>>
    PROVE  EInv'
<1>1. sd \in peers /\ UNCHANGED <<serverVars, networkVars>> /\ sd \in client_socket
    BY DEF PeerCommand, Serve
<1>2. ServedOn(sd, Content)
    BY ServeServes DEF EInv, PeerCommand
<1>3. Connections'
    BY <1>1, <1>2 DEF EInv, Connections, ServedOn, serverVars, networkVars,
                      isAuthenticated, connected
<1>4. connected => sessions'[sock] = sessions[sock]
    BY <1>1, <1>2 DEF EInv, Connections, ServedOn, connected
<1>5. UNCHANGED <<messageInput, reply, sock>>
    BY <1>1 DEF messagesVars, networkVars
<1> QED
    BY <1>2, <1>3, <1>4, <1>5, AroundPreservesEInv DEF ServedOn, connected

LEMMA LeavesPreservesEInv ==
    ASSUME EInv, NEW sd \in Sd, Leaves(sd), UNCHANGED <<mainVars, todo, messagesVars>>
    PROVE  EInv'
<1> USE DEF Leaves, Disconnect, logout
<1>1. Connections'
    BY DEF EInv, Connections, isAuthenticated, connected
<1>2. AccountsKept /\ RowsHavePasswords'
    BY SameAccounts DEF EInv, databaseVars
<1>3. connected => sessions'[sock] = sessions[sock]
    BY DEF EInv, Connections, connected
<1>4. UNCHANGED <<messageInput, reply, sock>>
    BY DEF messagesVars
<1> QED
    BY <1>1, <1>2, <1>3, <1>4, AroundPreservesEInv DEF connected

LEMMA CrashPreservesEInv ==
    ASSUME EInv, Crash, UNCHANGED <<mainVars, todo, messagesVars>>
    PROVE  EInv'
<1> USE DEF Crash, Restart, StartsFresh
<1>1. ~connected'
    BY DescriptorAssumption DEF connected
<1>2. Connections'
    BY <1>1 DEF Connections, isAuthenticated
<1>3. AccountsKept /\ RowsHavePasswords'
    BY SameAccounts DEF EInv, databaseVars
<1>4. reply' = reply \/ (reply' = Failed /\ todo # <<>>)
    BY DEF EInv, Replies
<1> QED
    BY <1>1, <1>2, <1>3, <1>4, AroundPreservesEInv DEF messagesVars

LEMMA StartPreservesEInv ==
    ASSUME EInv, Start, UNCHANGED <<mainVars, todo, messagesVars>>
    PROVE  EInv'
<1> USE DEF Start, vars, serverVars, sessionVars
<1>1. Connections'
    BY DEF EInv, Connections, isAuthenticated, connected
<1>2. AccountsKept /\ RowsHavePasswords'
    BY SameAccounts DEF EInv, databaseVars
<1> QED
    BY <1>1, <1>2, AroundPreservesEInv DEF connected, messagesVars

LEMMA EnvironmentPreservesEInv ==
    ASSUME EInv, Environment
    PROVE  EInv'
BY PeerConnectsPreservesEInv, PeerCommandPreservesEInv, LeavesPreservesEInv,
   CrashPreservesEInv, StartPreservesEInv
DEF Environment, Elsewhere

LEMMA RestartedPreservesEInv ==
    ASSUME EInv, StartsAgain
    PROVE  EInv'
<1> USE DEF StartsAgain
<1>1. ~connected' /\ reply' = Waiting
    BY DescriptorAssumption DEF connected
<1>2. RowsHavePasswords'
    BY SameAccounts DEF EInv, vars, databaseVars
<1>3. Connections'
    BY <1>1 DEF EInv, Connections, vars, serverVars, sessionVars, isAuthenticated
<1>4. Typed'
    BY DEF Typed, NothingTyped
<1>5. Handler'
    BY PlainNone DEF Handler
<1>6. Replies' /\ RegistrationHolds'
    BY <1>1 DEF Replies, RegistrationHolds, doing
<1> QED
    BY <1>2, <1>3, <1>4, <1>5, <1>6 DEF EInv

-------------------------------------------------------------------------------
(* A call and its reply *)

\* A reply that comes with the session as it was.
LEMMA AnswerPreservesEInv ==
    ASSUME EInv, connected, todo # <<>>, reply = Waiting, ~doing("login"), ~doing("logout"),
           UNCHANGED <<mainVars, todo, messageInput, serverVars, sessions, sock, peers>>,
           RowsHavePasswords', RegistrationHolds'
    PROVE  EInv'
<1> USE DEF mainVars, serverVars
<1>1. Connections'
    BY DEF EInv, Connections, isAuthenticated, connected
<1>2. Typed' /\ Handler'
    BY DEF EInv, Typed, Handler
<1>3. Agreement => Agreement'
    BY DEF Agreement, AsTyped, isAuthenticated, getUsername
<1>4. Replies'
    BY <1>3 DEF EInv, Replies, connected, doing
<1> QED
    BY <1>1, <1>2, <1>4 DEF EInv

LEMMA AnsweredCall ==
    ASSUME Call, Answered(Head(todo).text)
    PROVE  /\ connected /\ todo # <<>> /\ execute(sock, Head(todo).text)
           /\ UNCHANGED <<mainVars, todo, messageInput, serverVars, sock, peers>>
           /\ reply'.kind = response'.kind
BY DEF Call, sendCommand, Answered, execute, messagesVars

LEMMA PlainCallPreservesEInv ==
    ASSUME EInv, Call, Answered(Head(todo).text), reply = Waiting, PlainCalls(todo)
    PROVE  EInv'
<1> DEFINE text == Head(todo).text
<1>1. /\ connected /\ todo # <<>> /\ execute(sock, text)
      /\ UNCHANGED <<mainVars, todo, messageInput, serverVars, sock, peers>>
    BY AnsweredCall
<1>2. PlainCall(Head(todo))
    BY <1>1, PlainTail
<1>3. ~doing("login") /\ ~doing("logout") /\ ~doing("register")
    BY <1>2 DEF PlainCall, Special, doing
<1>4. Quiet \/ SetProfileVisibilityCommand(sock, word(text, 2))
    BY <1>1, <1>2, ExecuteCases DEF PlainCall
<1>5. UNCHANGED sessions /\ RowsHavePasswords'
    <2>1. CASE Quiet
        BY <2>1, QuietServes DEF EInv, Quiet, ServedOn
    <2>2. CASE SetProfileVisibilityCommand(sock, word(text, 2))
        <3>1. RowsHavePasswords'
            BY <2>2, SetVisibilityServes DEF EInv, ServedOn
        <3>2. UNCHANGED sessions
            BY <2>2, RefuseIsQuiet DEF SetProfileVisibilityCommand, Quiet, sessionVars
        <3> QED
            BY <3>1, <3>2
    <2> QED
        BY <1>4, <2>1, <2>2
<1>6. RegistrationHolds'
    BY <1>1, <1>3 DEF RegistrationHolds, doing
<1> QED
    BY <1>1, <1>3, <1>5, <1>6, AnswerPreservesEInv

LEMMA SendCallPreservesEInv ==
    ASSUME EInv, Call, Answered(Head(todo).text), reply = Waiting, NEW w \in Window,
           todo = <<windowCall(w, "send", <<"send", blank>> \o messageInput[w])>>
    PROVE  EInv'
<1> DEFINE text == <<"send", blank>> \o messageInput[w]
<1>a. Head(todo).text = text
    BY DEF windowCall
<1>1. /\ connected /\ todo # <<>> /\ execute(sock, text)
      /\ UNCHANGED <<mainVars, todo, messageInput, serverVars, sock, peers>>
    BY <1>a, AnsweredCall
<1>2. word(text, 1) = "send"
    <2>1. messageInput[w] \in Seq(STRING)
        BY TypedAssumption, EmptySeq DEF EInv, Typed
    <2>2. IsCommand(text, "send")
        BY <2>1, SomeSeq, CommandAndBlank, CommandAndMore
    <2> QED
        BY <2>2, CommandWord DEF isWord, blank, newline
<1>3. ~doing("login") /\ ~doing("logout") /\ ~doing("register")
    BY DEF doing, windowCall
<1>4. Refuse(sock) \/ SendCommand(sock, content(text, 1))
    BY <1>1, <1>2, ExecuteCases
<1>5. UNCHANGED sessions /\ RowsHavePasswords'
    <2>1. CASE Refuse(sock)
        BY <2>1, RefuseIsQuiet, QuietServes DEF EInv, Quiet, ServedOn
    <2>2. CASE SendCommand(sock, content(text, 1))
        <3>1. RowsHavePasswords'
            BY <2>2, SendServes DEF EInv, ServedOn
        <3>2. UNCHANGED sessions
            BY <2>2, RefuseIsQuiet DEF SendCommand, Quiet, sessionVars
        <3> QED
            BY <3>1, <3>2
    <2> QED
        BY <1>4, <2>1, <2>2
<1>6. RegistrationHolds'
    BY <1>1, <1>3 DEF RegistrationHolds, doing
<1> QED
    BY <1>1, <1>3, <1>5, <1>6, AnswerPreservesEInv

LEMMA RegisterCallPreservesEInv ==
    ASSUME EInv, Call, Answered(Head(todo).text), reply = Waiting,
           NEW mail \in Mail, NEW role \in UserType, NEW visibility \in ProfileVisibility,
           todo = <<call("register", registerText(typed.name, typed.pass, mail, role,
                                                  visibility))>>
    PROVE  EInv'
<1> DEFINE text == registerText(typed.name, typed.pass, mail, role, visibility)
<1>a. Head(todo).text = text
    BY DEF call
<1>1. /\ connected /\ todo # <<>> /\ execute(sock, text)
      /\ UNCHANGED <<mainVars, todo, messageInput, serverVars, sock, peers>>
      /\ reply'.kind = response'.kind
    BY <1>a, AnsweredCall
<1>2. word(text, 1) = "register"
    <2>1. typed.name \in Seq(Item) /\ typed.pass \in Seq(Item) /\ mail \in Seq(Item)
        BY TypedItems, TypedAssumption DEF EInv, Typed
    <2>2. text \in Seq(Item) /\ Starts(text, "register", typed.name, typed.pass)
        BY <2>1, RegisterForm
    <2> HIDE DEF text
    <2> QED
        BY <2>2, FormCommand
<1>3. RegisterCommand(sock, word(text, 2), word(text, 3), word(text, 4), word(text, 5),
                      word(text, 6))
    BY <1>1, <1>2, ExecuteCases DEF RegisterWords
<1>4. ~doing("login") /\ ~doing("logout")
    BY DEF doing, call
<1>5. RowsHavePasswords'
    BY <1>3, RegisterServes DEF EInv, ServedOn
<1>6. UNCHANGED sessions
    BY <1>3, RefuseIsQuiet DEF RegisterCommand, Quiet, sessionVars
<1> HIDE DEF text
<1>7. \/ response'.kind = "ERROR"
      \/ /\ word(text, 3) # Empty /\ word(text, 2) \in DOMAIN users'
         /\ users'[word(text, 2)].password = Hashpassword(word(text, 3))
    BY <1>3, RegisterServes DEF EInv
<1>8. RegistrationHolds'
    BY <1>a, <1>1, <1>7 DEF RegistrationHolds, authenticateUser, Hashpassword
<1> QED
    BY <1>1, <1>4, <1>5, <1>6, <1>8, AnswerPreservesEInv

LEMMA LoginCallPreservesEInv ==
    ASSUME EInv, Call, Answered(Head(todo).text), reply = Waiting, visible = "login",
           todo = <<call("login", loginText(typed.name, typed.pass))>>
    PROVE  EInv'
<1> DEFINE text == loginText(typed.name, typed.pass)
<1>a. Head(todo).text = text
    BY DEF call
<1>1. /\ connected /\ todo # <<>> /\ execute(sock, text)
      /\ UNCHANGED <<mainVars, todo, messageInput, serverVars, sock, peers>>
      /\ reply'.kind = response'.kind
    BY <1>a, AnsweredCall
<1>2. /\ word(text, 1) = "login"
      /\ words(typed.name) # <<>> => word(text, 2) = word(typed.name, 1)
    <2>1. typed.name \in Seq(Item) /\ typed.pass \in Seq(Item)
        BY TypedItems DEF EInv, Typed
    <2> QED
        BY <2>1, LoginWords
<1> HIDE DEF text
<1>3. LoginCommand(sock, word(text, 2), word(text, 3))
    BY <1>1, <1>2, ExecuteCases
<1>4. doing("login") /\ ~doing("logout") /\ ~doing("register")
    BY DEF doing, call
<1>5. RowsHavePasswords' /\ DOMAIN sessions' = Sd
    BY <1>3, LoginServes DEF EInv, ServedOn, Connections
<1>6. ~isAuthenticated(sock)
    BY <1>1, <1>4 DEF EInv, Replies, Agreement
<1>7. \/ sessions' = sessions /\ reply'.kind = "ERROR"
      \/ /\ sessions' = [sessions EXCEPT ![sock] = word(text, 2)]
         /\ word(text, 2) # Empty /\ reply'.kind = "OK"
    BY <1>1, <1>3 DEF LoginCommand, Refuse, Reply, OK, login, sessionVars
<1>8. Connections'
    BY <1>1, <1>5, <1>7 DEF EInv, Connections, isAuthenticated, connected, serverVars
<1>9. Typed' /\ Handler'
    BY <1>1 DEF EInv, Typed, Handler, mainVars
<1>10. Replies'
    <2>1. reply' # Waiting' /\ connected /\ sock' = sock /\ sock \in DOMAIN sessions
        BY <1>1, <1>7 DEF Waiting, EInv, Connections, connected
    <2>2. repliedOK' <=> isAuthenticated(sock)'
        BY <1>6, <1>7, <2>1 DEF repliedOK, isAuthenticated
    <2>3. repliedOK' => AsTyped'
        BY <1>1, <1>2, <1>7, <2>1 DEF repliedOK, AsTyped, getUsername, mainVars
    <2>4. doing("login")' /\ ~doing("logout")' /\ todo' # <<>>
        BY <1>1, <1>4 DEF doing
    <2> QED
        BY <2>1, <2>2, <2>3, <2>4 DEF Replies
<1>11. RegistrationHolds'
    BY <1>1, <1>4 DEF RegistrationHolds, doing
<1> QED
    BY <1>5, <1>8, <1>9, <1>10, <1>11 DEF EInv

LEMMA LogoutCallPreservesEInv ==
    ASSUME EInv, Call, Answered(Head(todo).text), reply = Waiting,
           todo = <<call("logout", <<"logout">>)>>
    PROVE  EInv'
<1>a. Head(todo).text = <<"logout">>
    BY DEF call
<1>1. /\ connected /\ todo # <<>> /\ execute(sock, <<"logout">>)
      /\ UNCHANGED <<mainVars, todo, messageInput, serverVars, sock, peers>>
      /\ reply'.kind = response'.kind
    BY <1>a, AnsweredCall
<1>2. word(<<"logout">>, 1) = "logout"
    BY CommandOnly, CommandWord DEF isWord, blank, newline
<1>3. LogoutCommand(sock)
    BY <1>1, <1>2, ExecuteCases
<1>4. ~doing("login") /\ doing("logout") /\ ~doing("register")
    BY DEF doing, call
<1>5. RowsHavePasswords' /\ DOMAIN sessions' = Sd
    BY <1>3, LogoutServes DEF EInv, ServedOn, Connections
<1>6. /\ sessions' = sessions \/ sessions' = [sessions EXCEPT ![sock] = Empty]
      /\ ~isAuthenticated(sock)' /\ reply'.kind \in {"OK", "ERROR"}
    BY <1>1 , <1>3 DEF LogoutCommand, Refuse, Reply, OK, logout, sessionVars,
                       isAuthenticated, EInv, Connections, connected
<1>7. Connections'
    BY <1>1, <1>5, <1>6 DEF EInv, Connections, isAuthenticated, connected, serverVars
<1>8. Typed' /\ Handler'
    BY <1>1 DEF EInv, Typed, Handler, mainVars
<1>9. Replies'
    <2>1. reply' # Waiting' /\ todo' # <<>> /\ ~doing("login")' /\ doing("logout")'
        BY <1>1, <1>4, <1>6 DEF Waiting, doing
    <2> QED
        BY <1>6, <2>1 DEF Replies
<1>10. RegistrationHolds'
    BY <1>1, <1>4 DEF RegistrationHolds, doing
<1> QED
    BY <1>5, <1>7, <1>8, <1>9, <1>10 DEF EInv

LEMMA CallPreservesEInv ==
    ASSUME EInv, Call
    PROVE  EInv'
<1>1. /\ reply = Waiting /\ todo # <<>>
      /\ Answered(Head(todo).text) \/ SendFails \/ NoAnswer
      /\ UNCHANGED <<mainVars, todo, messagesVars, peers, running, crashes>>
    BY DEF Call, sendCommand
<1>2. CASE SendFails \/ NoAnswer
    <2>1. /\ UNCHANGED vars /\ reply' = Failed /\ ~connected' /\ sock \notin Sd
        BY <1>2, DescriptorAssumption DEF SendFails, NoAnswer, connected
    <2>2. AccountsKept /\ RowsHavePasswords'
        BY <2>1, SameAccounts DEF EInv, vars, databaseVars
    <2>3. Connections'
        BY <1>1, <2>1 DEF EInv, Connections, vars, serverVars, sessionVars, isAuthenticated
    <2> QED
        BY <1>1, <2>1, <2>2, <2>3, AroundPreservesEInv DEF messagesVars
<1>3. CASE Answered(Head(todo).text)
    BY <1>1, <1>3, PlainCallPreservesEInv, LoginCallPreservesEInv,
       RegisterCallPreservesEInv, LogoutCallPreservesEInv, SendCallPreservesEInv
    DEF EInv, Handler
<1> QED
    BY <1>1, <1>2, <1>3

-------------------------------------------------------------------------------
(* Calls that are plain *)

LEMMA PlainByCommand ==
    ASSUME NEW do, NEW text, NEW cmd, NEW w, do \notin Special, IsCommand(text, cmd),
           isWord(cmd), cmd \notin Special
    PROVE  PlainCall(call(do, text)) /\ PlainCall(windowCall(w, do, text))
<1>1. word(text, 1) = cmd
    BY CommandWord
<1> QED
    BY <1>1 DEF PlainCall, call, windowCall

LEMMA PlainLoads ==
    /\ PlainCalls(loadFriends) /\ PlainCalls(refreshPosts) /\ PlainCalls(loadRequests)
    /\ PlainCalls(loadFriends \o refreshPosts)
    /\ \A w \in Window : PlainCalls(loadConversations(w)) /\ PlainCalls(loadMessages(w))
<1> USE DEF Special, isWord, blank, newline
<1>1. PlainCalls(loadFriends)
    <2>1. PlainCall(call("loadFriends", <<"list_friends">>))
        <3>1. IsCommand(<<"list_friends">>, "list_friends")
            BY CommandOnly
        <3> QED
            BY <3>1, PlainByCommand
    <2> QED
        BY <2>1, PlainOne DEF loadFriends
<1>2. PlainCalls(refreshPosts)
    <2>1. PlainCall(call("refreshPosts", <<"list_posts">>))
        <3>1. IsCommand(<<"list_posts">>, "list_posts")
            BY CommandOnly
        <3> QED
            BY <3>1, PlainByCommand
    <2> QED
        BY <2>1, PlainOne DEF refreshPosts
<1>3. PlainCalls(loadRequests)
    <2>1. PlainCall(call("loadRequests", <<"list_friend_requests">>))
        <3>1. IsCommand(<<"list_friend_requests">>, "list_friend_requests")
            BY CommandOnly
        <3> QED
            BY <3>1, PlainByCommand
    <2> QED
        BY <2>1, PlainOne DEF loadRequests
<1>4. ASSUME NEW w \in Window
      PROVE  PlainCalls(loadConversations(w)) /\ PlainCalls(loadMessages(w))
    <2>1. PlainCall(windowCall(w, "loadConversations", <<"chats">>))
        <3>1. IsCommand(<<"chats">>, "chats")
            BY CommandOnly
        <3> QED
            BY <3>1, PlainByCommand
    <2>2. PlainCall(windowCall(w, "show", <<"show">>))
        <3>1. IsCommand(<<"show">>, "show")
            BY CommandOnly
        <3> QED
            BY <3>1, PlainByCommand
    <2> QED
        BY <2>1, <2>2, PlainOne DEF loadConversations, loadMessages
<1> QED
    BY <1>1, <1>2, <1>3, <1>4, PlainJoin

-------------------------------------------------------------------------------
(* What a handler does with a reply *)

LEMMA DoingUnder ==
    ASSUME Handler
    PROVE  /\ doing("login") => visible = "login"
           /\ doing("register") => visible = "register"
           /\ doing("logout") => visible = "main"
           /\ todo # <<>> => PlainCalls(Tail(todo))
<1>1. CASE PlainCalls(todo)
    <2>1. todo # <<>> => PlainCalls(Tail(todo)) /\ PlainCall(Head(todo))
        BY <1>1, PlainTail
    <2> QED
        BY <2>1 DEF doing, PlainCall, Special
<1>2. CASE \E c : todo = <<c>>
    <2>1. PlainCalls(Tail(todo))
        BY <1>2, PlainNone
    <2>2. /\ doing("login") => visible = "login"
          /\ doing("register") => visible = "register"
          /\ doing("logout") => visible = "main"
        <3>1. CASE PlainCalls(todo)
            BY <3>1, <1>1
        <3>2. CASE ~PlainCalls(todo)
            BY <3>2 DEF Handler, doing, call, windowCall
        <3> QED
            BY <3>1, <3>2
    <2> QED
        BY <2>1, <2>2
<1> QED
    BY <1>1, <1>2 DEF Handler

LEMMA ReturnedPreservesEInv ==
    ASSUME EInv, Returned, UNCHANGED typed, Handler',
           messageInput' \in [Window -> Text \cup {<<>>}],
           connected => /\ visible' = "main" <=> isAuthenticated(sock)
                        /\ visible' = "main" => AsTyped
    PROVE  EInv'
<1> USE DEF Returned
<1>1. RowsHavePasswords'
    BY SameAccounts DEF EInv, databaseVars
<1>2. Connections'
    BY DEF EInv, Connections, serverVars, sessionVars, isAuthenticated, connected
<1>3. Typed'
    BY DEF EInv, Typed
<1>4. Replies' /\ RegistrationHolds'
    BY DEF Replies, RegistrationHolds, Agreement, AsTyped, sessionVars, isAuthenticated,
           getUsername, connected, Waiting
<1> QED
    BY <1>1, <1>2, <1>3, <1>4 DEF EInv

\* Neither the session nor the window on top changes between them.
LEMMA AgreementAtReturn ==
    ASSUME EInv, Returned, ~doing("login"), ~doing("logout"),
           visible' = "main" <=> visible = "main"
    PROVE  connected => /\ visible' = "main" <=> isAuthenticated(sock)
                        /\ visible' = "main" => AsTyped
BY DEF EInv, Replies, Agreement

LEMMA MainReturnPreservesEInv ==
    ASSUME EInv, MainReturn, UNCHANGED messagesVars
    PROVE  EInv'
<1> USE DEF messagesVars
<1>1. Returned /\ UNCHANGED typed
    BY DEF MainReturn, ReplyIgnored, LoginReturned, RegisterReturned, LogoutReturned,
           FriendsReturned, RequestsReturned, AddReturned, DialogReturned, Proceeds, mainVars
<1>2. messageInput' \in [Window -> Text \cup {<<>>}]
    BY DEF EInv, Typed
<1>3. /\ doing("login") => visible = "login"
      /\ doing("register") => visible = "register"
      /\ doing("logout") => visible = "main"
      /\ todo # <<>> => PlainCalls(Tail(todo))
    BY DoingUnder DEF EInv
<1>4. CASE LoginReturned
    <2>1. PlainCalls(todo')
        BY <1>4, PlainLoads, PlainNone DEF LoginReturned
    <2>2. /\ visible = "login" /\ reply # Waiting /\ doing("login")
          /\ visible' = IF repliedOK THEN "main" ELSE visible
        BY <1>1, <1>3, <1>4 DEF LoginReturned, Returned
    <2>3. connected => /\ visible' = "main" <=> isAuthenticated(sock)
                       /\ visible' = "main" => AsTyped
        BY <2>2 DEF EInv, Replies
    <2> QED
        BY <1>1, <1>2, <2>1, <2>3, ReturnedPreservesEInv DEF Handler
<1>5. CASE LogoutReturned
    <2>1. PlainCalls(todo')
        BY <1>3, <1>5 DEF LogoutReturned, Proceeds, doing
    <2>2. connected => /\ visible' = "main" <=> isAuthenticated(sock)
                       /\ visible' = "main" => AsTyped
        BY <1>1, <1>5 DEF LogoutReturned, Returned, EInv, Replies
    <2> QED
        BY <1>1, <1>2, <2>1, <2>2, ReturnedPreservesEInv DEF Handler
<1>6. CASE \/ ReplyIgnored \/ RegisterReturned \/ FriendsReturned \/ RequestsReturned
           \/ AddReturned \/ DialogReturned
    <2>1. PlainCalls(todo')
        BY <1>3, <1>6, PlainLoads, PlainNone
        DEF ReplyIgnored, RegisterReturned, FriendsReturned, RequestsReturned, AddReturned,
            DialogReturned, Proceeds, doing
    <2>2. /\ ~doing("login") /\ ~doing("logout")
          /\ visible' = "main" <=> visible = "main"
        BY <1>3, <1>6
        DEF ReplyIgnored, RegisterReturned, FriendsReturned, RequestsReturned, AddReturned,
            DialogReturned, doing, mainVars
    <2> QED
        BY <1>1, <1>2, <2>1, <2>2, AgreementAtReturn, ReturnedPreservesEInv DEF Handler
<1> QED
    BY <1>4, <1>5, <1>6 DEF MainReturn

LEMMA MessagesReturnPreservesEInv ==
    ASSUME EInv, MessagesReturn, UNCHANGED mainVars
    PROVE  EInv'
<1> USE DEF mainVars
<1>1. PICK w \in Window : ConversationsReturned(w) \/ MessagesReturned(w) \/ SendReturned(w)
    BY DEF MessagesReturn
<1>2. Returned /\ ~doing("login") /\ ~doing("logout") /\ todo # <<>>
    BY <1>1 DEF ConversationsReturned, MessagesReturned, SendReturned, Proceeds, doing
<1>3. PlainCalls(Tail(todo))
    BY <1>2, DoingUnder DEF EInv
<1>4. PlainCalls(todo')
    BY <1>1, <1>3, PlainLoads, PlainNone
    DEF ConversationsReturned, MessagesReturned, SendReturned, Proceeds
<1>5. messageInput' \in [Window -> Text \cup {<<>>}]
    BY <1>1 DEF EInv, Typed, ConversationsReturned, MessagesReturned, SendReturned
<1> QED
    BY <1>2, <1>4, <1>5, AgreementAtReturn, ReturnedPreservesEInv DEF Handler

-------------------------------------------------------------------------------
(* What the user and the timers do *)

LEMMA EventPreservesEInv ==
    ASSUME EInv, todo = <<>>,
           \/ UNCHANGED <<vars, networkVars>>
           \/ connectToServer /\ visible # "main" /\ UNCHANGED <<reply, peers>>,
           visible' = "main" <=> visible = "main",
           visible = "main" => UNCHANGED typed,
           Typed', Handler'
    PROVE  EInv'
<1> USE DEF vars, networkVars, serverVars, sessionVars
<1>1. reply = Waiting /\ reply' = Waiting
    BY DEF EInv, Replies
<1>2. connected => Agreement
    BY <1>1 DEF EInv, Replies
<1>3. UNCHANGED <<users, sessions>>
    BY DEF connectToServer, Accept, databaseVars
<1>4. RowsHavePasswords'
    BY <1>3, SameAccounts DEF EInv
<1>5. CASE UNCHANGED <<vars, networkVars>> \/ (connectToServer /\ UNCHANGED <<vars, sock, peers>>)
    <2>1. Connections'
        BY <1>5 DEF EInv, Connections, isAuthenticated, connected
    <2>2. connected' => Agreement'
        BY <1>2, <1>5 DEF Agreement, AsTyped, isAuthenticated, getUsername, connected
    <2> QED
        BY <1>1, <1>4, <2>1, <2>2 DEF EInv, Replies, RegistrationHolds, Waiting
<1>6. CASE /\ visible # "main" /\ UNCHANGED peers
           /\ \E sd \in Sd : Accept(sd) /\ sock' = sd
    <2>1. PICK sd \in Sd : Accept(sd) /\ sock' = sd
        BY <1>6
    <2>2. Connections'
        BY <1>6, <2>1 DEF EInv, Connections, Accept, isAuthenticated, connected
    <2>3. ~isAuthenticated(sock)' /\ visible' # "main"
        BY <1>6, <2>1 DEF EInv, Connections, Accept, isAuthenticated
    <2> QED
        BY <1>1, <1>4, <2>2, <2>3 DEF EInv, Replies, RegistrationHolds, Waiting, Agreement
<1> QED
    BY <1>5, <1>6 DEF connectToServer

\* What goes on without a connection being made, under the same window.
LEMMA QuietEventPreservesEInv ==
    ASSUME EInv, todo = <<>>, UNCHANGED <<vars, networkVars, typed>>,
           visible' = "main" <=> visible = "main",
           messageInput' \in [Window -> Text \cup {<<>>}],
           Handler'
    PROVE  EInv'
<1>1. Typed'
    BY DEF EInv, Typed
<1> QED
    BY <1>1, EventPreservesEInv

LEMMA ShortTexts ==
    ASSUME NEW a, NEW b
    PROVE  IsSeq(<<>>) /\ IsSeq(<<a>>) /\ IsSeq(<<a, b>>)
<1>1. <<>> \in Seq({}) /\ <<a>> \in Seq({a}) /\ <<a, b>> \in Seq({a, b})
    OBVIOUS
<1> QED
    BY <1>1, SomeSeq

LEMMA DialogCallsArePlain ==
    ASSUME NEW name, NEW type, NEW argument, NEW text, IsSeq(text)
    PROVE  /\ PlainCalls(<<call("loadPublicPosts", <<"list_posts">>)>>)
           /\ PlainCalls(<<call("hidden", <<"list_friends">>), call("hidden", <<"list_posts">>)>>)
           /\ PlainCalls(<<call("add_friend", <<"add_friend", blank>> \o text)>>)
           /\ PlainCalls(<<call("none", <<"accept_friend", blank, name>>)>>)
           /\ PlainCalls(<<call("dialog", <<"set_friend_type", blank>> \o itemText(name)
                                              \o <<blank, type>>)>>)
           /\ PlainCalls(<<call("post", <<"create_post", blank, argument, blank>> \o text)>>)
<1> USE DEF Special, isWord, blank, newline
<1>1. PlainCalls(<<call("loadPublicPosts", <<"list_posts">>)>>)
    <2>1. IsCommand(<<"list_posts">>, "list_posts")
        BY CommandOnly
    <2>2. PlainCall(call("loadPublicPosts", <<"list_posts">>))
        BY <2>1, PlainByCommand
    <2> QED
        BY <2>2, PlainOne
<1>2. PlainCalls(<<call("hidden", <<"list_friends">>), call("hidden", <<"list_posts">>)>>)
    <2>1. IsCommand(<<"list_posts">>, "list_posts")
        BY CommandOnly
    <2>2. IsCommand(<<"list_friends">>, "list_friends")
        BY CommandOnly
    <2>3. PlainCall(call("hidden", <<"list_posts">>))
        BY <2>1, PlainByCommand
    <2>4. PlainCall(call("hidden", <<"list_friends">>))
        BY <2>2, PlainByCommand
    <2> QED
        BY <2>3, <2>4, PlainTwo
<1>3. PlainCalls(<<call("add_friend", <<"add_friend", blank>> \o text)>>)
    <2> DEFINE whole == <<"add_friend", blank>> \o text
    <2>1. IsCommand(<<"add_friend", blank>>, "add_friend")
        BY CommandAndBlank
    <2>2. IsCommand(whole, "add_friend")
        BY <2>1, CommandAndMore
    <2> HIDE DEF whole
    <2>3. PlainCall(call("add_friend", whole))
        BY <2>2, PlainByCommand
    <2> QED
        BY <2>3, PlainOne DEF whole
<1>4. PlainCalls(<<call("none", <<"accept_friend", blank, name>>)>>)
    <2> DEFINE whole == <<"accept_friend", blank, name>>
    <2>1. IsCommand(whole, "accept_friend")
        BY CommandAndArgument
    <2> HIDE DEF whole
    <2>2. PlainCall(call("none", whole))
        BY <2>1, PlainByCommand
    <2> QED
        BY <2>2, PlainOne DEF whole
<1>5. PlainCalls(<<call("dialog", <<"set_friend_type", blank>> \o itemText(name)
                                    \o <<blank, type>>)>>)
    <2> DEFINE front == <<"set_friend_type", blank>> \o itemText(name)
               whole == front \o <<blank, type>>
    <2>1. IsCommand(<<"set_friend_type", blank>>, "set_friend_type")
        BY CommandAndBlank
    <2>2. IsSeq(itemText(name)) /\ IsSeq(<<blank, type>>)
        BY ShortTexts DEF itemText
    <2>3. IsCommand(front, "set_friend_type")
        BY <2>1, <2>2, CommandAndMore
    <2> HIDE DEF front
    <2>4. IsCommand(whole, "set_friend_type")
        BY <2>2, <2>3, CommandAndMore
    <2> HIDE DEF whole
    <2>5. PlainCall(call("dialog", whole))
        BY <2>4, PlainByCommand
    <2> QED
        BY <2>5, PlainOne DEF whole, front
<1>6. PlainCalls(<<call("post", <<"create_post", blank, argument, blank>> \o text)>>)
    <2> DEFINE whole == <<"create_post", blank, argument, blank>> \o text
    <2>1. IsCommand(<<"create_post", blank, argument, blank>>, "create_post")
        BY CommandAndArgument
    <2>2. IsCommand(whole, "create_post")
        BY <2>1, CommandAndMore
    <2> HIDE DEF whole
    <2>3. PlainCall(call("post", whole))
        BY <2>2, PlainByCommand
    <2> QED
        BY <2>3, PlainOne DEF whole
<1> QED
    BY <1>1, <1>2, <1>3, <1>4, <1>5, <1>6

LEMMA WindowCallsArePlain ==
    ASSUME NEW w, NEW id, NEW text, IsSeq(text)
    PROVE  /\ PlainCalls(<<windowCall(w, "none", <<"open", blank, id>>)>>)
           /\ PlainCalls(<<windowCall(w, "none", <<"chat", blank>> \o text)>>)
           /\ PlainCalls(<<windowCall(w, "none", <<"group", blank>> \o text)>>)
<1> USE DEF Special, isWord, blank, newline
<1>1. PlainCalls(<<windowCall(w, "none", <<"open", blank, id>>)>>)
    <2> DEFINE whole == <<"open", blank, id>>
    <2>1. IsCommand(whole, "open")
        BY CommandAndArgument
    <2> HIDE DEF whole
    <2>2. PlainCall(windowCall(w, "none", whole))
        BY <2>1, PlainByCommand
    <2> QED
        BY <2>2, PlainOne DEF whole
<1>2. ASSUME NEW cmd, cmd \in {"chat", "group"}
      PROVE  PlainCalls(<<windowCall(w, "none", <<cmd, blank>> \o text)>>)
    <2> DEFINE whole == <<cmd, blank>> \o text
    <2>1. IsCommand(<<cmd, blank>>, cmd)
        BY CommandAndBlank
    <2>2. IsCommand(whole, cmd)
        BY <2>1, CommandAndMore
    <2> HIDE DEF whole
    <2>3. PlainCall(windowCall(w, "none", whole))
        BY <1>2, <2>2, PlainByCommand
    <2> QED
        BY <2>3, PlainOne DEF whole
<1> QED
    BY <1>1, <1>2

LEMMA MainEventPreservesEInv ==
    ASSUME EInv, MainEvent, UNCHANGED messagesVars
    PROVE  EInv'
<1> USE DEF messagesVars, mainVars, At, AtMain, InDialog, Calls, DialogCalls, OpenDialog,
            ConnectAndCall
<1>1. messageInput' \in [Window -> Text \cup {<<>>}]
    BY DEF EInv, Typed
<1>2. ASSUME NEW name \in Entry, NEW pass \in Entry, LoginClicked(name, pass)
      PROVE  EInv'
    <2>1. Typed'
        BY <1>1, <1>2, TypedAssumption DEF LoginClicked, Typed
    <2>2. Handler'
        BY <1>2 DEF LoginClicked, Handler, loginText
    <2> QED
        BY <1>2, <2>1, <2>2, EventPreservesEInv DEF LoginClicked
<1>3. ASSUME NEW name \in Entry, NEW pass \in Entry, NEW mail \in Mail, NEW role \in UserType,
             NEW visibility \in ProfileVisibility,
             RegisterClicked(name, pass, mail, role, visibility)
      PROVE  EInv'
    <2>1. Typed'
        BY <1>1, <1>3, TypedAssumption DEF RegisterClicked, Typed
    <2>2. Handler'
        BY <1>3 DEF RegisterClicked, Handler, registerText
    <2> QED
        BY <1>3, <2>1, <2>2, EventPreservesEInv DEF RegisterClicked
<1>4. CASE ViewPostsClicked
    <2>1. /\ todo = <<>> /\ visible = "login" /\ visible' = "guest" /\ UNCHANGED typed
          /\ \/ Calls(<<>>)
             \/ ConnectAndCall(<<call("loadPublicPosts", <<"list_posts">>)>>)
        BY <1>4 DEF ViewPostsClicked
    <2>2. Typed'
        BY <1>1, <2>1 DEF EInv, Typed
    <2>3. PlainCalls(todo')
        BY <2>1, PlainNone, DialogCallsArePlain, ShortTexts
    <2> QED
        BY <2>1, <2>2, <2>3, EventPreservesEInv DEF Handler
<1>5. CASE LogoutClicked
    <2>1. Handler'
        BY <1>5 DEF LogoutClicked, Handler
    <2> QED
        BY <1>1, <1>5, <2>1, QuietEventPreservesEInv DEF LogoutClicked
<1>6. ASSUME todo = <<>>, UNCHANGED <<vars, networkVars, typed>>, PlainCalls(todo'),
             visible' = "main" <=> visible = "main"
      PROVE  EInv'
    BY <1>1, <1>6, QuietEventPreservesEInv DEF Handler
<1>7. CASE \/ RegisterLinkClicked \/ BackClicked \/ AddFriendOpened \/ PostOpened
           \/ FriendOpened
    BY <1>6, <1>7, PlainNone
    DEF RegisterLinkClicked, BackClicked, AddFriendOpened, PostOpened, FriendOpened
<1>8. CASE ReloadClicked \/ Poll \/ RequestsOpened \/ RejectClicked \/ DialogClosed
    BY <1>6, <1>8, PlainNone, PlainLoads
    DEF ReloadClicked, Poll, RequestsOpened, RejectClicked, DialogClosed
<1>9. CASE HiddenPoll
    BY <1>6, <1>9, DialogCallsArePlain, ShortTexts DEF HiddenPoll
<1>10. ASSUME NEW name \in Entry, AddClicked(name)
       PROVE  EInv'
    <2>1. IsSeq(name)
        BY TypedAssumption, SomeSeq
    <2> QED
        BY <1>6, <1>10, <2>1, DialogCallsArePlain DEF AddClicked
<1>11. ASSUME NEW name \in Name, AcceptClicked(name)
       PROVE  EInv'
    <2>1. PlainCalls(<<call("none", <<"accept_friend", blank, name>>)>>)
        BY DialogCallsArePlain, ShortTexts
    <2>2. PlainCalls(<<call("none", <<"accept_friend", blank, name>>)>> \o loadRequests)
        BY <2>1, PlainLoads, PlainJoin
    <2> QED
        BY <1>6, <1>11, <2>2 DEF AcceptClicked
<1>12. ASSUME NEW type \in FriendTypes, TypeClicked(type)
       PROVE  EInv'
    <2>1. PICK name \in dialog.names :
              DialogCalls(<<call("dialog", <<"set_friend_type", blank>> \o itemText(name)
                                               \o <<blank, ToString(type)>>)>>)
        BY <1>12 DEF TypeClicked
    <2>2. PlainCalls(<<call("dialog", <<"set_friend_type", blank>> \o itemText(name)
                                          \o <<blank, ToString(type)>>)>>)
        BY DialogCallsArePlain, ShortTexts
    <2> QED
        BY <1>6, <1>12, <2>1, <2>2 DEF TypeClicked
<1>13. ASSUME NEW visibility \in PostVisibility, NEW text \in Text,
              PostClicked(visibility, text)
       PROVE  EInv'
    <2>1. IsSeq(text)
        BY TypedAssumption, SomeSeq
    <2>2. PlainCalls(<<call("post", <<"create_post", blank, ToString(visibility), blank>>
                                       \o text)>>)
        BY <2>1, DialogCallsArePlain
    <2> QED
        BY <1>6, <1>13, <2>2 DEF PostClicked
<1> QED
    BY <1>2, <1>3, <1>4, <1>5, <1>7, <1>8, <1>9, <1>10, <1>11, <1>12, <1>13 DEF MainEvent

LEMMA MessagesEventPreservesEInv ==
    ASSUME EInv, MessagesEvent, UNCHANGED mainVars
    PROVE  EInv'
<1> USE DEF mainVars, At, AtMain, Usable, Calls, WindowCalls
<1>1. ASSUME todo = <<>>, UNCHANGED <<vars, networkVars>>, Handler',
             messageInput' \in [Window -> Text \cup {<<>>}]
      PROVE  EInv'
    BY <1>1, QuietEventPreservesEInv
<1>2. messageInput \in [Window -> Text \cup {<<>>}]
    BY DEF EInv, Typed
<1>3. PICK w \in Window :
          \/ MessagesClicked(w)
          \/ \E id \in 1..MaxConversations : ConversationClicked(w, id)
          \/ \E text \in Text : Types(w, text)
          \/ SendClicked(w)
          \/ Tick(w)
          \/ \E names \in Entry : NewChatClicked(w, names) \/ NewGroupClicked(w, names)
    BY DEF MessagesEvent
<1>4. CASE MessagesClicked(w) \/ Tick(w)
    <2>1. PlainCalls(todo')
        BY <1>4, PlainLoads DEF MessagesClicked, Tick
    <2> QED
        BY <1>1, <1>2, <1>4, <2>1 DEF MessagesClicked, Tick, messagesVars, Handler
<1>5. ASSUME NEW id \in 1..MaxConversations, ConversationClicked(w, id)
      PROVE  EInv'
    <2>1. PlainCalls(<<windowCall(w, "none", <<"open", blank, ToString(id)>>)>>)
        BY WindowCallsArePlain, ShortTexts
    <2>2. PlainCalls(todo')
        BY <1>5, <2>1, PlainLoads, PlainJoin DEF ConversationClicked
    <2> QED
        BY <1>1, <1>2, <1>5, <2>2 DEF ConversationClicked, Handler
<1>6. ASSUME NEW text \in Text, Types(w, text)
      PROVE  EInv'
    <2>1. messageInput' \in [Window -> Text \cup {<<>>}]
        BY <1>2, <1>6 DEF Types
    <2> QED
        BY <1>1, <1>6, <2>1, PlainNone DEF Types, Handler
<1>7. CASE SendClicked(w)
    <2>1. Handler'
        BY <1>7 DEF SendClicked, messagesVars, Handler
    <2> QED
        BY <1>1, <1>2, <1>7, <2>1 DEF SendClicked, messagesVars
<1>8. ASSUME NEW names \in Entry, NewChatClicked(w, names) \/ NewGroupClicked(w, names)
      PROVE  EInv'
    <2>1. IsSeq(names)
        BY TypedAssumption, SomeSeq
    <2>2. PlainCalls(todo')
        BY <1>8, <2>1, WindowCallsArePlain, PlainLoads, PlainJoin
        DEF NewChatClicked, NewGroupClicked
    <2> QED
        BY <1>1, <1>2, <1>8, <2>2 DEF NewChatClicked, NewGroupClicked, messagesVars, Handler
<1> QED
    BY <1>3, <1>4, <1>5, <1>6, <1>7, <1>8

-------------------------------------------------------------------------------
(* The program *)

LEMMA StutterPreservesEInv ==
    ASSUME EInv, UNCHANGED desktopVars
    PROVE  EInv'
<1> USE DEF desktopVars
<1>1. Connections'
    BY DEF EInv, Connections, vars, serverVars, sessionVars, networkVars, isAuthenticated,
           connected
<1>2. AccountsKept /\ RowsHavePasswords'
    BY SameAccounts DEF EInv, vars, databaseVars
<1>3. /\ UNCHANGED <<mainVars, todo, messageInput, reply>>
      /\ connected' => connected /\ sock' = sock /\ sessions'[sock] = sessions[sock]
    BY DEF messagesVars, networkVars, vars, sessionVars, connected
<1> QED
    BY <1>1, <1>2, <1>3, AroundPreservesEInv

LEMMA NextPreservesEInv == EInv /\ [DesktopNext]_desktopVars => EInv'
BY MainEventPreservesEInv, MessagesEventPreservesEInv, CallPreservesEInv,
   MainReturnPreservesEInv, MessagesReturnPreservesEInv, RestartedPreservesEInv,
   EnvironmentPreservesEInv, StutterPreservesEInv
DEF DesktopNext, Event, Return, Quit, Killed

LEMMA EInvHolds == DesktopSpec => []EInv
BY InitEstablishesEInv, NextPreservesEInv, PTL DEF DesktopSpec

\* The main window is on top exactly while the server keeps a session for the
\* connection, and as the user typed: through every order of clicks, timers,
\* lost replies, ends of the server and of the program, and whatever other
\* clients do (NetworkClient.cpp:20-67, MainWindow.cpp:225-230).
THEOREM WindowIsTheSession == DesktopSpec => []WindowMatchesSession
<1>1. EInv => WindowMatchesSession
    BY DEF EInv, Replies, Agreement, AsTyped, WindowMatchesSession
<1> QED
    BY <1>1, EInvHolds, PTL

\* Whatever words are typed into the fields of the form, who has registered
\* can log in with the same in the two fields of the login
\* (RegisterWindow.cpp:119-125, CommandFactory.cpp:29-38).
THEOREM WhoRegistersCanLogIn == DesktopSpec => []RegisteredCanLogIn
<1>1. EInv => RegisteredCanLogIn
    <2> SUFFICES ASSUME EInv, doing("register"), reply.kind = "OK",
                        words(typed.name) # <<>>, words(typed.pass) # <<>>
                 PROVE  opensAccount(typed.name, typed.pass)
        BY DEF RegisteredCanLogIn
    <2>1. PICK mail \in Mail, role \in UserType, visibility \in ProfileVisibility :
              todo = <<call("register", registerText(typed.name, typed.pass, mail, role,
                                                     visibility))>>
        <3>1. ~PlainCalls(todo)
            BY PlainTail DEF doing, PlainCall, Special
        <3> QED
            BY <3>1 DEF EInv, Handler, doing, call, windowCall
    <2> DEFINE text == registerText(typed.name, typed.pass, mail, role, visibility)
    <2>2. Head(todo).text = text
        BY <2>1 DEF call
    <2>3. /\ typed.name \in Seq(Item) /\ typed.pass \in Seq(Item) /\ mail \in Seq(Item)
        BY TypedItems, TypedAssumption DEF EInv, Typed
    <2>4. /\ word(loginText(typed.name, typed.pass), 2) = word(text, 2)
          /\ word(loginText(typed.name, typed.pass), 3) = word(text, 3)
        BY <2>3, RegisterAndLoginWords
    <2> HIDE DEF text
    <2> QED
        BY <2>2, <2>4 DEF EInv, RegistrationHolds, opensAccount
<1> QED
    BY <1>1, EInvHolds, PTL
===============================================================================
