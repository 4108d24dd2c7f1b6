---------------------------- MODULE WritingProofs ----------------------------
(***************************************************************************)
(* Theorems of the messages windows: no text gets lost between a user and  *)
(* the database, and a text is stored more than once only when the server  *)
(* ended in between, for every value of the constants.                     *)
(***************************************************************************)
EXTENDS EntranceProofs

-------------------------------------------------------------------------------
(* The first line of a text, and what the server makes of it *)

lineBreaks(text) == {i \in DOMAIN text : text[i] = newline}

LEMMA LeastChosen ==
    ASSUME NEW T \in SUBSET Nat, NEW k \in T, \A j \in T : k <= j
    PROVE  (CHOOSE i \in T : \A j \in T : i <= j) = k
<1> DEFINE least == CHOOSE i \in T : \A j \in T : i <= j
<1>1. least \in T /\ \A j \in T : least <= j
    OBVIOUS
<1> HIDE DEF least
<1>2. least <= k /\ k <= least /\ least \in Nat /\ k \in Nat
    BY <1>1
<1>3. least = k
    BY <1>2
<1> QED
    BY <1>3 DEF least

LEMMA FirstLineUpTo ==
    ASSUME NEW S, NEW text \in Seq(S), NEW k \in lineBreaks(text),
           \A j \in lineBreaks(text) : k <= j
    PROVE  firstLine(text) = SubSeq(text, 1, k - 1)
<1>1. lineBreaks(text) \in SUBSET Nat /\ lineBreaks(text) # {}
    BY LenProperties DEF lineBreaks
<1>2. (CHOOSE i \in lineBreaks(text) : \A j \in lineBreaks(text) : i <= j) = k
    BY <1>1, LeastChosen
<1> QED
    BY <1>1, <1>2 DEF firstLine, lineBreaks

\* A blank before a text comes before its first line.
LEMMA FirstLineAfterBlank ==
    ASSUME NEW S, NEW line \in Seq(S), NEW text \in Seq(S),
           Len(line) = Len(text) + 1, line[1] = blank,
           \A i \in 1..Len(text) : line[i + 1] = text[i]
    PROVE  /\ firstLine(line) # <<>> /\ firstLine(line)[1] = blank
           /\ Tail(firstLine(line)) = firstLine(text)
<1>1. /\ Len(text) \in Nat /\ DOMAIN text = 1..Len(text)
      /\ DOMAIN line = 1..(Len(text) + 1) /\ line # <<>>
    BY LenProperties, EmptySeq
<1>2. \A i \in DOMAIN text : i + 1 \in lineBreaks(line) <=> i \in lineBreaks(text)
    BY <1>1 DEF lineBreaks
<1>3. 1 \notin lineBreaks(line)
    BY DEF lineBreaks, blank, newline
<1>4. CASE lineBreaks(text) = {}
    <2>1. lineBreaks(line) = {}
        <3> SUFFICES ASSUME NEW i \in lineBreaks(line) PROVE FALSE
            OBVIOUS
        <3>1. i \in 2..(Len(text) + 1)
            BY <1>1, <1>3 DEF lineBreaks
        <3>2. i - 1 \in DOMAIN text /\ (i - 1) + 1 = i
            BY <3>1, <1>1
        <3> QED
            BY <3>2, <1>2, <1>4
    <2>2. firstLine(line) = line /\ firstLine(text) = text
        BY <1>4, <2>1 DEF firstLine, lineBreaks
    <2>3. Tail(line) = text
        <3>1. /\ Tail(line) \in Seq(S) /\ Len(Tail(line)) = Len(text)
              /\ \A i \in 1..Len(text) : Tail(line)[i] = line[i + 1]
            BY <1>1, HeadTailProperties
        <3> QED
            BY <3>1, SeqEqual
    <2> QED
        BY <1>1, <2>2, <2>3
<1>5. CASE lineBreaks(text) # {}
    <2>1. lineBreaks(text) \in SUBSET Nat
        BY <1>1 DEF lineBreaks
    <2>2. PICK k \in lineBreaks(text) : \A j \in lineBreaks(text) : k <= j
        BY <1>5, <2>1, LeastNumber
    <2>3. k \in 1..Len(text)
        BY <1>1, <2>2 DEF lineBreaks
    <2>4. k + 1 \in lineBreaks(line)
        BY <1>1, <1>2, <2>2, <2>3
    <2>5. \A j \in lineBreaks(line) : k + 1 <= j
        <3> TAKE j \in lineBreaks(line)
        <3>1. j \in 2..(Len(text) + 1)
            BY <1>1, <1>3 DEF lineBreaks
        <3>2. j - 1 \in DOMAIN text /\ (j - 1) + 1 = j
            BY <3>1, <1>1
        <3>3. k <= j - 1
            BY <3>2, <1>2, <2>2
        <3> QED
            BY <3>1, <3>3, <2>3
    <2>6. firstLine(text) = SubSeq(text, 1, k - 1)
        BY <2>2, FirstLineUpTo
    <2>7. firstLine(line) = SubSeq(line, 1, k)
        <3>1. firstLine(line) = SubSeq(line, 1, (k + 1) - 1)
            BY <2>4, <2>5, FirstLineUpTo
        <3> QED
            BY <3>1, <2>3
    <2>8. /\ SubSeq(line, 1, k) \in Seq(S) /\ Len(SubSeq(line, 1, k)) = k
          /\ \A i \in 1..k : SubSeq(line, 1, k)[i] = line[i]
        <3>1. \A i \in 1..k : line[i] \in S
            BY <1>1, <2>3, ElementOfSeq
        <3>2. \A i \in 1..((k - 1) + 1) : SubSeq(line, 1, k)[i] = line[(1 + i) - 1]
            BY <3>1, <2>3, SubSeqProperties
        <3>3. SubSeq(line, 1, k) \in Seq(S) /\ Len(SubSeq(line, 1, k)) = (k - 1) + 1
            BY <3>1, <2>3, SubSeqProperties
        <3> QED
            BY <3>2, <3>3, <2>3
    <2>9. /\ SubSeq(text, 1, k - 1) \in Seq(S) /\ Len(SubSeq(text, 1, k - 1)) = k - 1
          /\ \A i \in 1..(k - 1) : SubSeq(text, 1, k - 1)[i] = text[i]
        <3>1. \A i \in 1..(k - 1) : text[i] \in S
            BY <1>1, <2>3, ElementOfSeq
        <3>2. \A i \in 1..(((k - 1) - 1) + 1) :
                 SubSeq(text, 1, k - 1)[i] = text[(1 + i) - 1]
            BY <3>1, <2>3, SubSeqProperties
        <3>3. /\ SubSeq(text, 1, k - 1) \in Seq(S)
              /\ Len(SubSeq(text, 1, k - 1)) = IF 1 <= k - 1 THEN ((k - 1) - 1) + 1 ELSE 0
            BY <3>1, <2>3, SubSeqProperties
        <3> QED
            BY <3>2, <3>3, <2>3
    <2> DEFINE front == SubSeq(line, 1, k)
               start == SubSeq(text, 1, k - 1)
    <2> HIDE DEF front, start
    <2>10. /\ front \in Seq(S) /\ Len(front) = k /\ \A i \in 1..k : front[i] = line[i]
           /\ start \in Seq(S) /\ Len(start) = k - 1
           /\ \A i \in 1..(k - 1) : start[i] = text[i]
        BY <2>8, <2>9 DEF front, start
    <2>11. front # <<>> /\ front[1] = blank
        BY <2>3, <2>10, EmptySeq
    <2>12. /\ Tail(front) \in Seq(S) /\ Len(Tail(front)) = k - 1
           /\ \A i \in 1..(k - 1) : Tail(front)[i] = front[i + 1]
        BY <2>10, <2>11, HeadTailProperties
    <2>13. \A i \in 1..(k - 1) : Tail(front)[i] = start[i]
        BY <2>3, <2>10, <2>12
    <2>14. Tail(front) = start
        BY <2>10, <2>12, <2>13, SeqEqual
    <2> QED
        BY <2>6, <2>7, <2>11, <2>14 DEF front, start
<1> QED
    BY <1>4, <1>5

\* What the server stores of a text that was typed is its first line.
LEMMA SentLine ==
    ASSUME NEW typedText \in Seq(STRING), NEW text, text = <<"send", blank>> \o typedText
    PROVE  /\ word(text, 1) = "send"
           /\ content(text, 1) = IF firstLine(typedText) = <<>> THEN Empty
                                                                ELSE firstLine(typedText)
<1> DEFINE start == <<"send", blank>>
<1>1. start \in Seq(Item) /\ Len(start) = 2 /\ start[1] = "send" /\ start[2] = blank
    <2>1. "send" \in Item /\ blank \in Item
        BY DEF Item
    <2> QED
        BY <2>1
<1>2. text = start \o typedText
    OBVIOUS
<1> HIDE DEF start
<1>3. typedText \in Seq(Item) /\ text \in Seq(Item) /\ IsJoin(text, start, typedText)
    BY <1>1, <1>2, TypedItems, Joined
<1>4. /\ Len(typedText) \in Nat /\ Len(text) = Len(typedText) + 2 /\ text # <<>>
      /\ text[1] = "send" /\ text[2] = blank
      /\ \A i \in 1..Len(typedText) : text[i + 2] = typedText[i]
    BY <1>1, <1>3, EmptySeq DEF IsJoin
<1>5. nthWordAt(text, 1) = {1} /\ word(text, 1) = "send"
    <2>1. isWord(text[1])
        BY <1>4 DEF isWord, blank, newline
    <2> QED
        BY <2>1, <1>3, <1>4, FirstWord
<1> DEFINE line == SubSeq(text, 2, Len(text))
<1>6. /\ line \in Seq(Item) /\ Len(line) = Len(typedText) + 1
      /\ \A i \in 1..(Len(typedText) + 1) : line[i] = text[i + 1]
    <2>1. \A i \in 2..Len(text) : text[i] \in Item
        BY <1>3, <1>4, ElementOfSeq
    <2>2. /\ line \in Seq(Item)
          /\ Len(line) = IF 2 <= Len(text) THEN (Len(text) - 2) + 1 ELSE 0
          /\ \A i \in 1..((Len(text) - 2) + 1) : line[i] = text[(2 + i) - 1]
        BY <2>1, <1>4, SubSeqProperties
    <2> HIDE DEF line
    <2> QED
        BY <2>2, <1>4
<1> HIDE DEF line
<1>7. line[1] = blank /\ \A i \in 1..Len(typedText) : line[i + 1] = typedText[i]
    BY <1>4, <1>6
<1>8. /\ firstLine(line) # <<>> /\ firstLine(line)[1] = blank
      /\ Tail(firstLine(line)) = firstLine(typedText)
    BY <1>3, <1>6, <1>7, FirstLineAfterBlank
<1>9. restOfLine(text, 1) = firstLine(typedText)
    <2>1. (CHOOSE i \in nthWordAt(text, 1) : TRUE) = 1
        BY <1>5
    <2>2. line = SubSeq(text, 1 + 1, Len(text))
        BY DEF line
    <2> QED
        BY <2>1, <2>2, <1>5, <1>8 DEF restOfLine
<1> QED
    BY <1>5, <1>9 DEF content

-------------------------------------------------------------------------------
(* The messages stored *)

\* A step stores nothing, or one more message that says c.
Stores(c) ==
    \E conversation_id, sender :
        messages' = Append(messages, [conversation_id |-> conversation_id,
                                      sender |-> sender, content |-> c])

LEMMA OneMoreStored ==
    ASSUME IsSeq(messages), NEW c, Stores(c)
    PROVE  /\ IsSeq(messages')
           /\ Len(messages) \in Nat /\ DOMAIN messages = 1..Len(messages)
           /\ Len(messages') = Len(messages) + 1
           /\ DOMAIN messages' = 1..(Len(messages) + 1)
           /\ messages'[Len(messages) + 1].content = c
           /\ \A m \in 1..Len(messages) : messages'[m] = messages[m]
<1>1. PICK conversation_id, sender :
          messages' = Append(messages, [conversation_id |-> conversation_id,
                                        sender |-> sender, content |-> c])
    BY DEF Stores
<1> DEFINE row == [conversation_id |-> conversation_id, sender |-> sender, content |-> c]
           S == {messages[m] : m \in DOMAIN messages} \cup {row}
<1>2. messages \in Seq(S) /\ row \in S /\ row.content = c
    BY SeqMonotonic DEF IsSeq
<1> HIDE DEF row, S
<1>3. /\ messages' \in Seq(S) /\ Len(messages') = Len(messages) + 1
      /\ \A m \in 1..Len(messages) : messages'[m] = messages[m]
      /\ messages'[Len(messages) + 1] = row
    BY <1>1, <1>2, AppendProperties DEF row
<1>4. /\ Len(messages) \in Nat /\ DOMAIN messages = 1..Len(messages)
      /\ DOMAIN messages' = 1..Len(messages')
    BY <1>2, <1>3, LenProperties
<1> QED
    BY <1>2, <1>3, <1>4, SomeSeq

LEMMA CopiesAfter ==
    ASSUME IsSeq(messages), NEW c, Stores(c), NEW text
    PROVE  copies(text)' = IF c = firstLine(text) THEN copies(text) \cup {Len(messages) + 1}
                                                  ELSE copies(text)
<1>1. /\ Len(messages) \in Nat /\ DOMAIN messages = 1..Len(messages)
      /\ DOMAIN messages' = 1..(Len(messages) + 1)
      /\ messages'[Len(messages) + 1].content = c
      /\ \A m \in 1..Len(messages) : messages'[m] = messages[m]
    BY OneMoreStored
<1>2. \A m : m \in copies(text)' <=>
                \/ m \in copies(text)
                \/ m = Len(messages) + 1 /\ c = firstLine(text)
    BY <1>1 DEF copies
<1> QED
    BY <1>2

LEMMA OneCopyMore ==
    ASSUME IsSeq(messages), NEW c, Stores(c), NEW text, IsFiniteSet(copies(text))
    PROVE  /\ IsFiniteSet(copies(text)') /\ Cardinality(copies(text)) \in Nat
           /\ Cardinality(copies(text)') = IF c = firstLine(text)
                                           THEN Cardinality(copies(text)) + 1
                                           ELSE Cardinality(copies(text))
<1>1. Len(messages) + 1 \notin copies(text)
    BY OneMoreStored DEF copies
<1>2. Cardinality(copies(text)) \in Nat
    BY FS_CardinalityType
<1>3. CASE c = firstLine(text)
    <2>1. copies(text)' = copies(text) \cup {Len(messages) + 1}
        BY <1>3, CopiesAfter
    <2>2. /\ IsFiniteSet(copies(text) \cup {Len(messages) + 1})
          /\ Cardinality(copies(text) \cup {Len(messages) + 1})
                = Cardinality(copies(text)) + 1
        BY <1>1, FS_AddElement
    <2> QED
        BY <1>2, <1>3, <2>1, <2>2
<1>4. CASE c # firstLine(text)
    <2>1. copies(text)' = copies(text)
        BY <1>4, CopiesAfter
    <2> QED
        BY <1>2, <1>4, <2>1
<1> QED
    BY <1>3, <1>4

-------------------------------------------------------------------------------
(* The inductive invariant *)

\* The text in the field of w is stored, and its window is about to know.
Confirmed(w) == doing("send") /\ Head(todo).window = w /\ repliedOK

\* What the user will send, for the first time or again.
Available(text) ==
    \/ text \in toWrite
    \/ \E w \in Window : messageInput[w] = text /\ ~Confirmed(w)

\* A text is at one place at most.
OnePlace ==
    /\ toWrite \subseteq Text
    /\ \A w \in Window :
          messageInput[w] # <<>> =>
              /\ messageInput[w] \notin toWrite
              /\ \A v \in Window : messageInput[v] = messageInput[w] => v = w

ConfirmedIsStored == \A w \in Window : Confirmed(w) => copies(messageInput[w]) # {}

\* A text that will be sent again has cost a crash for every copy there is.
CopiesCounted ==
    DistinctTexts =>
        \A text \in Text :
            /\ IsFiniteSet(copies(text))
            /\ Cardinality(copies(text)) <= IF Available(text) THEN crashes ELSE 1 + crashes

WInv ==
    /\ IsSeq(messages) /\ crashes \in Nat
    /\ OnePlace
    /\ TypedIsKept
    /\ ConfirmedIsStored
    /\ CopiesCounted

LEMMA InitEstablishesWInv == DesktopInit => WInv
<1> SUFFICES ASSUME DesktopInit PROVE WInv
    OBVIOUS
<1> USE DEF DesktopInit, NetworkInit, MainInit, MessagesInit, Init, DatabaseInit
<1>1. IsSeq(messages) /\ crashes \in Nat
    BY ShortTexts
<1>2. \A text : copies(text) = {}
    BY DEF copies
<1>3. OnePlace /\ TypedIsKept /\ ConfirmedIsStored
    BY DEF OnePlace, TypedIsKept, ConfirmedIsStored, Confirmed, doing
<1>4. CopiesCounted
    <2>1. IsFiniteSet({}) /\ Cardinality({}) = 0 /\ crashes = 0
        BY FS_EmptySet
    <2>2. ASSUME NEW text \in Text
          PROVE  /\ IsFiniteSet(copies(text)) /\ Cardinality(copies(text)) = 0
        BY <1>2, <2>1
    <2> QED
        BY <2>1, <2>2 DEF CopiesCounted
<1> QED
    BY <1>1, <1>3, <1>4 DEF WInv

-------------------------------------------------------------------------------
(* Steps that leave the texts where they are *)

\* Of the messages that others write, none is a copy.
OthersStore == UNCHANGED messages \/ \E c \in PeerText : Stores(c)

LEMMA TextsStay ==
    ASSUME WInv, UNCHANGED <<toWrite, messageInput>>, OthersStore,
           crashes' \in Nat, crashes' >= crashes,
           \A w \in Window : Confirmed(w)' => Confirmed(w),
           \/ crashes' > crashes
           \/ \A w \in Window : Confirmed(w) => Confirmed(w)'
    PROVE  WInv'
<1>1. IsSeq(messages)'
    BY OneMoreStored DEF WInv, OthersStore
<1>2. OnePlace'
    BY DEF WInv, OnePlace
<1>3. ASSUME NEW text
      PROVE  copies(text) \subseteq copies(text)'
    <2>1. CASE UNCHANGED messages
        BY <2>1 DEF copies
    <2>2. CASE \E c \in PeerText : Stores(c)
        BY <2>2, CopiesAfter DEF WInv
    <2> QED
        BY <2>1, <2>2 DEF OthersStore
<1>4. TypedIsKept' /\ ConfirmedIsStored'
    <2>1. \A text : copies(text) # {} => copies(text)' # {}
        BY <1>3
    <2>2. TypedIsKept'
        BY <2>1 DEF WInv, TypedIsKept
    <2>3. \A w \in Window : Confirmed(w)' => copies(messageInput[w])' # {}
        BY <2>1 DEF WInv, ConfirmedIsStored, copies
    <2> QED
        BY <2>2, <2>3 DEF ConfirmedIsStored
<1>5. CopiesCounted'
    <2> SUFFICES ASSUME DistinctTexts, NEW text \in Text
                 PROVE  /\ IsFiniteSet(copies(text)')
                        /\ Cardinality(copies(text)')
                              <= IF Available(text)' THEN crashes' ELSE 1 + crashes'
        BY DEF CopiesCounted, DistinctTexts
    <2>1. copies(text)' = copies(text)
        <3>1. CASE UNCHANGED messages
            BY <3>1 DEF copies
        <3>2. CASE \E c \in PeerText : Stores(c)
            BY <3>2, CopiesAfter DEF WInv, DistinctTexts
        <3> QED
            BY <3>1, <3>2 DEF OthersStore
    <2>2. /\ IsFiniteSet(copies(text))
          /\ Cardinality(copies(text)) <= IF Available(text) THEN crashes ELSE 1 + crashes
        BY DEF WInv, CopiesCounted
    <2>3. Cardinality(copies(text)) \in Nat /\ crashes \in Nat
        BY <2>2, FS_CardinalityType DEF WInv
    <2>4. CASE crashes' > crashes
        BY <2>1, <2>2, <2>3, <2>4
    <2>5. CASE \A w \in Window : Confirmed(w) => Confirmed(w)'
        <3>1. Available(text)' => Available(text)
            BY <2>5 DEF Available
        <3> QED
            BY <2>1, <2>2, <2>3, <3>1
    <2> QED
        BY <2>4, <2>5
<1> QED
    BY <1>1, <1>2, <1>4, <1>5 DEF WInv

\* No window waits for a confirmation, before or after.
LEMMA NobodySends ==
    ASSUME WInv, UNCHANGED <<toWrite, messageInput, crashes>>, OthersStore,
           \A w \in Window : ~Confirmed(w) /\ ~Confirmed(w)'
    PROVE  WInv'
<1>1. crashes \in Nat
    BY DEF WInv
<1> QED
    BY <1>1, TextsStay

LEMMA NotConfirmed ==
    /\ ~doing("send") => \A w : ~Confirmed(w)
    /\ reply = Waiting => \A w : ~Confirmed(w)
BY DEF Confirmed, Waiting, repliedOK

LEMMA EnvironmentPreservesWInv ==
    ASSUME EInv, WInv, Environment
    PROVE  WInv'
<1>1. UNCHANGED <<mainVars, todo, toWrite, messageInput>> /\ Elsewhere
    BY DEF Environment, messagesVars
<1>2. crashes \in Nat
    BY DEF WInv
<1>3. ASSUME UNCHANGED <<reply, crashes>>, OthersStore
      PROVE  WInv'
    <2>1. \A w \in Window : Confirmed(w)' <=> Confirmed(w)
        BY <1>1, <1>3 DEF Confirmed, doing, repliedOK
    <2> QED
        BY <1>1, <1>2, <1>3, <2>1, TextsStay
<1>4. ASSUME NEW sd \in Sd, PeerConnects(sd) \/ Leaves(sd)
      PROVE  WInv'
    <2>1. UNCHANGED <<reply, crashes, messages>>
        BY <1>4 DEF PeerConnects, Leaves, Accept, Disconnect, databaseVars, messagingVars
    <2> QED
        BY <2>1, <1>3 DEF OthersStore
<1>5. ASSUME NEW sd \in Sd, PeerCommand(sd)
      PROVE  WInv'
    <2>1. /\ UNCHANGED <<reply, crashes>> /\ ServedOn(sd, Content)
          /\ messages' # messages => messages'[Len(messages')].content \in PeerText
        BY <1>5, ServeServes DEF PeerCommand, networkVars, EInv
    <2>2. CASE UNCHANGED messages
        BY <2>1, <2>2, <1>3 DEF OthersStore
    <2>3. CASE messages' # messages
        <3>1. PICK c \in Content : Stores(c)
            BY <2>1, <2>3 DEF ServedOn, OneMessageMore, Stores
        <3>2. messages'[Len(messages')].content = c
            BY <3>1, OneMoreStored DEF WInv
        <3> QED
            BY <2>1, <2>3, <3>1, <3>2, <1>3 DEF OthersStore
    <2> QED
        BY <2>2, <2>3
<1>6. CASE Crash
    <2>1. UNCHANGED messages /\ crashes' \in Nat /\ crashes' > crashes
        BY <1>2, <1>6 DEF Crash, Restart, databaseVars, messagingVars
    <2>2. \A w \in Window : Confirmed(w)' => Confirmed(w)
        <3>1. reply' = reply \/ reply'.kind = "ERROR"
            BY <1>6 DEF Crash, Failed
        <3> QED
            BY <1>1, <3>1 DEF Confirmed, doing, repliedOK
    <2> QED
        BY <1>1, <1>2, <2>1, <2>2, TextsStay DEF OthersStore
<1>7. CASE Start
    BY <1>3, <1>7 DEF Start, vars, databaseVars, messagingVars, OthersStore
<1> QED
    BY <1>1, <1>4, <1>5, <1>6, <1>7 DEF Elsewhere

-------------------------------------------------------------------------------
(* Steps that store nothing and move texts *)

LEMMA TextsMove ==
    ASSUME WInv, UNCHANGED <<messages, crashes>>, OnePlace', TypedIsKept',
           \A w \in Window : ~Confirmed(w)',
           \A text \in Text : Available(text)' => Available(text)
    PROVE  WInv'
<1>1. ConfirmedIsStored'
    BY DEF ConfirmedIsStored
<1>2. CopiesCounted'
    <2> SUFFICES ASSUME DistinctTexts, NEW text \in Text
                 PROVE  /\ IsFiniteSet(copies(text)')
                        /\ Cardinality(copies(text)')
                              <= IF Available(text)' THEN crashes' ELSE 1 + crashes'
        BY DEF CopiesCounted, DistinctTexts
    <2>1. copies(text)' = copies(text) /\ crashes \in Nat
        BY DEF WInv, copies
    <2>2. /\ IsFiniteSet(copies(text))
          /\ Cardinality(copies(text)) <= IF Available(text) THEN crashes ELSE 1 + crashes
        BY DEF WInv, CopiesCounted
    <2>3. Cardinality(copies(text)) \in Nat
        BY <2>2, FS_CardinalityType
    <2> QED
        BY <2>1, <2>2, <2>3
<1> QED
    BY <1>1, <1>2 DEF WInv

\* When the program begins again every text in a field is to be written again.
LEMMA RestartedPreservesWInv ==
    ASSUME WInv, StartsAgain, \A w \in Window : ~Confirmed(w),
           messageInput \in [Window -> Text \cup {<<>>}]
    PROVE  WInv'
<1>1. /\ UNCHANGED <<messages, crashes>> /\ reply' = Waiting /\ todo' = <<>>
      /\ toWrite' = toWrite \cup ({messageInput[w] : w \in Window} \ {<<>>})
      /\ messageInput' = [w \in Window |-> <<>>]
    BY DEF StartsAgain, vars, databaseVars, messagingVars
<1>2. OnePlace'
    BY <1>1 DEF WInv, OnePlace
<1>3. \A text : copies(text)' = copies(text)
    BY <1>1 DEF copies
<1>4. TypedIsKept'
    <2> SUFFICES ASSUME NEW text \in Text, text \notin toWrite', copies(text)' = {}
                 PROVE  FALSE
        BY DEF TypedIsKept
    <2>1. PICK w \in Window : messageInput[w] = text
        BY <1>1, <1>3 DEF WInv, TypedIsKept
    <2> QED
        BY <1>1, <2>1, TypedAssumption
<1>5. \A text \in Text : Available(text)' => Available(text)
    <2> SUFFICES ASSUME NEW text \in Text, Available(text)' PROVE Available(text)
        OBVIOUS
    <2>1. text # <<>>
        BY TypedAssumption
    <2>2. text \in toWrite'
        BY <1>1, <2>1 DEF Available
    <2> QED
        BY <1>1, <2>2 DEF Available
<1>6. \A w \in Window : ~Confirmed(w)'
    BY <1>1 DEF Confirmed, doing
<1> QED
    BY <1>1, <1>2, <1>4, <1>5, <1>6, TextsMove

LEMMA TypesPreservesWInv ==
    ASSUME WInv, NEW w \in Window, NEW text \in Text, Types(w, text), reply = Waiting,
           messageInput \in [Window -> Text \cup {<<>>}]
    PROVE  WInv'
<1>1. /\ messageInput[w] = <<>> /\ text \in toWrite
      /\ messageInput' = [messageInput EXCEPT ![w] = text] /\ toWrite' = toWrite \ {text}
      /\ UNCHANGED <<messages, crashes, reply>>
    BY DEF Types, Calls, vars, databaseVars, messagingVars, networkVars
<1>2. <<>> \notin Text
    BY TypedAssumption
<1>3. OnePlace'
    <2>1. toWrite' \subseteq Text
        BY <1>1 DEF WInv, OnePlace
    <2>2. ASSUME NEW v \in Window, messageInput'[v] # <<>>
          PROVE  /\ messageInput'[v] \notin toWrite'
                 /\ \A u \in Window : messageInput'[u] = messageInput'[v] => u = v
        BY <1>1, <2>2 DEF WInv, OnePlace
    <2> QED
        BY <2>1, <2>2 DEF OnePlace
<1>4. TypedIsKept'
    BY <1>1, <1>2 DEF WInv, TypedIsKept, copies
<1>5. \A v \in Window : ~Confirmed(v) /\ ~Confirmed(v)'
    BY <1>1 DEF Confirmed, Waiting, repliedOK
<1>6. \A other \in Text : Available(other)' => Available(other)
    BY <1>1, <1>5 DEF Available
<1> QED
    BY <1>1, <1>3, <1>4, <1>5, <1>6, TextsMove

LEMMA SendReturnedPreservesWInv ==
    ASSUME WInv, NEW w \in Window, SendReturned(w),
           messageInput \in [Window -> Text \cup {<<>>}]
    PROVE  WInv'
<1>1. /\ doing("send") /\ Head(todo).window = w /\ reply' = Waiting
      /\ messageInput' = [messageInput EXCEPT ![w] = IF repliedOK THEN <<>> ELSE @]
      /\ UNCHANGED <<messages, crashes, toWrite>>
    BY DEF SendReturned, Returned, databaseVars, messagingVars
<1>2. \A v \in Window : ~Confirmed(v)'
    BY <1>1 DEF Confirmed, Waiting, repliedOK
<1>3. CASE ~repliedOK
    <2>1. \A v \in Window : ~Confirmed(v)
        BY <1>3 DEF Confirmed
    <2>2. UNCHANGED messageInput
        BY <1>1, <1>3
    <2> QED
        BY <1>1, <1>2, <2>1, <2>2, NobodySends DEF OthersStore
<1>4. CASE repliedOK
    <2>1. copies(messageInput[w]) # {}
        BY <1>1, <1>4 DEF WInv, ConfirmedIsStored, Confirmed
    <2>2. messageInput' = [messageInput EXCEPT ![w] = <<>>]
        BY <1>1, <1>4
    <2>3. OnePlace'
        <3>1. toWrite' \subseteq Text
            BY <1>1 DEF WInv, OnePlace
        <3>2. ASSUME NEW v \in Window, messageInput'[v] # <<>>
              PROVE  /\ messageInput'[v] \notin toWrite'
                     /\ \A u \in Window : messageInput'[u] = messageInput'[v] => u = v
            BY <1>1, <2>2, <3>2 DEF WInv, OnePlace
        <3> QED
            BY <3>1, <3>2 DEF OnePlace
    <2>4. TypedIsKept'
        <3>1. \A text : copies(text)' = copies(text)
            BY <1>1 DEF copies
        <3>2. ASSUME NEW text \in Text
              PROVE  \/ text \in toWrite'
                     \/ \E v \in Window : messageInput'[v] = text
                     \/ copies(text)' # {}
            BY <1>1, <2>1, <2>2, <3>1 DEF WInv, TypedIsKept
        <3> QED
            BY <3>2 DEF TypedIsKept
    <2>5. \A text \in Text : Available(text)' => Available(text)
        <3> SUFFICES ASSUME NEW text \in Text, Available(text)' PROVE Available(text)
            OBVIOUS
        <3>1. text # <<>>
            BY TypedAssumption
        <3>2. \A v \in Window : v # w => ~Confirmed(v)
            BY <1>1 DEF Confirmed
        <3> QED
            BY <1>1, <2>2, <3>1, <3>2 DEF Available
    <2> QED
        BY <1>1, <1>2, <2>3, <2>4, <2>5, TextsMove
<1> QED
    BY <1>3, <1>4

-------------------------------------------------------------------------------
(* Calls *)

\* Only the call that sends a text begins with the word for it.
LEMMA OtherWords ==
    ASSUME EInv, todo # <<>>, ~doing("send")
    PROVE  word(Head(todo).text, 1) # "send"
<1>1. typed.name \in Seq(Item) /\ typed.pass \in Seq(Item)
    BY TypedItems DEF EInv, Typed
<1>2. CASE PlainCalls(todo)
    <2>1. PlainCall(Head(todo))
        BY <1>2, PlainTail
    <2> QED
        BY <2>1 DEF PlainCall, Special
<1>3. CASE todo = <<call("login", loginText(typed.name, typed.pass))>>
    <2>1. word(loginText(typed.name, typed.pass), 1) = "login"
        BY <1>1, LoginWords
    <2>2. Head(todo).text = loginText(typed.name, typed.pass)
        BY <1>3 DEF call
    <2> QED
        BY <2>1, <2>2
<1>4. ASSUME NEW mail \in Mail, NEW role \in UserType, NEW visibility \in ProfileVisibility,
             todo = <<call("register", registerText(typed.name, typed.pass, mail, role,
                                                    visibility))>>
      PROVE  word(Head(todo).text, 1) # "send"
    <2> DEFINE text == registerText(typed.name, typed.pass, mail, role, visibility)
    <2>1. Head(todo).text = text
        BY <1>4 DEF call
    <2>2. mail \in Seq(Item)
        BY TypedItems, TypedAssumption
    <2>3. text \in Seq(Item) /\ Starts(text, "register", typed.name, typed.pass)
        BY <1>1, <2>2, RegisterForm
    <2> HIDE DEF text
    <2>4. word(text, 1) = "register"
        BY <2>3, FormCommand
    <2> QED
        BY <2>1, <2>4
<1>5. CASE todo = <<call("logout", <<"logout">>)>>
    <2>1. word(<<"logout">>, 1) = "logout"
        BY CommandOnly, CommandWord DEF isWord, blank, newline
    <2>2. Head(todo).text = <<"logout">>
        BY <1>5 DEF call
    <2> QED
        BY <2>1, <2>2
<1>6. ASSUME NEW w \in Window,
             todo = <<windowCall(w, "send", <<"send", blank>> \o messageInput[w])>>
      PROVE  FALSE
    BY <1>6 DEF doing, windowCall
<1> QED
    BY <1>2, <1>3, <1>4, <1>5, <1>6 DEF EInv, Handler

LEMMA OtherCommandsStoreNothing ==
    ASSUME NEW sd, NEW text, execute(sd, text), word(text, 1) # "send"
    PROVE  UNCHANGED messages
<1> USE DEF Quiet
<1>1. ASSUME NEW name, NEW password, LoginCommand(sd, name, password)
      PROVE  UNCHANGED messages
    BY <1>1, RefuseIsQuiet DEF LoginCommand, databaseVars, messagingVars
<1>2. CASE RegisterWords(sd, text)
    BY <1>2, RefuseIsQuiet DEF RegisterWords, RegisterCommand, messagingVars
<1>3. CASE LogoutCommand(sd)
    BY <1>3, RefuseIsQuiet DEF LogoutCommand, databaseVars, messagingVars
<1>4. ASSUME NEW v, SetProfileVisibilityCommand(sd, v)
      PROVE  UNCHANGED messages
    BY <1>4, RefuseIsQuiet DEF SetProfileVisibilityCommand, messagingVars
<1> QED
    BY <1>1, <1>2, <1>3, <1>4, ExecuteCases DEF Special

\* The window whose text is stored gets its confirmation: the text is its own,
\* and nothing that will be sent again.
LEMMA StoredPreservesWInv ==
    ASSUME WInv, NEW w \in Window, UNCHANGED <<toWrite, messageInput, crashes, todo>>,
           messageInput \in [Window -> Text \cup {<<>>}],
           doing("send"), Head(todo).window = w, reply = Waiting, reply'.kind = "OK",
           Stores(firstLine(messageInput[w])), firstLine(messageInput[w]) # <<>>
    PROVE  WInv'
<1> DEFINE line == firstLine(messageInput[w])
<1>1. /\ \A v \in Window : ~Confirmed(v)
      /\ \A v \in Window : Confirmed(v)' <=> v = w
    BY DEF Confirmed, Waiting, repliedOK, doing
<1>2. messageInput[w] \in Text
    BY DEF firstLine
<1>3. IsSeq(messages)' /\ crashes' \in Nat
    BY OneMoreStored DEF WInv
<1>4. OnePlace'
    BY DEF WInv, OnePlace
<1>5. \A text : copies(text)' = IF line = firstLine(text)
                                THEN copies(text) \cup {Len(messages) + 1}
                                ELSE copies(text)
    BY CopiesAfter DEF WInv
<1>6. TypedIsKept'
    <2>1. \A text : copies(text) # {} => copies(text)' # {}
        BY <1>5
    <2> QED
        BY <2>1 DEF WInv, TypedIsKept
<1>7. ConfirmedIsStored'
    <2>1. PICK text : text = messageInput[w]
        OBVIOUS
    <2>2. copies(text)' # {}
        BY <1>5, <2>1
    <2>3. copies(messageInput[w])' = copies(text)'
        BY <2>1 DEF copies
    <2> QED
        BY <1>1, <2>2, <2>3 DEF ConfirmedIsStored
<1>8. CopiesCounted'
    <2> SUFFICES ASSUME DistinctTexts, NEW text \in Text
                 PROVE  /\ IsFiniteSet(copies(text)')
                        /\ Cardinality(copies(text)')
                              <= IF Available(text)' THEN crashes' ELSE 1 + crashes'
        BY DEF CopiesCounted, DistinctTexts
    <2>1. /\ IsFiniteSet(copies(text)) /\ IsSeq(messages) /\ crashes \in Nat
          /\ Cardinality(copies(text)) <= IF Available(text) THEN crashes ELSE 1 + crashes
        BY DEF WInv, CopiesCounted
    <2>2. /\ IsFiniteSet(copies(text)') /\ Cardinality(copies(text)) \in Nat
          /\ Cardinality(copies(text)') = IF line = firstLine(text)
                                          THEN Cardinality(copies(text)) + 1
                                          ELSE Cardinality(copies(text))
        BY <2>1, OneCopyMore
    <2>3. CASE text = messageInput[w]
        <3>1. Available(text)
            BY <2>3, <1>1 DEF Available
        <3>2. text # <<>>
            BY TypedAssumption
        <3>3. ~Available(text)'
            BY <2>3, <3>2, <1>1 DEF WInv, OnePlace, Available
        <3> QED
            BY <2>1, <2>2, <2>3, <3>1, <3>3
    <2>4. CASE text # messageInput[w]
        <3>1. line # firstLine(text)
            BY <2>4, <1>2 DEF DistinctTexts
        <3>2. Available(text)' => Available(text)
            BY <1>1 DEF Available
        <3> QED
            BY <2>1, <2>2, <3>1, <3>2
    <2> QED
        BY <2>3, <2>4
<1> QED
    BY <1>3, <1>4, <1>6, <1>7, <1>8 DEF WInv

LEMMA CallPreservesWInv ==
    ASSUME EInv, WInv, Call
    PROVE  WInv'
<1>1. /\ reply = Waiting /\ todo # <<>>
      /\ Answered(Head(todo).text) \/ SendFails \/ NoAnswer
      /\ UNCHANGED <<mainVars, todo, toWrite, messageInput, crashes>>
    BY DEF Call, sendCommand, messagesVars
<1>2. \A w \in Window : ~Confirmed(w)
    BY <1>1, NotConfirmed
<1>3. CASE SendFails \/ NoAnswer
    <2>1. UNCHANGED messages /\ reply'.kind = "ERROR"
        BY <1>3 DEF SendFails, NoAnswer, Failed, vars, databaseVars, messagingVars
    <2>2. \A w \in Window : ~Confirmed(w)'
        BY <2>1 DEF Confirmed, repliedOK
    <2> QED
        BY <1>1, <1>2, <2>1, <2>2, NobodySends DEF OthersStore
<1>4. CASE Answered(Head(todo).text) /\ ~doing("send")
    <2>1. UNCHANGED messages
        BY <1>1, <1>4, OtherWords, OtherCommandsStoreNothing DEF Answered
    <2>2. \A w \in Window : ~Confirmed(w)'
        BY <1>1, <1>4 DEF Confirmed, doing
    <2> QED
        BY <1>1, <1>2, <2>1, <2>2, NobodySends DEF OthersStore
<1>5. CASE Answered(Head(todo).text) /\ doing("send")
    <2>1. PICK w \in Window :
              todo = <<windowCall(w, "send", <<"send", blank>> \o messageInput[w])>>
        <3>1. ~PlainCalls(todo)
            BY <1>1, <1>5, PlainTail DEF doing, PlainCall, Special
        <3> QED
            BY <1>5, <3>1 DEF EInv, Handler, doing, call
    <2> DEFINE text == <<"send", blank>> \o messageInput[w]
               line == firstLine(messageInput[w])
    <2>2. Head(todo).text = text /\ Head(todo).window = w
        BY <2>1 DEF windowCall
    <2>3. messageInput \in [Window -> Text \cup {<<>>}] /\ messageInput[w] \in Seq(STRING)
        BY TypedAssumption, EmptySeq DEF EInv, Typed
    <2>4. /\ word(text, 1) = "send"
          /\ content(text, 1) = IF line = <<>> THEN Empty ELSE line
        BY <2>3, SentLine
    <2>5. execute(sock, text) /\ reply'.kind = response'.kind
        BY <1>5, <2>2 DEF Answered
    <2> HIDE DEF text
    <2>6. \/ Refuse(sock)
          \/ content(text, 1) # Empty /\ SendCommand(sock, content(text, 1))
        BY <2>4, <2>5, ExecuteCases
    <2>7. CASE Refuse(sock)
        <3>1. UNCHANGED messages /\ reply'.kind = "ERROR"
            BY <2>5, <2>7, RefuseIsQuiet DEF Quiet, Refuse, Reply
        <3>2. \A v \in Window : ~Confirmed(v)'
            BY <3>1 DEF Confirmed, repliedOK
        <3> QED
            BY <1>1, <1>2, <3>1, <3>2, NobodySends DEF OthersStore
    <2>8. CASE /\ content(text, 1) # Empty /\ SendCommand(sock, content(text, 1))
               /\ ~Refuse(sock)
        <3>1. line # <<>> /\ content(text, 1) = line
            BY <2>4, <2>8
        <3>2. Stores(line) /\ reply'.kind = "OK"
            <4>1. /\ sendMessage(getCurrentConversation(sock), getUsername(sock), line)
                  /\ OK(sock)
                BY <2>8, <3>1 DEF SendCommand
            <4>2. Stores(line)
                BY <4>1 DEF sendMessage, Stores
            <4> QED
                BY <2>5, <4>1, <4>2 DEF OK, Reply
        <3> QED
            BY <1>1, <1>5, <2>2, <2>3, <3>1, <3>2, StoredPreservesWInv
    <2> QED
        BY <2>6, <2>7, <2>8
<1> QED
    BY <1>1, <1>3, <1>4, <1>5

-------------------------------------------------------------------------------
(* Replies and events *)

LEMMA ReturnPreservesWInv ==
    ASSUME EInv, WInv, Return
    PROVE  WInv'
<1>1. messageInput \in [Window -> Text \cup {<<>>}]
    BY DEF EInv, Typed
<1>2. ASSUME Returned, ~doing("send"), UNCHANGED <<toWrite, messageInput>>
      PROVE  WInv'
    <2>1. UNCHANGED <<messages, crashes>> /\ reply' = Waiting
        BY <1>2 DEF Returned, databaseVars, messagingVars
    <2>2. \A w \in Window : ~Confirmed(w) /\ ~Confirmed(w)'
        BY <1>2, <2>1 DEF Confirmed, Waiting, repliedOK
    <2> QED
        BY <1>2, <2>1, <2>2, NobodySends DEF OthersStore
<1>3. CASE MainReturn /\ UNCHANGED messagesVars
    <2>1. Returned /\ ~doing("send")
        BY <1>3
        DEF MainReturn, ReplyIgnored, LoginReturned, RegisterReturned, LogoutReturned,
            FriendsReturned, RequestsReturned, AddReturned, DialogReturned, Proceeds, doing
    <2> QED
        BY <1>2, <1>3, <2>1 DEF messagesVars
<1>4. ASSUME NEW w \in Window, ConversationsReturned(w) \/ MessagesReturned(w)
      PROVE  WInv'
    BY <1>2, <1>4 DEF ConversationsReturned, MessagesReturned, Proceeds, doing
<1>5. ASSUME NEW w \in Window, SendReturned(w)
      PROVE  WInv'
    BY <1>1, <1>5, SendReturnedPreservesWInv
<1> QED
    BY <1>3, <1>4, <1>5 DEF Return, MessagesReturn

LEMMA MainEventBegins ==
    ASSUME MainEvent
    PROVE  todo = <<>> /\ UNCHANGED <<messages, reply, crashes>>
<1> USE DEF At, AtMain, InDialog, Calls, DialogCalls, OpenDialog, ConnectAndCall,
            connectToServer, Accept, vars, databaseVars, messagingVars, networkVars
<1>1. ASSUME NEW name, NEW pass, LoginClicked(name, pass)
      PROVE  todo = <<>> /\ UNCHANGED <<messages, reply, crashes>>
    BY <1>1 DEF LoginClicked
<1>2. ASSUME NEW name, NEW pass, NEW mail, NEW role, NEW visibility,
             RegisterClicked(name, pass, mail, role, visibility)
      PROVE  todo = <<>> /\ UNCHANGED <<messages, reply, crashes>>
    BY <1>2 DEF RegisterClicked
<1>3. CASE ViewPostsClicked
    BY <1>3 DEF ViewPostsClicked
<1>4. CASE \/ RegisterLinkClicked \/ BackClicked \/ LogoutClicked \/ ReloadClicked
           \/ Poll \/ HiddenPoll \/ AddFriendOpened \/ RequestsOpened \/ PostOpened
           \/ FriendOpened \/ RejectClicked \/ DialogClosed
    BY <1>4
    DEF RegisterLinkClicked, BackClicked, LogoutClicked, ReloadClicked, Poll, HiddenPoll,
        AddFriendOpened, RequestsOpened, PostOpened, FriendOpened, RejectClicked,
        DialogClosed
<1>5. ASSUME NEW name, AddClicked(name) \/ AcceptClicked(name)
      PROVE  todo = <<>> /\ UNCHANGED <<messages, reply, crashes>>
    BY <1>5 DEF AddClicked, AcceptClicked
<1>6. ASSUME NEW type, TypeClicked(type)
      PROVE  todo = <<>> /\ UNCHANGED <<messages, reply, crashes>>
    BY <1>6 DEF TypeClicked
<1>7. ASSUME NEW visibility, NEW text, PostClicked(visibility, text)
      PROVE  todo = <<>> /\ UNCHANGED <<messages, reply, crashes>>
    BY <1>7 DEF PostClicked
<1> QED
    BY <1>1, <1>2, <1>3, <1>4, <1>5, <1>6, <1>7 DEF MainEvent

LEMMA EventPreservesWInv ==
    ASSUME EInv, WInv, Event
    PROVE  WInv'
<1>1. messageInput \in [Window -> Text \cup {<<>>}] /\ (todo = <<>> => reply = Waiting)
    BY DEF EInv, Typed, Replies
<1>2. ASSUME todo = <<>>, UNCHANGED <<toWrite, messageInput, messages, reply, crashes>>
      PROVE  WInv'
    <2>1. \A w \in Window : ~Confirmed(w) /\ ~Confirmed(w)'
        BY <1>1, <1>2 DEF Confirmed, Waiting, repliedOK
    <2> QED
        BY <1>2, <2>1, NobodySends DEF OthersStore
<1>3. CASE MainEvent /\ UNCHANGED messagesVars
    BY <1>2, <1>3, MainEventBegins DEF messagesVars
<1>4. ASSUME NEW w \in Window, NEW text \in Text, Types(w, text)
      PROVE  WInv'
    <2>1. reply = Waiting
        BY <1>1, <1>4 DEF Types, Usable
    <2> QED
        BY <1>1, <1>4, <2>1, TypesPreservesWInv
<1>5. ASSUME NEW w \in Window,
             \/ MessagesClicked(w) \/ SendClicked(w) \/ Tick(w)
             \/ \E id \in 1..MaxConversations : ConversationClicked(w, id)
             \/ \E names \in Entry : NewChatClicked(w, names) \/ NewGroupClicked(w, names)
      PROVE  WInv'
    <2>1. todo = <<>> /\ UNCHANGED <<toWrite, messageInput, messages, reply, crashes>>
        BY <1>5
        DEF MessagesClicked, SendClicked, Tick, ConversationClicked, NewChatClicked,
            NewGroupClicked, Usable, At, AtMain, Calls, WindowCalls, messagesVars, vars,
            databaseVars, messagingVars, networkVars
    <2> QED
        BY <1>2, <2>1
<1> QED
    BY <1>3, <1>4, <1>5 DEF Event, MessagesEvent

-------------------------------------------------------------------------------
(* The program *)

LEMMA NextPreservesWInv == EInv /\ WInv /\ [DesktopNext]_desktopVars => WInv'
<1> SUFFICES ASSUME EInv, WInv, [DesktopNext]_desktopVars PROVE WInv'
    OBVIOUS
<1>1. CASE Quit \/ Killed
    <2>1. StartsAgain /\ \A w \in Window : ~Confirmed(w)
        BY <1>1, NotConfirmed DEF Quit, Killed, doing
    <2> QED
        BY <2>1, RestartedPreservesWInv DEF EInv, Typed
<1>2. CASE UNCHANGED desktopVars
    <2>1. /\ UNCHANGED <<toWrite, messageInput, messages, reply, todo, crashes>>
          /\ crashes \in Nat
        BY <1>2 DEF WInv, desktopVars, messagesVars, networkVars, vars, databaseVars,
                    messagingVars
    <2>2. \A w \in Window : Confirmed(w)' <=> Confirmed(w)
        BY <2>1 DEF Confirmed, doing, repliedOK
    <2> QED
        BY <2>1, <2>2, TextsStay DEF OthersStore
<1> QED
    BY <1>1, <1>2, EventPreservesWInv, CallPreservesWInv, ReturnPreservesWInv,
       EnvironmentPreservesWInv
    DEF DesktopNext

LEMMA WInvHolds == DesktopSpec => []WInv
BY EInvHolds, InitEstablishesWInv, NextPreservesWInv, PTL DEF DesktopSpec

\* Whatever becomes of the server, the connection, the window or the program,
\* a text that was to be written is still to be written, in a field or, its
\* first line, in the database (MessagesWindow.cpp:21-27).
THEOREM NoTextIsLost == DesktopSpec => []TypedIsKept
<1>1. WInv => TypedIsKept
    BY DEF WInv
<1> QED
    BY <1>1, WInvHolds, PTL

\* Each copy of a text more than one has cost a crash of the server, wherever
\* in a command and its reply the crashes come
\* (NetworkClient.cpp:60-63, MessagesWindow.cpp:23-26).
THEOREM CopiesCostCrashes == DistinctTexts => (DesktopSpec => []OneMorePerCrash)
<1>1. DistinctTexts /\ WInv => OneMorePerCrash
    <2> SUFFICES ASSUME DistinctTexts, WInv, NEW text \in Text
                 PROVE  Cardinality(copies(text)) <= 1 + crashes
        BY DEF OneMorePerCrash
    <2>1. /\ IsFiniteSet(copies(text)) /\ crashes \in Nat
          /\ Cardinality(copies(text)) <= IF Available(text) THEN crashes ELSE 1 + crashes
        BY DEF WInv, CopiesCounted
    <2>2. Cardinality(copies(text)) \in Nat
        BY <2>1, FS_CardinalityType
    <2> QED
        BY <2>1, <2>2
<1> SUFFICES ASSUME DistinctTexts PROVE DesktopSpec => []OneMorePerCrash
    OBVIOUS
<1>2. WInv => OneMorePerCrash
    BY <1>1
<1> QED
    BY <1>2, WInvHolds, PTL
===============================================================================
