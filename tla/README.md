# A TLA+ model of the social network server and its clients

This directory holds a verification project for the C++ social network in this
repository: a single-process TCP server (`server/`) that keeps accounts,
friendships, posts and conversations in SQLite, a Qt client (`qt_client/`) and a
command-line client (`client/`).

## The system

### Components, their state and their operations

| component | source | state | operations |
|---|---|---|---|
| event loop | `server/server.cpp` | `client_socket` (30 slots), `master_set`, the sockets of the kernel | accept, read a command, reply, disconnect, all in one `select` loop of one thread |
| session tables | `server/SessionManager.*` | `sessions` and `currentConversation`, keyed by descriptor | login, logout, openConversation, lookups |
| command parsing | `server/CommandFactory.*` | none | one line of text to one command object, or `nullptr` |
| commands | `server/commands/*` | none | 18 commands, each checks the session and the arguments, then calls the database |
| store | `server/Database.*` | six SQLite tables | queries and writes; every statement commits by itself |
| logger | `server/Logger.*` | a file | append a line |
| network client | `qt_client/NetworkClient.*` | one socket for the whole program | connect, sendCommand (one send, one recv), disconnect |
| Qt windows | `qt_client/*.cpp` | what each window shows, the conversation it believes to be open | button handlers and two polling timers |
| command-line client | `client/client.cpp` | a socket | send a line, print one reply |

They interact by calls, except for the network: a client sends text on its
connection, the loop reads it, the factory builds a command, the command reads
and writes the session tables and the store, and the reply goes back.  Two
pieces of state are keyed by something the component does not own: the session
tables by a descriptor that the kernel reuses, and a client window by a
conversation that lives on the server.

### What is hard about it

* **State that outlives its meaning.** `show` and `add` trust the conversation
  remembered for a descriptor.  Login, logout, disconnects and reuse of the
  descriptor must never leave a user with somebody else's conversation.
* **Two rows for one friendship.** Each side of a friendship is a row with its
  own status and type, written by different users in any order; crossed
  requests meet a primary key nobody expects.
* **Constraints nobody enforces.** The schema declares foreign keys and SQLite
  ignores them, so every handler has to check names itself.
* **Statements without transactions**, whose results are often not looked at.
* **A byte stream read as if it were messages**, on both ends.
* **Windows that remember what the server forgets**, and the other way round: the
  session and the open conversation live on the server, what a window shows and
  believes to be open lives in the client, and timers, lost replies and a server
  that was started again come between.
* **One thread for everybody**: a failing `accept`, a reset connection or a client
  that does not read affects all of them.

The hazards are listed one by one, at their lines, under `hazards` in
`PROJECT.json`, with the properties that cover them.

### What makes each component correct

* sessions: a descriptor nobody holds has no session; a conversation is open only
  for a user who takes part in it.
* accounts: nobody changes the account of another; a name is registered once.
* friendships: a friendship takes effect only when both sides agreed, each side
  marks its own close friends.
* posts: a listing shows a reader what its authors opened to that reader.
* messaging: only members write in a conversation, read it and invite to it.
* store: rows refer to rows that exist.
* event loop: every connected client is served, no client stops the others.
* clients: a reply is the reply to the command it is taken for; a message sent
  once is stored once, in the conversation the window shows.

## Modules

| module | what it is |
|---|---|
| `Domains` | the values everything shares: names, the empty string |
| `SessionManager` | the two session maps and their operations |
| `Database` | the tables, the SQL statements as operators on tables, the member functions of `Database` |
| `SocialServer` | connections and one action per command, over the two above |
| `SocialProperties` | invariants, the action property and two refinement mappings |
| `SocialClaims` | a statement of the README that the commands do not satisfy |
| `ConversationAccess` | abstract specification of messaging: members, conversations, a log |
| `MutualConsent` | abstract specification of friendship: consents, grants, close friends |
| `SocialServerProofs` | the inductive invariant of the server and its proof |
| `SocialRefinementProofs` | what replies disclose, who changes accounts, the two refinements |
| `Faults` | the commands of several statements when some of them fail, or the process ends between two |
| `FaultProofs` | what of the invariants survives any number of faults |
| `DamageProofs` | what a fault spoils, counted, and that commands add nothing to it |
| `Sockets` | external: TCP as far as both ends use it, with its queue, buffers, closes and resets |
| `EventLoop` | the select loop of `server.cpp`, one action for each call that can block or branch |
| `ClientServer` | the loop with its clients, and the fairness of both |
| `RequestReply` | abstract specification of the exchange: a command is answered once, before the next |
| `ClientServerProperties` | invariants, promises in time, the refinement mapping to `RequestReply`, and two statements of the README that the code does not satisfy |
| `ClientServerProofs` | the inductive invariant of the loop for commands and replies of every length |
| `ExchangeProofs` | what holds in addition while commands and replies are short, and the refinement |
| `CommandFactory` | from a text of words, blanks and line breaks to one command and its arguments |
| `NetworkClient` | the one socket of the Qt program, the server process that may end, other clients |
| `MainWindows` | login, register, guest and main window with their dialogs and timers |
| `MessagesWindow` | the messages windows |
| `QtClient` | the program as a whole, its end and new start, and its fairness |
| `QtProperties` | what program and server together should keep, and one statement of the README they do not |
| `EntranceProofs` | words of texts, what commands change, and the inductive invariant of windows and sessions |
| `WritingProofs` | the way of a text from its user to the table, and the copies that crashes cost |
| `MCSocialServer`, `MCFaults`, `MCClientServer`, `MCQtClient` | values of constants, and symmetry, for the runs |

There are three compositions of the same system.

* `SocialServer` has everything a command does, and a server whose loop is reduced
  to accepting, disconnecting, serving one command and restarting; it allows a
  disconnect and a command of any client at any time.  `Faults` adds to it what a
  command leaves behind when not all of its statements take effect.
* `ClientServer` has every step of the loop and the clients, and of a command only
  that it yields a reply of some length.
* `QtClient` puts the Qt program in front of `SocialServer`: a button or a timer
  becomes the texts its handler sends, `CommandFactory` makes commands of them,
  the commands are those of `SocialServer`, and the replies change the windows.

Between the first two is the fact that a pass of the loop runs a command to its
end before it looks at another slot; that the reduced loop is implemented by the
detailed one is in the plan.

### How the model corresponds to the code

`SocialServer` keeps the names of the code.  A command is one action, because the
server has one thread and runs a command to its end before it looks at another
descriptor; a restart may happen between any two commands.  Each command has an
operator `ok`, the conjunction of the checks the handler makes before it changes
anything, and two disjuncts: all checks pass and the handler takes effect, or
one of them fails and the reply is an error.  Which error is not distinguished:
every refusal leaves the state alone, and the wording differs only for people.
In the runs of `SocialServer` the factory is represented by the arguments the
actions range over: names that need not be registered, `Empty` for a missing word
where the factory accepts one, and any friend type when the number is missing,
because the code then passes an uninitialized `int`.

A map of `SessionManager` is a total function over descriptors in which `Empty`
and `-1`, the values the accessors return for a missing key, mean "absent".  A
table with a primary key is a partial function from keys to rows, which makes the
key's uniqueness a question of its domain; `conversation_participants` has only
key columns and is a set; `posts` and `conversation_messages` are sequences in
the order of their AUTOINCREMENT keys; of `conversations` only the counter is
left.  `Insert`, `updateStatus`, `insertReverse` and the like are one SQL
statement each, and `Faults` uses them one at a time.  Passwords are hashed by a
constant function `HashOf` of which nothing is assumed but its type: two
passwords may have one digest.

`response` is the reply that was sent last: the descriptor, what it is about and
the rows it discloses.  It is what the disclosure properties talk about.

`Faults` rests on two facts of the code: every statement commits by itself,
because no transaction is ever begun, and the result of every statement after the
first of a function is ignored.  A command of several statements may therefore
end with any of them undone and reply `OK`, or stop between two because the
process ends, after which nothing of the sessions is left.  That a first
statement fails is a refusal, which `SocialServer` has already, except for
`set_visibility`, which ignores the result of its only write and replies `OK`
(`HalfSetVisibility`).  The commands of more than one statement are register,
accept, chat and group.  `faults` counts
failed statements and ends of the process; `MaxFaults` bounds it.

### How texts and the Qt program are modelled

A text is a sequence of items: words, `blank` and `newline`; where it came from is
lost, as in the code, so that two words typed into the name field shift the
password into the email.  `words` is what `>>` sees, `content` what `getline`
leaves of the line after so many words, without the one blank in front, and
`number` the value of an `int`: what the word says, 0 for a word that is no number,
anything for a missing one.  The words that say numbers are those of `Numbers`:
-1 to 9 and the identifiers of all conversations.  `execute` is
`CommandFactory::create` and the `execute` of what it made.  A text of several
lines is one command, made of its first words.

`NetworkClient::sendCommand` is two steps, `Call` and `Return`: the server runs the
command, and the handler that called continues with the reply.  Between them
other clients are served and the server may end, with the reply lost or not.
`sock` is the descriptor at the server's end, or one of three states without one.
A crash leaves `Ended`: the next send succeeds and the `recv` after it finds the
end of the stream; then `Reset`: the next send fails, and only a failed send gives
the socket up (`NetworkClient.cpp:54-57`).  A send on a reset connection raises
SIGPIPE unless something in the process ignores it; both outcomes are modelled,
the failed send and the end of the program (`Killed`).  `connectToServer` takes any
socket that was not given up for connected.

The program has one thread.  `todo` is the rest of the handler that runs: the
texts it still has to send, each with what is done with its reply.  No event is
handled while `todo` is not empty, whatever the server and others do meanwhile.
Dialogs are modal: while one is open the main window and the messages windows
accept no clicks, but their timers fire.  A main window that was closed after a
logout is not destroyed and its timer keeps polling; `hidden` says that there is
one.  A messages window is destroyed with the program only.  Each has its
`currentConversationId`; the server has one open conversation for the connection
all windows share.  `toWrite` is not in the program: it is what its user still
means to write, so that a text can be followed from the user's head to the table.
Status labels and the posts on display are left out.

### How the loop and the network are modelled

`EventLoop` keeps `client_socket`, `master_set` and `read_set` as the code has
them, with `0` for an empty slot; descriptors are small numbers and `accept` takes
the lowest that is free, which is what makes them be reused.  `max_sd` is not a
variable because it is recomputed in each pass from the slots; `watched` is what
it lets `select` see: a descriptor without a slot is watched only while a higher
one has a slot, and then it is in `read_set` but no slot refers to it.  `i` is
the slot the loop has reached; slots that were not reported are skipped inside
`remaining`, as the code skips them without a call.  A read has the three
outcomes the code distinguishes or fails to: data, the end of the stream, and an
error, which the `else` branch takes for data.  A reply is sent by one `send`,
which blocks until it fits.  The loop ends in two ways, `exited` through
`error_exit` and `killed` by a signal.

`Sockets` counts bytes in pieces: a piece of a command is what one `read` of
1023 bytes takes, a piece of a reply what one `recv` of the client takes.  How many
of the pieces that have arrived one call returns is left open.  Each piece
carries the number of its command, which is how `AnswerIsForCommand` tells whose
reply was received.  A client that closes with replies unread resets the
connection, one that has read everything ends the stream; a send to a closed end
causes a reset; the first call after a reset reports it, and a later send raises
SIGPIPE.  This is the behaviour of Linux.

`ClientServer` has the client loop that both clients share: send one command,
receive once, take what came for the reply.  After an error the client closes,
which is what the command-line client does; the Qt client, which keeps the dead
socket, is in `NetworkClient`.  A command of zero pieces is an empty line at the
prompt.  `Kills` lets programs be ended while they wait for a reply.

## What is checked

Each run is one question.  The commands are checked by these, on small instances
in which names and descriptors are interchangeable (symmetry).  `Commands` selects
the commands the clients of a run send, so that a run explores one part of the
system to the end instead of all parts to a small depth; commands that are left
out could only add states of tables the properties of the run do not mention.

| run | instance | properties | shows |
|---|---|---|---|
| `friends` | 3 names on a connection used in turn, guests too; all friendship commands with every type from -1 to 3, posts of every visibility, 1 post | `TypeOK`, `AcceptedIsAnswered`, `ListedPostsAreAllowed`, `ConsentSpec` | the server implements `MutualConsent`, crossed requests included, and a listing never discloses more than author and reader agreed to |
| `messaging` | 3 names, 2 connections, 2 conversations, 2 messages, groups of up to 2 named users, restart | `SessionsAreLive`, `OpenConversationIsOwn`, `ShownToParticipants`, `AccessSpec` | no session outlives its connection, and the server implements `ConversationAccess`, although `show` and `add` ask only the session |
| `faults` | 2 names not registered at the start, 2 emails, 2 descriptors of which 1 finds a slot, 1 conversation, 1 message, 2 faults, friendships of one side requested, accepted and classified again; restart | `ReferentialIntegrity`, `DamageStaysLocal`, `AccountsChangeByTheirOwner` | accounts and foreign keys are as good as without faults, and each fault spoils one friendship, conversation or connection and no more |

The bounds: who may see or do what depends on one author and one reader, or one
inviter and one invited, with a third user as the outsider, so three names show
every relation between them.  Friendship and posts depend on the connection only
through the name behind it, so `friends` needs one, used in turn; `messaging`
needs two, for the interleavings of two users and the reuse of a descriptor by
another one, and two conversations, for a message or an invitation to reach the
wrong one.  In `faults` the second fault falls on tables the first one has left
half written, and the second descriptor overflows the slots.  It has no posts,
which no fault leaves half done and which would multiply the states: that their
authors exist through faults is what `ForeignKeysOutliveFaults` adds.  `MaxConversations`,
`MaxMessages` and `MaxPosts` cap what grows, in the guards of the actions that
make it grow; `MaxGroup` caps the words after `group`.  The theorems below remove
these bounds for the properties they state, except that the caps remain guards
of the actions: for any cap whatever.

The loop and its clients:

| run | instance | properties | shows |
|---|---|---|---|
| `service` | 3 connections, 3 slots and descriptors, a queue of 2, 2 commands each; one piece each way, clients leave at their prompt and come back without end; `FairSpec` | `AnsweredOnce`, `SendNeverBlocks`, `AnswerIsForCommand`, `ServerStaysUp`, `SlottedAreAnswered`, `QueuedAreAccepted`, `LeftAreReleased` | while commands and replies fit a buffer, loop, sockets and clients implement `RequestReply`, nobody holds up or ends the server, and every client is accepted, answered and given up in time |
| `loop` | 4 connections for 2 slots, 3 descriptors and a queue of 1; commands of 0 to 2 pieces, replies of 1 or 2, clients killed at any time; `Spec` | `TypeOK`, `SlotsMatchDescriptors`, `ReadNeverBlocks` | array, watched set and open descriptors stay one record through overflow, resets, errors and reuse, and no read waits although `read_set` is as old as the pass |

In `loop` four connections are one more than descriptors and two more than
slots, so that `accept` fails and clients are left without a slot; two slots let
one be closed while the other is still to be read in the same pass, and a
descriptor freed in one pass is used again in the next.  It is checked with
`CHECK_DEADLOCK FALSE`, because the server may have ended and everybody left;
every other run checks deadlock.  In `service` there is room for everybody, as in
the real server up to 30 clients; 2 commands on a connection make the second
exchange start where the first one ended, and a client that has used them up can
only leave and connect again, which it may do for ever.  What `service` shows is
shown under its bounds: commands and replies of several pieces, killed clients
and a lack of descriptors are in `loop` and in the runs of the claims.

The Qt program, with the whole server behind it:

| run | instance | properties | shows |
|---|---|---|---|
| `entrance` | the fields of login and register hold `ann`, `bob`, or `ann bob`, the email `ann` or a blank; guest window, logout, closed main windows with their timers, the program ended and started again, 1 end of the server; `RetrySpec` | `WindowMatchesSession`, `RegisteredCanLogIn`, `BackOnline` | the top window agrees with the session of the connection, what was registered opens with the same input, and who keeps trying gets in again |
| `dialogs` | the main window with all its dialogs and its timer, 1 post, another user who requests and accepts; `TimedSpec` | `FriendsAreListed` | a friendship accepted elsewhere gets into the list of a user who does nothing |
| `desktop` | a messages window, chats and groups of `ann` and `bob`, a text of two lines, another user who answers, 3 messages, 1 end of the server with a reply under way or not, the program killed and started again; `TimedSpec` | `TypedIsKept`, `OneMorePerCrash`, `NewMessagesAreShown` | no text gets lost between field and table, an end of the server costs at most one more copy, and what others write comes on display |

The words of `entrance` include those the selection boxes send (`normal`, `public`,
...), because a shifted word becomes a password or an email.  One end of the
server is enough for `Ended`, `Reset`, the given-up socket and the new connection;
`desktop` needs three messages, the text, its second copy and the answer.  It has
one messages window, because a second one makes the states too many for the
liveness check; the theorems about what was typed hold for any number of windows,
and `NewMessagesAreShown` is checked for the one.

### Fairness

`FairSpec`: weak fairness of `ServerStep`, because the server is one thread that
runs unless a call of it blocks, and a call that blocks is an action that is not
enabled; weak fairness of `Receive`, because a client that waits in `recv` is woken
when bytes are there.  Nothing is assumed of clients at their prompt.

`TimedSpec` assumes `ProgramRuns`: weak fairness of `Call` and `Return`, because a
handler that runs goes on; of the start of a server that has ended, without which
no client gets anywhere; and of the server's noticing that a client has left.  It
assumes `TimersFire`: strong fairness of the timer of the main window and of that
of each messages window, because a timer is enabled only between handlers: when it
is due it is served at the next return to the event loop, but other events come
between, again and again.

`RetrySpec` adds what `BackOnline` says of its user, that they keep trying: strong
fairness of leaving the guest window, and of clicking login with a name and a
password that open an account.  `BackOnline` excepts the register window: it has
no way back to the login window except a registration that succeeds
(`RegisterWindow.cpp:129-136`), and none may be left to succeed.

### Where the code and its documentation disagree

Each of these runs checks one statement of `SocialClaims`, `ClientServerProperties`
or `QtProperties` and finds it violated; the findings in `PROJECT.json`
quote the lines.

| run | statement | what happens |
|---|---|---|
| `crossed_requests` | a friendship is the same for both (`FriendshipSymmetric`) | two users request each other, one accepts: the INSERT of the other row fails unnoticed and that side stays pending |
| `accepted_unanswered` | accepted connections are managed (`AcceptedAreAnswered`, under `FairSpec`) | a connection that finds no slot is kept open, is never read, and does not get the slot that becomes free |
| `exit_with_reply_unread` | the server manages several clients (`ExitsAreHarmless`) | a client exits while part of a long reply is unread; the reset makes `read` return -1, which counts as data, and the reply to it ends the server by SIGPIPE |
| `wrong_conversation` | each conversation has its own messages (`SentWhereShown`) | a user looks at one conversation, creates a group and sends: `group` opened the group on the connection, the window still shows the other one, and the message is stored in the group |

Reading the code for the model showed more differences that have no run of their
own.  In the server:

* an existing private chat is never found, because the lookup wants two joined
  rows where there is one (`Database.cpp:609`); each `chat` makes another
  conversation.  This is a theorem, `PrivateConversationNeverFound`;
* `chat` never looks at friendships, although `README.md:55` lets friendship state
  influence messaging permissions;
* a user who names only themselves gets a group of one, because the size check
  counts words; `add` extends whatever is open, so a conversation created by
  `chat` may get a third member;
* a command longer than 1023 bytes is run as two commands and gets two replies;
* when adding the creator of a group fails, the group is opened for them all the
  same and they read it and invite to it without being in it (`strays` in
  `Faults`); when the INSERT of an accepted friendship fails, `AcceptedIsAnswered` and the abstract
  `MutualConsent` no longer hold; a registration whose second statement is lost
  leaves a public account that cannot be registered again.

In the clients:

* an empty line at the prompt of the command-line client sends nothing and waits
  for a reply that does not come;
* blanks alone pass the check that a field is filled, and several words in a field
  shift into the next ones; the main window then greets a user by the words typed,
  of which the server took the first;
* of a message of several lines only the first is stored;
* a post that contains the words "No posts" hides every other from the reader
  (`MainWindow.cpp:53`);
* the reject button of a request rejects nothing (`FriendRequests.cpp:132`);
* the main window has no way to connect again after the server was lost: only
  the login and register windows connect, and `reconnect` has no caller.

## What is proved

The assumptions are those of the modules: the empty string is no name, password,
email or text; `HashOf` is a function from passwords to digests; the accounts of
the database file have the right type; there is at least one slot, `NoSd` is no
descriptor, and the two caps that occur in bounds of quantifiers are naturals.
For the Qt program: the states of `sock` without a descriptor are none
(`DescriptorAssumption`); what is typed is a sequence of strings, and a text of
many lines is not empty, because the windows trim it and send nothing then
(`TypedAssumption`; `MessagesWindow.cpp:18-19`, `CreatePost.cpp:53-54`).  Three
theorems have a hypothesis of their own, which an instance of the runs
satisfies: `ShortExchange`, `EnoughDescriptors` and `DistinctTexts`.

The inductive invariant `IInv` (`SocialServerProofs`) is the conjunction of
`TypeOK`, `SessionsAreLive`, `OpenConversationIsOwn`, `ReferentialIntegrity`,
`AcceptedIsAnswered`, `PendingIsPlain` and `NoSelfFriendship`.  The parts need
each other: a login keeps `OpenConversationIsOwn` only because nothing is open on
a connection without a user; `add` keeps `ReferentialIntegrity` only because what
is open is a conversation of the user, hence exists; accepting writes a reverse
row between accounts because the request was between accounts.  There is one
lemma per command; the session, accounts, friends and messaging tables have a
lemma each for what a step on that table alone has to keep.

| theorem | states |
|---|---|
| `Invariance` | `Spec => []IInv` |
| `TypeCorrectness`, `SessionsEndWithConnections`, `OpenConversationsAreOwn`, `ForeignKeysHold`, `FriendshipsAreAnswered` | the parts of `IInv` that the runs check |
| `PrivateConversationNeverFound` | `getPrivateConversation` is empty for every database and every two users |
| `ShowIsForParticipants` | `Spec => []ShownToParticipants` |
| `PostsAreListedToTheAllowed` | `Spec => []ListedPostsAreAllowed` |
| `AccountsAreTheirOwners` | `Spec => AccountsChangeByTheirOwner` |
| `ImplementsConversationAccess` | `Spec => AccessSpec` |
| `ImplementsMutualConsent` | `Spec => ConsentSpec` |
| `FaultyInvariance` | `FaultySpec => []FInv` |
| `ForeignKeysOutliveFaults`, `SessionsEndDespiteFaults` | its consequences `ReferentialIntegrity` and `SessionsAreLive` |
| `LoopInvariance` | `Spec => []LoopInv` of `ClientServer` |
| `LoopTypes`, `SlotsAreDescriptors`, `ReadsNeverBlock` | its consequences `TypeOK`, `SlotsMatchDescriptors`, `ReadNeverBlocks` |
| `ExchangeInvariance` | `ShortExchange => (Spec => []ExchangeInv)` |
| `AnswersMatch`, `SendsNeverBlock`, `ShortExitsAreHarmless` | its consequences `AnswerIsForCommand`, `SendNeverBlocks`, `ExitsAreHarmless` |
| `ImplementsRequestReply` | `ShortExchange => (Spec => AnsweredOnce)` |
| `AcceptNeverFails` | `EnoughDescriptors => (Spec => []NotExited)` |
| `ServerStays` | `ShortExchange /\ EnoughDescriptors => (Spec => []ServerStaysUp)` |
| `DamageNeverSpreads` | `FaultySpec => []DamageStaysLocal` |
| `CommandsDoNoDamage` | `FaultySpec => [][Next => NoNewDamage]_faultyVars` |
| `AccountsOutliveFaults` | `FaultySpec => AccountsChangeByTheirOwner` |
| `WindowIsTheSession` | `DesktopSpec => []WindowMatchesSession` |
| `WhoRegistersCanLogIn` | `DesktopSpec => []RegisteredCanLogIn` |
| `NoTextIsLost` | `DesktopSpec => []TypedIsKept` |
| `CopiesCostCrashes` | `DistinctTexts => (DesktopSpec => []OneMorePerCrash)` |

`FInv` is weaker than `IInv`, because a fault breaks `AcceptedIsAnswered` and
`OpenConversationIsOwn`.  In place of the latter, which `ReferentialIntegrity` needs
for `add`, it has `OpenExists`: what is open on a connection is a conversation that
exists, whoever takes part in it.  Its proof looks at a step in two parts, what it
writes to the tables (`TablesOK`) and what it does to the sessions (`SessionsOK`); a
command half done writes some of the rows the whole command writes, and then
either goes on like it or ends all sessions.

`DInv` adds the count: the one-sided friendships, the deserted conversations and
the strays, of which there are finitely many, are together no more than the
faults.  That is not enough for the induction: a later command could spread the
damage, `add` a stray's conversation to others or accept a one-sided friendship.
`NoNewDamage` says that none does, for tables in whatever state faults left them;
it is a theorem of its own, `CommandsDoNoDamage`.  A command half done then adds at
most one thing for every statement it lost (`CountKept`).

`EnoughDescriptors` says that there is a descriptor for every connection there may
be at one time.  The connections behind descriptors are distinct
(`ConnectionsAreDistinct`), and the one `accept` takes from the queue is none of
them, so a full table would be an injection into too small a set: `accept` finds
a descriptor, and `error_exit` is not called.  Together with the absence of resets
under `ShortExchange` this is `ServerStaysUp`.

`LoopInv` is about any number of connections, slots and descriptors, commands
and replies of every length, and clients killed at any time.
`SlotsMatchDescriptors` is not inductive by itself, and `ReadNeverBlocks` is not
at all: a read may be made long after `select` returned.  `ConnectionsAreDistinct`
says that a connection is once in the queue or behind one descriptor, so that
reading or closing one slot takes nothing from another; `ReportedIsReadable` says
that every slot which select reported and the pass has not reached still has
something to read, also when its client closed meanwhile; `StepsFollow` carries
what `select` and `read` found to `accept` and `send`.  A new descriptor cannot be
in `read_set`, because `read_set` held open descriptors only and nothing is
closed between `select` and `accept`.

`ShortExchange` is the condition under which the program was evidently written:
a command fits one read, a reply one `recv`, and no program is ended while it
waits.  Under it `ExchangeInv` holds: a command that has not been read is its
client's last one, the client waits for it and no reply is under way; so is the
command being answered; a reply under way is the one its client waits for; and
no connection is ever reset, because clients leave only with nothing unread.  `ShortExitsAreHarmless` says that the finding `exit_with_reply_unread` needs a reply of
several pieces or a killed client.

The disclosure theorems follow the reply: only `show` and `list_posts` disclose
messages and posts (`ServeReplies`), and what they disclose is judged by `IInv`.
The refinements have one lemma per kind of abstract step.  In `MutualConsent`,
accepting maps to `Agree` with one or two grants, one when a crossed request of
the accepting user is still pending.  In `RequestReply`, `select`, `accept`
and the reads are stutters and the `send` of a reply is the step `Answer`, which
`ExchangeInv` shows to meet a client that has asked; a failing `accept` is `End`.
The claims the code violates have no theorem.

Texts come first in the proofs of the Qt program.  `wordsAt` is a set of places
and `nthWordAt` selects one by counting those up to it, so that what a text says is a
matter of cardinalities, not of recursion: `SecondWord` and `ThirdWord` find the
first words of the fields in the text of a form, and `SameWords` says that login
and registration find them at the same places.  What commands change of sessions,
passwords and messages is one lemma for all (`ServedOn`), as other clients may use
any of them.

`EInv` (`EntranceProofs`) is inductive for `DesktopSpec`.  `Handler` says what the
handler under way may still send and under which window: plain commands, or one of
login, registration, logout and send with exactly the text its form makes.
`Replies` relates window and session while no reply waits, and what they will be
when it is looked at: only in a login or logout that was answered they differ.
`Connections` keeps the connection apart from those of others, and says that only
who is connected is logged in; a new connection is then a guest's, which is why
`connectToServer` may keep a dead socket and take a reused descriptor.
`RegistrationHolds` says that the account registered opens until the reply is
looked at, whatever others do: accounts keep their passwords.

`WInv` (`WritingProofs`) follows each text: it is at one place at most, and a text
that will be sent again, because it is still to be written or in a field without a
confirmation under way, has cost a crash for every copy there is.  A send makes
one copy and confirms it; only a crash loses the confirmation.  The
server stores the first line of what was typed (`SentLine`).  `DistinctTexts` is
needed to count: copies are recognized by what they say, and two texts that begin
with the same line, or another user who writes it, would be counted together.

Only model-checked: liveness and everything else that needs fairness, which the
proof system cannot do, and the four claims the code violates.

## What is not modelled, and the plan

1. The slot array and the sockets of `EventLoop` as an implementation of the
   connections of `SocialServer`: an abstract specification of `client_socket` and
   `master_set` as sets, which both refine.
2. Theorems about the exchange without `ShortExchange`: the exact condition under
   which a client takes part of one reply for another.

Not modelled and not planned: the logger (nothing reads it), the layout and the
styling of windows, the wording of errors and status labels, the posts on
display, and the order of rows by timestamps of one second (queries return sets).
The mutex of `SessionManager` has nothing to protect in a server of one thread.
Replies of several pieces reach the windows of the Qt program as they reach any
client; `ClientServer` has them, the windows do not.
