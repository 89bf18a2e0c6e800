# A verification model of the cluster chat server

The repository is a chat server in C++: several `ChatServer` processes (muduo)
behind nginx, one MySQL database and one Redis server they share, and a console
client. This directory holds TLA+ modules that model it, TLC configurations that
check them on small instances, and proofs, checked by TLAPS, of what should hold
on every instance. Paths below are relative to the root of the repository.

## The system

| part | state | operations | speaks to |
|---|---|---|---|
| sessions: `ChatService::login`, `loginOut`, `clientCloseException` (`src/server/chatservice.cpp`) | `_userConnMap` (user id to connection), `_connMutex` | one handler per request, one callback per closed connection | MySQL (`User.state`, `OfflineMessage`), Redis (channel = user id) |
| chat: `oneChat`, `groupChat`, `addGroup` | none of its own | route a text: own map, then `User.state`, then Redis or the offline table | MySQL, Redis, connections |
| observer: `Redis::observer_channel_msg`, `ChatService::handleRedisSubscribeMsg` | a thread per process, the subscribe context | pop a push, send it or store it | `_userConnMap` under `_connMutex`, MySQL |
| class `Redis` (`src/server/redis/redis.cpp`) | two hiredis contexts | `publish` (waits for its reply), `subscribe`, `unsubscribe` (only written) | Redis |
| model classes `UserOperator`, `OfflineMessage`, `GroupOpt`, `Friend` over `MySQL` (`include/server/db/db.h`) | the tables | one connection and one auto-committed statement per call | MySQL |
| process life: `src/server/main.cpp` | the process | start, ctrl+c (`resetHandler`, then `exit`), death | MySQL |
| `ChatServer` (`src/server/chatserver.cpp`) | muduo's buffers, four IO threads | `onConnection`, `onMessage`: decrypt, parse, dispatch | `ChatService` |
| directory: `reg`, `addFriend`, `createGroup` | tables `User`, `Friend`, `AllGroup`, `GroupUser` | inserts | MySQL |
| client (`src/client/main.cpp`) | the current user, `isMainMenuRunning` | login menu, main menu, receive thread | one server |
| `aesEncrypt`, `aesDecrypt` (`src/encrypt/encryption.cpp`) | none | pure functions | both ends |

Requests are messages on a TCP connection; a handler runs on the IO thread of its
connection. What a handler sends to a connection of another IO thread, and what the
observer sends to any, is only queued (muduo's `TcpConnection::send`): the IO thread
of that connection writes it when the callback it is running has returned. Handlers
of connections on different threads, the observer thread and the other processes
interleave freely; `_connMutex` is the only lock, and nothing spans two database
calls. Servers know of each other only through `User.state` and through Redis.

What is hard: a handler is up to six separate effects (map, Redis, table, answer)
that others can see in between; routing decides by state that may be stale when it
is used; SUBSCRIBE and UNSUBSCRIBE are asynchronous while PUBLISH travels on
another connection; clients and processes disappear at any point; every failure of
a database or Redis call is ignored. The client
has one socket, two readers and no framing: what one `recv()` takes is decrypted and
parsed as one message, and every exception ends a process. `PROJECT.json` lists the
hazards at their lines.

What makes each part correct:

- sessions: one session per user in the cluster; who was told "logged in" can be
  reached; map, subscription and `User.state` agree when nothing is in progress;
  only a session itself ends it; a session that ends is seen by the others.
- chat: a text is delivered or stored, once; a stored text is read at the next
  login; a group text reaches all members.
- observer and locks: a critical section is always left; a connection found in the
  map is still there when it is sent to; the map keeps no dead connection.
- every handler ends, every push is handled, every login is answered, and
  `User.state` catches up with the sessions.
- directory: an id answered is the id of one's own row, a group has its creator, and
  the lists a login answers are true although they are read in many statements.
- client: a stored text reaches the screen; nothing is sent to it after its
  logout; nothing overtakes the answer to a login; what arrives can be read.
- encryption: no buffer is overrun, and the length of a text survives.

## The modules

| module | models | state and its code |
|---|---|---|
| `ChatTypes` | the parameters | servers, connections (with the server nginx chose), users, groups, texts |
| `MySqlStore` | `UserOperator`, `OfflineMessage`, `GroupOpt` | `userState` (column `User.state`), `offlineMsg` (rows per user and text, a bag: the table has no key), `groupUser`; each call may fail, `dbFaults` counts |
| `RedisBus` | class `Redis` and the Redis server | `subCmds` (written, not yet executed), `subs`, `inbox` (pushed, not yet read), `linked` (the observer still reads) |
| `ChatService` | the handlers, the observer, the processes, the clients' commands | `connMap`, `connMutex`, `job` (the step each connection's handler is before, with its locals), `observer`, `proc`, `client` |
| `ChatDelivery` | the fate of a text | history variables `intended`, `disturbed`, `hungUp` on top of `ChatService` |
| `SessionSpec` | what the cluster promises about sessions, abstractly | `owner` (the connection a user is logged in on), `presence`, `up` |
| `ChatSessions` | that `ChatService` implements `SessionSpec` | no state: `owner` is read off the maps of all servers, `presence` is `userState`, `up` is `proc` |
| `AesBuffers` | `aesEncrypt`, `aesDecrypt` | operators on lengths |
| `Protocol` | the JSON messages of both sides | the fields of each request and answer, and those its reader gets |
| `Directory` | `reg`, `addFriend`, `createGroup`, `addGroup`, the lists of `login`, over `UserOperator`, `Friend` and `GroupOpt` | `user`, `friend`, `group`, `member` (the tables), `session`, `job` (the statement each handler is before, with its locals), `deaths`, `faults` |
| `ChatClient` | the clients and the wire, composed with `ChatService` | `reader` (who reads the socket), `queued` (sent by other threads, waits for the IO loop of the connection), `down` (written by the server, not yet read), `ended` (what ended the client), `owed` (history: stored texts not yet shown) |
| `MCChat`, `MCDelivery`, `MCDirectory`, `MCClient` | the instances for TLC | |
| `ChatTypeProofs`, `ChatSafetyProofs`, `ChatSessionProofs`, `ChatBusProofs`, `ChatDeliveryProofs`, `ChatClientProofs` | the theorems about `ChatService` and what is built on it, each module on the one before it (the clients' on the bus's) | |
| `DirectoryProofs`, `AesProofs` | the theorems about `Directory` and `AesBuffers` | |

`ChatService` EXTENDS `MySqlStore` and `RedisBus`: their operators are the calls the
handlers make. One action stands for one database call, one Redis call or one
critical section, in the order of the code: `login` is `LoginQuery`, `LoginInsert`,
`LoginSubscribe`, `LoginOnline`, `LoginReadOffline`, `LoginRemoveOffline`,
`LoginAck`; the other handlers are split the same way, and `Handler(c)` lists the
steps. A critical section that calls nothing (the inserts and erases of the map) is
one action guarded by `Free`; one that calls something (`oneChat`'s find and send,
the whole loop of `groupChat`, `handleRedisSubscribeMsg`) takes and releases
`connMutex` in steps, so that others run, or wait, in between. A request that is
refused or that only reads (the friend and group lists of login) changes nothing
and has no action of its own here: the refusals are in `ChatClient`, the lists in
`Directory`.

`Directory` is a module beside `ChatService`, not on top of it: the two meet only in
`User.state` and `GroupUser`. Its login (`LoginQuery`, `LoginOnline`, the lists
statement by statement, `LoginAck`) and its `LoginOut` keep what of them touches the
tables it has. `AddGroup` takes any id, as `addGroup` does (`chatservice.cpp:280-284`):
the row of a group that does not exist is written too, shows in no list, and is a
member's row of the group that gets this id later. An exception (`Throw`) ends the
one server process with all its handlers. The schema is not in the repository;
assumed are a unique `User.name` (the client prints "is already exist" for a failed
insert, `main.cpp:329`), auto-increment keys, and sets of rows for `Friend` and
`GroupUser`, whose duplicates no query tells apart.

`ChatClient` EXTENDS `ChatService` and adds the wire to each step that sends to a
client. `Answer` is `LoginAck` with the answer appended to `down`: a handler runs on
the loop of its own connection, whose `send` writes at once. `DeliverLocal`,
`DeliverGroup` and `DeliverRelayed` are the three sends of a text to somebody else's
connection: `SendTo` appends it to `queued`, and `Flush`, which needs that no handler
of the connection runs (`doPendingFunctors`), moves what is queued to `down`. Each
connection has a loop of its own here; on a shared loop the sender's handler would
write at once, which is `SendTo` followed by `Flush`. All other steps leave the wire
alone (`Quietly`, `SilentStep`). `Recv` takes any non-empty prefix of what has been
written, as TCP may deliver it, and is read by main until the answer to the login has
been understood, from then on by the receive thread. A message is understood when it
came alone, encrypted, whole and with the fields its reader gets; anything else raises
an exception, and `ended` says why: the message was `merged` with another, `plain`,
`long` (more than `recv(1024)` takes after encryption) or `unreadable` for any other
reason.

`ChatSessions` maps to `SessionSpec` with `INSTANCE ... WITH owner <- ..., presence <-
userState, up <- ...`: a login enters at the insert into its server's map, on a server
that runs, and is announced at its `updateState`; a logout or a close callback leaves at
the erase and is withdrawn at its `updateState`; a process that dies loses all sessions
of its own map and no other, and starts again without any; all other steps stutter.

A connection is `down`, `fresh` (before a login), `menu` (logged in), `left` (after
loginout, still in the main menu: the client never leaves it), `gone` (the client
closed the socket; the close callback waits behind the running handler, as muduo
runs both on one thread) or `closing` (the callback is past its erase). What is sent
to a connection in the last two modes is dropped, as the socket does.

Operators whose comment says "Mutant" model no code: each is what a definition next
to it would be with one plausible mistake in it, and `PROJECT.json` says which
property notices.

## What is checked

| run | instance | properties | shows |
|---|---|---|---|
| `sessions` | 2 servers, 3 connections, 2 users; one observer failure, one crash, restarts | `OneSessionPerUser`, `SessionRegistered`, `SubscriptionFollowsSession`, `OnlineHasOwner`, `OnlyOwnerEndsSession`, `SessionsRefine` | sessions agree everywhere, if no user is logged in twice at the same instant, and the cluster implements `SessionSpec` |
| `faults` | 1 server, 2 connections, 2 users, a group, a text; one failure of any kind (database, Redis, ctrl+c); overlapping logins and repeated loginout allowed | `TypeOK`, `NoDeadEntry`, `SendTargetOpen`, `MutexOwned` | lock and map stay sound with logins of one user that race, clients that go on after loginout, and a failure; a login always comes on a connection that has none yet, as the client's menus see to |
| `delivery` | 2 servers, 3 connections, 2 users, a text | `UndisturbedExactlyOnce`, `StoredOnlyWhileAway` | the routes of a text agree: exactly one copy, and none is left in the table of a user who is logged in |
| `liveness` | 1 server, 2 connections, 2 users, a group, a text | `HandlersFinish`, `BusDrains`, `ClosedGoesOffline`, `PresenceCatchesUp` | nothing waits for ever; a lost client is noticed by the others; `SessionSpec` is implemented with its fairness |
| `directory` | 2 connections, 2 names, up to 2 users and 2 groups; one failed statement or one end of the process; `addfriend` requests with and without `friendid`, `addgroup` requests with any id | `DirTypeOK`, `RegAnswersOwnRow`, `CreatorIsMaker`, `OrphanOnlyAfterFailure`, `LoginListsTrue` | requests that overlap do not mix up their rows; what a group or a list lacks is owed to a failure |
| `client` | 1 server with 2 clients, 2 users, a group, a text of 1023 bytes, answers of 1023 and of 1024 | `ClientTypeOK`, `StoredTextSurvives`, `ReadableAlone`, `NothingSentAfterLogout`, `LoginReturns` | answers and texts on the wire, behind the queues of the loops: what is stored reaches the screen, nothing overtakes an answer, no login waits for ever |
| `login_race` | as `sessions`, overlapping logins | `OneSessionPerUser` violated | finding 1 |
| `crash_online` | as `sessions` | `NobodyStranded` violated | finding 2 |
| `chat_lost` | as `delivery` | `EveryChatKept` violated | finding 3 |
| `group_return` | 1 server, 3 users, a group | `GroupReachesEveryMember` violated | finding 4 |
| `add_friend` | as `directory`, requests as the client builds them | `CommandsKeepServerUp` violated | finding 5 |
| `relay` | as `client`, but a client on each of 2 servers | `RelayReadable` violated | finding 6 |

**Assumptions of `sessions`.** `SerialLogins`: no login of a user starts while
another has read "offline" and not yet written "online"; without it finding 1
applies. `SingleLogout`: a client sends nothing after its first loginout; without it
a second loginout of a client that stayed in its menu unregisters, by user id,
whoever is logged in as that user (`chatservice.cpp:149-155`). Both are properties of
the users' conduct, not of the code. `delivery` and `liveness` assume them too, to
keep their state spaces in reach, and so does `client`; `faults`, and the theorems
about lock and map, assume neither. `Orderly` (in `ChatSessions`) is what the
refinement needs: both of them, no ctrl+c (it sets the users of the other servers
offline) and no failure of MySQL.

**Disturbed texts.** The code promises nothing for a text that travels while the
session of its recipient begins, ends or breaks. `ChatDelivery` records such pairs
(recipient, text) in `disturbed`; the properties of `delivery` claim that nothing
else goes wrong, and `chat_lost` shows that without the exception texts are lost.

**Stored texts.** `owed` leaves out what the code gives up: the texts in an answer
that is lost with its client (the rows are deleted before the answer is sent), and
those inserted between `login`'s reading and its deleting of the rows
(`chatservice.cpp:121,125`), which are deleted unread. Without the second exception TLC
finds `StoredTextSurvives` violated.

**Findings.** 1: `login` checks `User.state` and writes it in two calls, and two
overlapping logins of one user both succeed. 2: only ctrl+c resets `User.state`;
after a crash the users of the process are refused as "already logged in" even when
it is up again. 3: a text for a user whose `User.state` says "online" but whose
SUBSCRIBE Redis has not executed yet is published to nobody and not stored. 4:
`groupChat` returns from its loop at the first member found in its own map. 5: the
client's `addfriend` leaves `friendid` out of its request; the handler's `get<int>()`
throws, and the server process ends. 6: the observer sends a text as it was
published, in plain JSON; the client decrypts it, parses the empty result, and ends.

**Bounds.** Three connections let one user have an old and a new connection on one
server and another on a second server; two servers give every route of a text; two
users are a sender and a recipient, and a third matters only for groups. One text
suffices for the delivery properties, which are about one text and one recipient;
texts never compare with each other in the code. `MaxPending` (1 or 2) bounds the commands
written to Redis and not executed; two are enough for a logout followed by a login
on one channel. `MaxDbFaults`, `MaxBusFaults`, `MaxCrashes` and `MaxSigints` count
failures; `OneFault` in `faults` allows one of any kind per behaviour. In `directory`
two connections overlap in every pair of handlers, and two users and two groups are
enough for a row to be taken for another's. In `client` texts have the
longest length `recv(1024)` takes whole, 1023 bytes of JSON (`RecvBoundary`), and
`AnswerLens` has one length on each side of it, for nothing limits the lists of an
answer. `MaxFailures` bounds failed statements and ends of the process together in
`directory`, `MaxGroups` the ids of groups in requests too.
`client` has one text, which goes by each route (chat, group, offline table, Redis) and
meets the answer of a login on the wire. It has one server, since on the wire it makes
no difference which server published a text: one whose recipient logs out and in
again while it travels comes back through Redis to the server that published it. A text is sent
by at most one command. Connections of one server are symmetric, and so are users;
`liveness` uses no symmetry.

**Fairness.** `Handler(c)`, the observer, Redis and the end of a process are weakly
fair: muduo's threads, the observer and Redis run as long as the process does.
Commands of clients, crashes, failures and ctrl+c have no fairness. Weak fairness is
enough for a handler waiting for `_connMutex` because the holders are chats and there
are finitely many texts. The writes to Redis are strongly fair only because
`MaxPending`, a bound of the model, makes them wait. `ClosedGoesOffline` excepts
behaviours with a crash, a database failure or ctrl+c: after the reset of ctrl+c a
login that is still running writes "online" for a process about to exit.
`PresenceCatchesUp` needs no more: the steps that announce and withdraw are steps of a
running handler. `CFairSpec` is the same with the wire, and `Recv` weakly fair: TCP
delivers what was written to a client that lives, and a thread in `recv()` gets it.
`Flush` is weakly fair too: a loop that has finished a callback does what is queued.

Deadlock is checked in every run: a client can always connect or hang up, so a state
without a successor would be a model error.

## What is proved

For every set of servers, connections, users, groups and texts, and every number of
failures, unless the statement names a hypothesis, from the assumptions the modules
name (`ServerOfAssumption`, `SentinelAssumption`: the null values are none of the
others, and the bounds are naturals). A theorem without hypothesis assumes nothing of
the clients: `SerialLogins` and `SingleLogout` may be `FALSE`. `Orderly` is explained
above; `Calmly` is `Orderly`, no killed process, no failure of Redis, no groups. With
this, every invariant and every action property of the passing runs is a theorem.

| theorem | module | statement |
|---|---|---|
| `TypeCorrect` | `ChatTypeProofs` | `Spec => []TypeOK` |
| `MutexCorrect` | `ChatSafetyProofs` | `Spec => []MutexOwned` |
| `NoDeadEntryCorrect` | `ChatSafetyProofs` | `Spec => []NoDeadEntry` |
| `SendTargetCorrect` | `ChatSafetyProofs` | `Spec => []SendTargetOpen` |
| `OneSessionCorrect` | `ChatSessionProofs` | `Orderly`: `Spec => []OneSessionPerUser` |
| `SessionRegisteredCorrect` | `ChatSessionProofs` | `Orderly`: `Spec => []SessionRegistered` |
| `OnlineHasOwnerCorrect` | `ChatSessionProofs` | `Orderly`: `Spec => []OnlineHasOwner` |
| `OnlyOwnerEnds` | `ChatSessionProofs` | `Orderly`: `Spec => OnlyOwnerEndsSession` |
| `SessionsRefineCorrect` | `ChatSessionProofs` | `Orderly`: `Spec => SessionsRefine` |
| `SubscriptionCorrect` | `ChatBusProofs` | `Orderly`: `Spec => []SubscriptionFollowsSession` |
| `UndisturbedCorrect` | `ChatDeliveryProofs` | `Calmly`: `DSpec => []UndisturbedExactlyOnce` |
| `StoredOnlyWhileAwayCorrect` | `ChatDeliveryProofs` | `Calmly`: `DSpec => []StoredOnlyWhileAway` |
| `ClientsRefineService` | `ChatClientProofs` | `CSpec => Spec`: with its clients the server takes no other steps |
| `ClientTypeCorrect`, `StoredTextCorrect` | `ChatClientProofs` | `CSpec => []ClientTypeOK`, `CSpec => []StoredTextSurvives` |
| `NothingSentAfterLogoutCorrect` | `ChatClientProofs` | `CSpec => NothingSentAfterLogout` |
| `ReadableAloneCorrect` | `ChatClientProofs` | `CSpec => []ReadableAlone`, whatever the lengths |
| `DirTypeCorrect`, `RegAnswersOwnRowCorrect`, `CreatorIsMakerCorrect`, `OrphanOnlyAfterFailureCorrect`, `LoginListsTrueCorrect` | `DirectoryProofs` | `Directory!Spec => []` of each invariant of `directory` |
| `EncryptFits`, `DecryptFits`, `LengthRoundTrip`, `RecvBoundary` | `AesProofs` | the buffers of both functions, for every length |

`TypeOK` is not inductive: that what is published, stored or sent to has its type
depends on the step the handler is at. `TypeInv` adds `JobFits`, `ObserverFits` and
the user of a logged-in client; `TypeStep` has one step per action.

`SafeInv` is the invariant behind the other three. It says that the entry of a user
belongs to a connection of that server that is either past the insert of its login or
logged in as that user, and not past the erase of its close callback (`Owns`); which
handlers can run for a client in which mode (`ModeFits`); that the mutex is held by
exactly the thread inside its section; and that the connection a locked handler is
about to send to is the one in the entry it was found in (`TargetKept`). `Owns` is
needed because `insert` may leave an older entry in place and `clientCloseException`
erases one entry only: that no second entry of the connection remains follows from
every entry naming the user of its owner. The three theorems follow from `SafeInv`.
Its two parts were model-checked as invariants on the instances of `sessions` and
`faults` before they were proved.

`SingleInv` is the invariant behind the theorems that assume `Orderly`; it was
model-checked on the instance of `sessions` first, and its step lemma uses `SafeInv`.
It has three parts. `ClaimInv`: of all the connections of the cluster at most one has a
claim to a user, where a connection claims the user it is registered for, the one it
has asked to log in as and not yet inserted, and the one it has erased and not yet set
"offline". This is what `SerialLogins` protects at the gap between reading and
writing `User.state`. `StageInv`: what a claim means for the map entry and for
`User.state`, at each step of login, logout and close. `LifeInv`: no process is
exiting, and before the first crash a user who is "online" is claimed. `StepKinds` sorts
the actions into those that move a session and those that do not; the refinement
follows from one lemma for each of the former, and from `DownInv`, that a process which
does not run has no connections, for the servers a login enters on.

`DirInv` adds to the properties of `Directory` that only groups that exist have a
creator's row, although they may have other members before, and what a handler remembers
between two statements (`HandlerInv`): the id in `job` is the key of the row that was inserted,
the group of a creator without row is one its user asked for, and each list is of a
group the user was found in. That tables only grow (`Grow`) keeps what the other
handlers remember; each action then needs to be looked at for its own handler only.

`BusInv` is behind `SubscriptionCorrect`. The property compares map and subscriptions
when nothing is pending, and says nothing in between; `QueueInv` looks ahead:
`WillHear(s, u)` is what the subscription will be once Redis has executed all that `s`
has written, and it agrees with the map unless a handler is between its change of the
map and its command. That only one handler per user can be there is `ClaimInv`, which is
why the theorem needs `Orderly`. `LinkInv` says that a process that is down, or lost
its connection, has nothing left at Redis when it comes back. Crashes, restarts and
observers that quit are covered.

`DeliveryInv` is behind the two theorems about delivery; it was model-checked on the
instance of `delivery` first. `PlaceInv` says of each text and recipient that were
accepted, and not disturbed, where the text is: with one handler, once in one inbox,
with one observer, sent once, stored once with no login past its reading, or read by the
one login that will hand it over. The invariants above are what moves it on: the
entry found under the lock is open (`SafeInv`); "online" means that exactly one server
will hear the publish (`BusInv` and `ClaimInv`, `OnlineHeard`); "offline" means that
nobody is registered who could have read the table already (`StageInv`). `TextStep`
lists what one step can do to one text, from all actions (`TextStepKinds`); then there is
one lemma per place. The hypotheses of `Calmly` are all needed: when any one of them is
dropped, TLC finds one of the two properties violated, on the instance of `delivery` or,
for groups, of `group_return`. After a crash, or with an observer that has quit, an
"online" user is heard by nobody and the text is lost; a failed query or insert loses
or misplaces it; in a group the first member found locally ends the loop (finding 4).

`ClientsRefineService` lets the invariants of `ChatService` be used for the clients.
`CStepKinds` sorts the steps of the composition into two kinds: `Read`, and `WireStep`,
where a server writes or queues something or nothing, and every connection sees one of
the five kinds of `WireKind`. `NothingSentAfterLogoutCorrect` then
follows from `SafeInv`: a connection in the mode "left" has no entry, and whoever sends
holds the lock under which it found one. It speaks of sending: what another thread has
queued before the logout may be written after it. `StoredTextSurvives` is not inductive,
for the deleting of the rows could take a text nobody has read; `StoredInv` adds that a
text owed while a login is about to delete the rows is in that login, or in an answer on
the wire, and `BatchInv` and `PostedInv` say what a login holds. `ReadableAlone` is not
inductive either: that main never takes a chat for the answer to its login depends on
the order of the wire. `AnswerFirst` says that while a login runs nothing has been
written to its connection, since chats wait behind its handler, and that while main
waits after it the answer is the first message written; a refusal is alone, for a client
that is refused is in no map. TLC searched it to a depth of 56 steps on the instance of
`client` before it was proved. That what is short enough fits `recv(1024)` follows from
the operators of `AesBuffers`; that all answers are short enough is not claimed, since
nothing in the code makes them so.

Only model-checked: the liveness properties (`HandlersFinish`, `BusDrains`,
`ClosedGoesOffline`, `PresenceCatchesUp`, `LoginReturns`), which need fairness, and
`ENABLED` with it: beyond the prover.

## What is not modelled

- Each call on a hiredis context is one step; that four threads share the contexts
  without a lock is a data race inside a library, whose effects are not in the model.
- Requests as a byte stream: `onMessage` taking half a request, or two, is an
  exception, and `Crash` stands for it. A second login on a connection that has one,
  which the repository's client cannot send, is not modelled. In the other direction `ChatClient` has
  messages that arrive joined, but not one message in two parts.
- The server processes live in `ChatClient`; their faults are in `sessions` and
  `faults`. Registration has no client step: its server side is in `Directory`.
- Console input and output of the client (`main.cpp:54-75,106-138` but for the
  commands themselves), including its behaviour at the end of input, and the
  uninitialized string that `groupchat` reads (`main.cpp:449`).
- The texts of SQL statements, and the 1024 bytes they are formatted into.
- The cipher: OpenSSL's. `AesBuffers` has what the code decides, the sizes.
- In `ChatService`, ids without a row are not in `Users`, and all `Groups` exist from
  the start; users join groups that do not exist in `Directory`.
- MySQL and Redis themselves do not crash or lose committed rows.
- The programs under `test/`, which link nothing of the server, and the JSON library
  `src/thirdparty/json.hpp`: 21045 of the 22832 lines of C++ in the repository are this
  one third-party header, so that the shares of lines modelled are to be read
  against the other 1787.

## What could come next

1. A `RedisContexts` module of the output buffer and the order of replies of a
   context that several threads use.
2. The upstream direction of the wire in `ChatClient`: requests as ciphertexts in a
   stream, with `onMessage` taking what has arrived, and registration.
3. Deliveries to groups: "at most once" for the members, with and without crashes, and
   the route of a text as an abstract specification that `ChatDelivery` implements.
