# quick: a verification project

`quick` is a game server in Lua and C on top of skynet. This directory holds
TLA+ modules that model its concurrent core, TLC configurations that check them
on small instances, and TLAPS proofs of what holds for every instance.

## How the program runs

Every skynet *service* is single threaded and has one mailbox, read in order.
Inside a service many *coroutines* are alive; one runs until it yields in
`skynet.call`, `cluster.call`, `skynet.wait`, `skynet.sleep` or
`skynet.newservice`. A handler is therefore atomic between two yields, and at
each yield anything else that the service does may happen. The modules split
handlers exactly there. Between two services messages keep their order (also
over one cluster link); between different pairs they do not.

## Inventory

| component | state it keeps | operations | speaks to |
|---|---|---|---|
| `lualib/lock.lua` | owner, count, queue of waiters | `lock`, `unlock`, `lock_func` | skynet wait/wakeup |
| `lualib/session_lock.lua` | quit flag, pending sessions, a Lock | `lock_session`, `lock_quit` | role functions |
| login server (`lualib/snax/login_server.lua`) | `user_login`, round-robin index | slave `auth`, master `accept` | clients, login handlers |
| login master (`service/login/logind.lua`) | `user_online` per uid | `auth_handler`, `register`, `login_handler`, `logout` | account database, gates |
| gate (`service/gated.lua`) | `users`, `username_map`, agent pool, `internal_id` | `login`, `logout`, `kick`, `auth`, `disconnect`, `request` | login master, agents |
| connections (`lualib/snax/msg_server.lua`) | `user_online`, `handshake`, `connection` | connect, message, disconnect, login, logout, ip | gate, sockets |
| agent (`service/agent/msgagent.lua`, `cmd.lua`) | session, worker, timers, command queue | `login`, `auth`, `logout`, `afk`, requests | gate, role |
| role (`service/agent/cls`, `apis`) | role data, session lock, mailbox view | load, create, online, offline, save, mail, chat, sign | game database, online registry, mail and chat services |
| online registry (`service/online_snax.lua`) | users by uid with node and agent | online, offline, query, register_node, clear_node, kick | node monitors, agents |
| node monitor / connector / acceptor | one connection per node | connect, disconnect, register | cluster monitor, registry |
| cluster monitor (`service/cluster_monitor.lua`) | nodes and their state | register, unregister, open, shutdown | node monitors |
| cache (`lualib/cache_mgr.lua`, `cache.lua`) and mail service | hot and cold maps, reference counts | get, release, gc, save | mail database |
| chat speaker / listener | messages per channel since the last dispatch, registered nodes; players of a node | speak, dispatch, broadcast, subscribe | agents, nodes |
| timers and tasks (`timer.lua`, `fork.lua`) | timer lists | add, delete, update; fork and join | - |
| data structures | skip list and zset, sparse arrays, base64, word filter, ORM and type definitions, websocket framing, logger buffers | pure operations | - |
| game database (`service/gamedb_snax.lua`, `lua-unqlite.c`) | connection to redis, handle of the node's backup file | set, get | redis, unqlite |
| template engine (`lua-webpage.c`) | one page: list of blocks, tables of names | load, set, set_block, render | admin front end |
| admin, web front ends | none of their own beyond a connection | request forwarding | HTTP |

What makes it hard, and what must be right:

* **lock**: the hand-over happens before the new owner runs. It must be
  exclusive, re-entrant, FIFO, and lose no wakeup.
* **session lock**: `lock_quit` is never released. It must come last.
* **gate and agents**: every login and logout yields two or three times while
  others use the same pool and tables; an agent's idle logout bypasses its
  command queue. No agent may be lost or shared; an agent must serve the session
  it is filed under; gate and login master must agree between logins.
* **login over several nodes**: one session per account, also when a node dies.
* **connections**: sockets close late and users come back on new ones.
* **role life cycle**: the role saved last must be the newest one.
* **online registry and monitors**: tables on one node mirror another node that
  crashes and comes back.
* **cache, mail, chat**: results of calls made before a yield are used after it;
  buffers are cut at their limits.
* **game database**: two stores are written one after the other, and either fails
  alone. The backup must never go back to an older row.
* **data structures**: boundary values, ranks, order of equal scores; tables
  that move what they hold; a traversal of what the loop's body changes; blocks
  that are copied and freed in one walk.

## Modules

| module | models | composes |
|---|---|---|
| `Lock` | `lualib/lock.lua` | - |
| `FifoLine` | what `lock.lua` promises: one line, served in order | - |
| `SessionLock` | `lualib/session_lock.lua` | `Lock` |
| `Gated` | one node: gate, the agents' session control, the login master's part | - |
| `GatedProofs` | proofs about `Gated` | `Gated` |
| `MsgServer` | `lualib/snax/msg_server.lua`: sockets, handshakes, sessions | - |
| `LoginCluster` | login master, account rows and the gates of several nodes that crash | - |
| `LoginClusterProofs` | proofs about `LoginCluster`: the marks of logins in progress; one session per account, known to the login master | `LoginCluster` |
| `Log` | `lualib-src/lua-log.c`: the logger's two threads and its buffers | - |
| `LogProofs` | proofs about `Log`: the lists of buffers, and that nothing is lost or out of order | `Log` |
| `Role` | a role in the agents: load, sessions, periodic save, close, and who is online | - |
| `RoleProofs` | proofs about `Role`: the list of users online, and that no change is lost | `Role` |
| `Mail` | the mailbox service and `lualib/cache_mgr.lua` | - |
| `MailProofs` | proofs about `Mail`: types, no mail lost or repeated | `Mail` |
| `Monitor` | node and cluster monitors, connectors, the online registry | - |
| `MonitorProofs` | proofs about `Cmd.shutdown` in `Monitor`, and its types | `Monitor` |
| `SkipList`, `ZSet` | `lualib-src/lua-skiplist`, `lualib/zset.lua`: links and spans, and the set on top of them | `ZSet`: `SkipList` |
| `Chat` | chat speaker, the listeners of the nodes, agents that subscribe | - |
| `Timer` | `lualib/timer.lua` | - |
| `RoleMailbox` | `agent/cls/mailbox.lua`, `agent/apis/mailbox_api.lua`: the mails of a role in its agent | - |
| `GameDb` | `service/gamedb_snax.lua` over `lua-unqlite.c`: redis and the cold backup | - |
| `Services` | four services side by side | `GameDb`, `MsgServer`, `RoleMailbox`, `Chat` |
| `ServiceProofs` | proofs about these four | `Services` |
| `Crab` | `3rd/crab/crab.c`, `lua-crab.c`: the word filter | - |
| `SparseArray` | `lualib-src/lua-array.c` | - |
| `WebPage` | `lualib-src/lua-webpage.c`: the template engine | - |
| `Base64` | `lualib-src/lua-base64.c` | - |
| `Parts` | six parts of the library side by side | `ZSet`, `Timer`, `Crab`, `SparseArray`, `WebPage`, `Base64` |
| `LibraryProofs` | proofs about `Lock` (also that it implements `FifoLine`), `SessionLock`, `Timer` and `SparseArray` | `SessionLock`, `FifoLine`, `Parts` |
| `MC...` | the instances for TLC | the module after `MC` |

`MCLock` composes `Lock` and `SessionLock`: a behaviour chooses whether the lock
is used by arbitrary code or by a role's sessions. The other modules meet at
interfaces, each side reduced to what it does to the other: `LoginCluster` takes
from `Gated` that sessions end at any time; `Role` takes from `Gated` when an
agent is logged in, kicked and reused; `Monitor` takes from both who is logged in
and whose role is online; `Role` uses the session lock as an owner and a quit
flag, which `SessionLock` justifies.

Mutated forms of operations (`Mut...`) stand before the operations they are
mutations of. They are no part of a specification: each shows that a property
notices a plausible bug.

### Lock, SessionLock

State: the fields `locked`, `lock_count`, `lock_waiter` of the lock, and for each
coroutine where it is (`pc`: out, waiting in `Skynet.wait`, woken but not yet
run, under the lock) and how deeply it has nested. `lock` has the three branches
of `Lock:lock`, `LockResume` is what follows `Skynet.wait`, `unlock` has the
nested and the outermost case and hands over at once, as `_lock(co)` does in
the code. Failed asserts lead to `pc = "error"`. `SessionLock` adds the quit flag
and the list of pending sessions; a session returns, or raises past the filter.

### Gated

State of the gate: `users`, `username_map`, `agent_pool`, `internal_id`,
`curr_agent` as in the code, and the `logouts` that yield in their call of the
login master. Each agent is a record with its session variables, its mailbox
`inbox`, the queue `cs` with the command it runs, and its worker coroutines. One
action per stretch of a handler between two yields: `LoginStart`, `AfterKick`,
`LoginDone` of the login master; `KickHandler`, `LoginHandler`, `SpawnDone`,
`LoginReturn`, `LogoutHandler`, `LogoutReturn` of the gate; `Receive`, `RunQueued`,
`ReceiveAnswer`, `CloseDone`, `WorkerIdle`, `WorkerExit` of an agent; `Notice`
delivers, or under pcall loses, what `logout_handler` tells the login master;
`Auth` and `Disconnect` are connections coming and going.

### MsgServer

`session`, `version`, `ufd`, `handshake`, `connection` are the tables, `auths` the
`do_auth` calls that yield in `auth_handler`. `Connect`, `Disconnect`, `DoAuth`,
`AuthRefused`, `AuthReturn`, `Login`, `Logout` are the handlers. A socket that
`closeclient` closes delivers its close event later. `accepted` records the
handshake indexes accepted. `polite` fixes whether clients wait for answers and
return only when their old socket is closed.

### LoginCluster

`user_login`, `user_online` and the rows of the account database on the login
node; `users`, `internal_id` and the yielding `logins` on every game node; where
each connection's `accept` is (`flow`); the calls of gates on their way
(`notices`). `AuthGet`, `RegisterId`, `RegisterAdd` are the calls of `register`;
`Accept`, `AfterKick`, `LoginDone`, `Finish` the stretches of `login_handler`;
`Kick`, `KickLogout`, `LoginCall`, `LoginReturn` the gate. `Crash` loses a node's
state and what it sent or was sent; `CallDown` and `CallLost` are failed
`cluster.call`s, before or after the callee acted. `world` selects the trouble:
crashes, crashes with late messages, lost calls, or accounts without a row.

### Log

The heap of buffers with their `next` pointers, the fields of `inst`, the
worker's locals `w`, the file and its counters. `LogMessage` is one `append`
under the mutex in its three branches; `Swap`, `DropBuffers`, `Write`, `Recycle`
and the test of the loop are the worker's steps, of which only `Swap` is under the
mutex; `LogExit` clears `running`.

### Role

A role is the set of the changes made to it; an agent is a record of `env` and of
the coroutines that yield in it: loading, sessions (one of the timer, one of the
client) that wait for or run under the session lock, the close in its stages,
the loop that saves five minutes later, and the calls of gamedb's `set` under way.
`LoadRole` to `Online` follow `load_role` and `Role:online`, `Session*` and
`Request` the session functions, `TimerSave` and `ForceSave` the two saves,
`Offline`, `Quit`, `Saved` the close, `Kick` and `IdleLogout` its callers. `world` is
the set of the complications a behaviour has.

### Mail

`hot`, `cold` and `gc` are the maps of `CacheMgr` and `obj` its objects, with times
reduced to never set, new and old; `row` is maildb. `Send` and `Pull` are requests
that hit the cache, or wait in `reqs` for `DbGet` and `Arrived`; `Arrived` and the hits
include `add_hot`'s swap and the start of a collection. `Update` is a whole
update pass, with the error that ends it; `Save`, `DbSet`, `DelGc`, `RoundOver` the
forks of `_gc`; `Exit` is `on_exit`.

### Monitor

`connector` says where a node's connector is, `snapshot` what `get_users` returned
to it; `services_monitered`, `naming`, `service`, `closing` belong to a node monitor,
`node_monitors`, `service_name_list`, `is_shutdown`, `shut` to the cluster monitor,
`users` to the registry, under both types of key. `Connect` to `Heartbeat` are the
connector's calls, `Register` to `Unregister` services, `Shutdown` to `Abort` the
shutdown with its polls, `Crash` and `Restart` what happens to processes. `budget`
says how many logins and crashes a behaviour has and whether it has a shutdown.

### SkipList, ZSet

A list is a record of `level`, `length`, `tail` and, for every node, `score`, `backward`
and the links with their spans; a node is known by the member it holds. The
`sl...` operators are the functions of `skiplist.c`; `Walk` is the descent that each of
them begins with. `slInsert` takes the level that `slRandomLevel` may return. `ZSet`
has the table `tbl` next to the list: `add`, `rem`, `limit`, `rev_limit` change both, the
other operators are its queries.

### Chat

`chat_cache`, `listeners` and the `calls` on their way are the speaker; `world_cache`,
`players` and the `inbox` of each node its listener. `gate` is what the gates know of a
role's session, `ag` has the agents, with what `cmd.close` leaves behind in them (`env.role`,
`alread_close`).
`dispatch` is a round of `repeater.dispatch` with its forks, `Dispatched` and
`update_world_chat` the listener, `Subscribed` what agents tell it in `Online` and `Quit`.
`Login` and `Start` begin a session or come back to it on a new connection; `LoadRole`,
`LoadGot`, `Online` are `load_role` from yield to yield; `Kick` and `IdleLogout` begin a
close and `Offline`, `Quit`, `Saved` are the rest of it, as in `Role` but without data.
`budget.world` says what a behaviour has beside logins, loads and kicks: agents that serve
again, clients that reconnect, idle logouts, kicks during a load, a center that cannot be
reached. Crashes take a node with its listener and agents, or the speaker.
A message is a number; to whom a node sends it is seen in `players` only.

### Timer

The fields of a Timer, with `timer` for what a handle stands for, and `pass`: the
handles that the running `update` still has to visit, and the callback it waits for.
`Begin`, `Visit`, `Returned`, `Over` are a pass; between them other coroutines call
`add_timer`, `remove_timer`, `stop`, and time passes.

### RoleMailbox

`box` has `private_mails` and `system_mails`, `waiting` what the mailbox service holds.
`update_mailbox` and `Pulled` (or `PullFailed`) are the two stretches of a pull, `Answered`
the service between them; `asked` counts its calls and `answers` are those on their way.
`update_mailbox` and the daily update take the session lock, but every connection of
the client has a lock of its own, so that pulls may overlap. The requests that delete
mails (`mailbox_rpc.lua:11-17`) and the agent's own mails take no lock: `delete_mail` and
`send_agent_mail` may run while pulls wait.

### GameDb

Calls of `response.set` are numbered as they come, and a row is the number of the
call that wrote it: `redis`, `disk` (what the unqlite file has committed) and `txn`
(what the open transaction adds) map accounts to numbers. A call is sent
(`Call`), executed or refused by redis (`Execute`, `Refuse`), and answered in order; the
rest of the handler does not yield and is one step: `SetDone`, `SetRefused`, or
`SetUnbacked` where `begin`, `store` or `commit` fails with or without raising, or the
database was never opened. `Disconnect`, `Crash`, `Exit` and `Start` are the failures
around it. An error that is raised leaves the transaction open, and the
next set commits it.

### Crab

A trie of hash tables: `tables` maps addresses to tables with their nodes, chained
by `next` and taken from `lastfree` downwards. `table_newkey` has its cases
(free main position, colliding node moved, new key chained behind) and
`table_expand` enters everything anew in twice the size. Words are inserted one per step; in every
state `dict_filter` is compared with `Filtered`, which knows words and no tables.

### SparseArray

`elems` are the indices with a value, `sparse` the indices recorded at negative
keys, `unsorted` the sign of `t[0]`, `border` what `lua_rawlen` answers: any border
of the table, chosen anew when a key comes or goes. Assigning nil to an absent index
has no action: an assignment and a removal together do the same. `lpairs` and `lnext` are a
traversal, between whose steps `lnewindex` and `Removed` assign; `insert` has the binary
search of the code. `counted` and `fallen` remember which elements were within
the border and then were not.

### WebPage

`blocks` is the list from `m_head` on, of text, variables, and begins and ends
of blocks; `parse`, `set`, `set_block`, `render` are the calls, `load` starts a new page. A
page is a sequence of tokens. `vals` and `inst` record what the program asked
for, and `Printed` reads them without the list.

### Base64

`base64_encode` and `base64_decode` as operators; the decoder is a fold over the text, up to
its first `'\0'` (`CString`), with the states of its loop. A behaviour is a string that grows byte by byte, or a text
that grows character by character until it is refused.

### What is left out inside the modules

`Role` has no more passes of `Timer:update` once a timer was stopped: what is left of
one could only save the same role before the close's own save. The chat
speaker never answers `world`, `private` and `system`, which the callers' forks wait
for; `Chat` has no such forks. A Timer that is stopped and started again while
its loop sleeps would have two loops; nothing in the repository does that.

## What the runs check

Each run is `tlc -config X.cfg M` for the module `M` of the file `X`; the second
configurations are `MCGatedSerial.cfg` for `MCGated`, `MCLoginClusterSubid.cfg` for
`MCLoginCluster` and `MCRoleReuse.cfg` for `MCRole`.

| run | instance | states | what it shows |
|---|---|---|---|
| `lock` | 4 coroutines, nesting of 2 | 1.1k | no assert fails, one owner, exact nesting, no lost wakeup, FIFO service, everyone served, `lock_quit` included; as session lock: `lock_quit` comes last |
| `gated` | 2 accounts, 3 agents, `maxclient` 1, 3 logins, reconnections | 854k | no agent is lost or given out twice |
| `gated_serial` | 1 account, 2 agents, 3 logins, 3 workers, no reconnections | 42k | the agent serves the session it is filed under, the asserts on usernames hold, login master and gate agree between logins; every login is answered, a user who stays away leaves |
| `services` | 2 users, 3 sockets, 2 handshake indexes, polite or not; 2 nodes, 3 agents, 1 role, 3 messages or logins, 1 crash, or 2 logins in all five worlds; boxes of 2, 4 mails, 2 pulls under way; 2 accounts, 4 sets, 2 failures | 455k | no handshake is accepted twice, nothing is kept for a closed socket; for polite clients a session's socket is its own and a logout cuts it off (the last two are parts of `BindingsExact`); chat messages reach each registered node once and in order, listeners know the players whose roles are loaded; boxes stay within the limit and keep the newest, whatever is deleted while pulls overlap; the backup has the rows of redis but for sets under way or failed, never an older one after a newer |
| `login_cluster` | 1 account, 2 nodes, 2 connections; crashes, lost calls or registration | 125k | one session at most, known to the login master, marks exact, every login answered |
| `log` | buffers of 2 messages, files of 3, drop above 2 buffers, 6 messages | 5k | no buffer shared, leaked or freed early, the asserts, order, and every message reaches the file |
| `role` | 1 account, 2 agents, 2 changes, five worlds | 104k | a role loaded has every earlier change, a kick leaves a complete row, the list of online users is right, kicks are answered, changes are saved |
| `mail` | 2 mailboxes, 2 mails, 3 objects, cache of 2 | 423k | one object per mailbox, no mail lost or out of order, everything in the rows after exit, exit ends |
| `monitor` | center and game node, 1 user, 2 service names; 2 logins and a crash, or a shutdown | 114k | entries of absent users go away, present users get listed, services exit before their node aborts, a shutdown ends |
| `parts` | 4 members, 2 scores, 2 levels; 2 timers, intervals and times of 1 or 2, 2 s; dictionaries of up to 5 words; 4 indices, 2 of them recorded; 3 pages, 4 calls; 5 bytes or 8 characters, at most 2 of them from a `'\0'` on | 394k | ranks and ranges are those of the sorted members; a text loses its words and nothing else; a traversal returns every element that stays; a page is rendered with its variables and instances; base64 decodes what it encodes and accepts nothing else, up to the first `'\0'` of a text; callbacks are called exactly as often as owed |
| `login_subid` | 2 accounts, 2 nodes | - | violated: see Findings |
| `role_reuse` | 2 accounts, 2 agents, reuse | - | violated: see Findings |

`Gated`, `MsgServer`, `LoginCluster`, `Role`, `Mail`, `Monitor` and `GameDb` define a `TypeOK` that these
configurations do not list, and so does `Lock`; it holds in each of them (add
`INVARIANT TypeOK`; in `MCServices` it is that of `GameDb`). It is proved for all of them;
`Log` has none, its types are `Typed` in `LogProofs`.

Some invariants have parts with names of their own: `BindingsExact` has `NothingKept`,
`FdIsBound` and `LogoutUnbinds`; `ChangesKept` of `Role` has `RowComplete` and `ChangesSeen`;
`MailExact` has `RowsAtExit`; `Delivered` of `Chat` has `InOrder` and `Subscriptions`.

### Why the bounds are enough

* `lock`: four coroutines give an owner, a woken one and a queue of two that can
  be served in the wrong order; two levels distinguish nested from outermost.
* `gated`: with two accounts and three agents a login finds the pool empty and
  spawns while another login or a logout is under way; three logins let an
  agent be kicked, pooled and given to the other account. `maxclient = 1` puts
  the limit of two agents within reach. `gated_serial` lets one account come back
  while its former agent still closes, with a worker of each session.
* `services`: a socket may close, be reused by nobody, and two more follow it,
  one for each of two sessions; two indexes suffice for a repeated handshake. A
  buffer of two messages is split by three. Three logins let a role move to
  another agent and back through a crash; two suffice for an agent that serves again and
  for the next session to overtake the close of the one before. Boxes of two with four
  mails fill twice; of two pulls under way one may be answered, or lost, before the other
  is asked for. Four sets of two accounts with two failures let a transaction stay open over a
  failure, take in another account's row and be committed or lost.
* `login_cluster`: two connections compete for one account on two nodes; up to
  two sessions per node, so that one survives from before a crash of the other.
* `log`: with `MaxBuffers = 2` one round of the worker takes more than the limit; nine
  buffers can never all be in use. Liveness makes the run long: without it `BuffersExact`
  and `InOrder` were checked up to `MaxMsg = 9` and with `LOG_BUFFER_SIZE = 2` as well.
* `role`: two agents, the old one closing and the new one loading; two changes
  are needed to lose one and keep one. The worlds other than the plain one
  have no changes: what is said of them is about lists and answers.
* `mail`: two mailboxes with `cache_max_cnt = 2` swap on the second; three objects
  allow a second object of a mailbox, which the properties must exclude.
* `monitor`: the center and a game node, so that a user moves between them and
  either crashes while the other's connector is half way; one service name
  is on both nodes and one only on the center, as in `config`.

* `parts`: four members on two levels give links of every kind, among them one
  that passes over three nodes, and headers whose level comes and goes; an
  instance with three levels (5k states of the set) was checked as well. A timer of
  interval 1 is owed two calls when a slow callback ends at 2 s. The runes of
  the first dictionary collide in tables of 2, 4 and 8 nodes, so that a node is
  moved out of a place that is not its own; the words of the others begin and
  contain each other. Four indices with two recorded give a border on either
  side of a recorded one and a search of both halves. The pages have a variable
  inside, outside and at the end of blocks, one name twice, and a block in a
  block; four calls make an instance of an instance. The bytes are those at
  the ends of the ranges; five are a full group and one of each remainder.

Nothing but the bounds named in the modules (`MaxId`, `MaxUid`, `MaxWorkers`, `MaxInbox`,
`MaxNotices`, `MaxHandle`, `MaxTime`, `MaxIndex`, `MaxMsg`, `MaxBuf`, `MaxChange`, `MaxLock`, `MaxMail`, `MaxObj`,
`Budgets`, `MaxDepth`, `MaxCalls`, `MaxFaults`, `MaxSparse`, `MaxBytes`, `MaxText`, `MaxBehind`, `MaxPull`, and the `max` of `Trials`) limits the state spaces; they stand in guards of what clients,
users or crashes begin, never of what a service owes. Symmetry is used only in
runs without temporal properties. Deadlock checking is off where clients may be
done and the system really may stop; the `lock` run has it on.

### Fairness

* `Lock`: a woken coroutine is run; a function under the lock comes to its end.
  Strong fairness of the outermost unlock says that nesting cannot go on for
  ever.
* `Gated`, `LoginCluster`: services serve their mailboxes and answer; time passes
  for an idle worker. Clients, crashes and restarts have no fairness.
* `Log`: the worker thread runs, and the timed wait returns.
* `Role`: services answer and coroutines of an agent are scheduled. The timer
  serves its intervals in turn and the session lock its queue, which two
  strong fairness conditions stand for.
* `Mail`: maildb answers and the sleep of a collection ends. That the update pass
  runs again is only assumed in `UpdateSpec`.
* `Timer`: the loop's sleep ends and callbacks return. `Parts` has this fairness for
  behaviours in which the timer runs, and no other.
* `Monitor`: the connectors' five-second loop goes on, services exit when told to,
  the coroutine of the shutdown goes on. The user and the services do as they
  like, except that a role that began to go offline gets there.

### Where a property is limited to

`SingleSession` and `SessionKnown` speak of worlds with crashes only; `ChangesKept`
and `MailExact` of the world without complications;
`BindingsExact` (from its second part on) of polite clients;
`Delivered` (its second part) of agents that serve once, on one connection, and are kicked
once the role is loaded, with a center that is reached (`world = {}`); `OnlineListed` excludes four worlds;
`gated_serial` has no reconnections. `BackupExact` allows a lag where the last set of
an account failed; `Traversed` excepts elements that the border has left behind,
and asks `#` only where it has to sort; `RenderExact` is about pages
whose variables have text behind them, and ends where a freed block was
read, so that it says nothing of the pages in which an instance was copied and freed
(`NoFreedRead` finds those); `TextExact` leaves out the empty string and what stands behind a `'\0'`. In each case the code does not keep the
property beyond that limit, and a line of the next table shows how.

### Variations

A configuration changed as said here makes TLC report the property violated.
Unless said otherwise `Spec` is the specification and there is no symmetry.

| base | changes | violated | what happens |
|---|---|---|---|
| `MCGated` | `Agent = {a1, a2}`, `maxclient = 10`, `Reconnects = FALSE`, `MaxId = 2`, `MaxInbox = 3` | `UniqueSubid` | `login_handler` returns `internal_id` as it is after the yields (`gated.lua:84`): two overlapping logins return the same subid |
| `MCGated` | `Agent = {a1, a2, a3}`, `maxclient = 10`, `Reconnects = FALSE`, `MaxId = 3`, `MaxInbox = 3` | `KickCanFind`, `UsernameAsserts` | the same returned subid: the login master files a session under a number the gate gave to another one, whose kick then finds no session or fails in the assert (`gated.lua:84`, `:110`) |
| `MCGated` | three `Uid`s, `Reconnects = FALSE`, `MaxInbox = 3` | `AgentLimit` | the limit is tested before the yield of `newservice` and the count raised after it (`gated.lua:58-63`) |
| `MCGated` | `Uid = {u1}`, `Agent = {a1}`, `MaxId = 1`, `MaxInbox = 2` | `OnlyAfkForcedOut` | a client returns while the worker sleeps; another `afk` restarts its clock and it is forced out though it is connected (`msgagent.lua:120`, `:150`) |
| `MCGated` | `Agent = {a1, a2}`, `MaxWorkers = 2`, `MaxInbox = 2` | `SessionBinding` | the idle logout bypasses the queue: the session it clears after its call is the next one (`msgagent.lua:77`, `:144`) |
| `MCServices` | `SSpec`, `User = {v1}`, `Fd = {s1, s2}`, `Polite = {FALSE}` | `IpWhenConnected` | the close of the old socket erases the fd of the new one (`msg_server.lua:166`; the promise is at `:59`) |
| `MCServices` | `SSpec`, `User = {v1}`, `Fd = {s1}`, `Polite = {FALSE}` | `AuthAtomic` | `do_auth`, "atomic , no yield" (`msg_server.lua:180`), calls `auth_handler`, which yields (`:205`) |
| `MCLoginCluster` | `Worlds = {"late"}`, `MaxNotices = 3` | `SingleSession` | a logout notice from before a crash erases the entry of the session after it (`logind.lua:109`) |
| `MCLoginCluster` | `Worlds = {"lost"}`, `MaxNotices = 3` | `NeverReentry` | the answer of a gate is lost, the next login enters the gate's handler again (`gated.lua:44`) |
| `MCLoginCluster` | `Worlds = {"register"}`, `MaxNotices = 3` | `OneLogin` | two first logins of an account get two uids (`logind.lua:20-33`, against `login_server.lua:144`) |
| `MCLoginCluster` | the same, `Node = {n1}` | `AuthFindsUser` | the uid of a first login is a number, the one in the username a string (`logind.lua:20`, `gated.lua:31-36`, `msg_server.lua:46-47`) |
| `MCLog` | `LOG_BUFFER_SIZE = 2`, `rollsize = 2`, `MaxMsg = 20` | `FileLimit` | rolling computes the second file's name again and again (`lua-log.c:148-152`, against `:18`) |
| `MCLog` | `LOG_BUFFER_SIZE = 2`, `rollsize = 2`, `MaxMsg = 9` | `ExitFlushes` | `log_exit` while the worker writes: the rest is not written (`lua-log.c:360-368`) |
| `MCRole` | `MaxChange <- TwoChanges`; `Worlds <- Reuse`, `Early`, `Quick`, `Reconnect` or `Center` | `RowComplete` | in turn: a second user of an agent is never saved; a kick during the load closes nothing and the role is saved by nobody (`role_api.lua:41`); the forced save of the old agent overwrites the row (`cmd.lua:48-63`); a new session lock does not wait for the old one's session (`cmd.lua:23-34`); a raise in `role:offline` leaves sessions and timer going (`role.lua:105`, `:130`) |
| `MCRole` | `MaxChange <- TwoChanges`, `Worlds <- Idle` | `ChangesSeen` | the idle logout frees the user before the role is saved (`msgagent.lua:74-88`) |
| `MCMail` | three `Box`es, `Worlds <- Plain`, `MaxMail <- TwoMails` | `MailExact` | the second swap meets a cold map whose mailboxes have no `_ref_cnt`, raises, and the map is gone (`cache_mgr.lua:43`) |
| `MCMail` | `MaxMail <- TwoMails`, `Worlds <- Busy` or `Late` | `RowsAtExit` | a collection under way, or a request, takes mailboxes out of what exit saves (`cache_mgr.lua:126`, `:265`) |
| `MCMail` | `Box = {b1}`, `Worlds <- Expiring`, `MaxMail <- TwoMails` | `PulledOnce` | as many mails are dropped as were returned, though expired ones stood before them (`mailbox/cmd.lua:56-66`) |
| `MCMail` | `FairSpec`, `Box = {b1}`, `Worlds <- Failing`, `MaxMail <- TwoMails` | `ExitEnds` | an error of maildb's `set` ends a fork without its signal, and the join waits for ever (`fork.lua:14-24`) |
| `MCMail` | `UpdateSpec`, `Box = {b1}`, `Worlds <- Plain`, `MaxMail <- OneMail` | `SavedInTime` | the update pass raises at a mailbox without times (`cache_mgr.lua:190`; `mailbox.lua:8` never calls `Cache:_init`) |
| `MCMonitor` | `Budgets <- OnlyUsers` | `OwnEntry` | `connected_cb` lists users from a snapshot taken before they moved to another node (`node_monitor.lua:42-45`) |
| `MCMonitor` | `Budgets <- OnlyStop` | `AllClosed` | a service that registers before its node does is refused and never closed (`node_monitor.lua:96`) |
| `MCMonitor` | `FairSpec`, `Budgets <- StopAndCrash` or `StopLate` | `ShutdownEnds` | a node that died stays in `node_monitors`, a service that boots during the shutdown is polled for ever (`cluster_monitor.lua:58`) |
| `MCParts` | `MSpec`, invariant `PagesEnd` | `PagesEnd` | `rev_range` turns ranks round before `range` clamps them to 1: a page beyond the end holds the last member again (`zset.lua:57-72`) |
| `MCServices` | `SSpec`, `Budgets <- Idle` | `Subscriptions` | an agent that logs its user out by itself tells the gate first; the role is online in another agent when its unsubscribe comes and removes the new entry (`chat_listener.lua:95-100`, `msgagent.lua:74-88`) |
| `MCServices` | `SSpec`, `Budgets <- Reuse` | `Subscriptions` | `env.role` outlives the session and `load_role` answers at once: the next user of an agent is not subscribed; and as `alread_close` outlives it too, a role that such an agent loads is never unsubscribed (`role_api.lua:38`, `cmd.lua:44`) |
| `MCServices` | `SSpec`, `Budgets <- Reconnect` | `Subscriptions` | the entry keeps the connection of the load; a client that comes back has a new one and is not subscribed again (`cmd.lua:18-21`, `role_api.lua:38`) |
| `MCServices` | `SSpec`, `Budgets <- Early` | `Subscriptions` | a kick while the role loads closes nothing and the load goes on: an agent that has been given back is subscribed (`role_api.lua:41`, `cmd.lua:66`) |
| `MCServices` | `SSpec`, `Budgets <- Center` | `Subscriptions` | a call of `online_snax` that fails raises before the events: a role that is loaded and not subscribed, or one that is gone and still is (`role.lua:93-96`, `:105`) |
| `MCParts` | `MSpec`, property `RemovedAtOnce` | `RemovedAtOnce` | a timer removed while a callback yields is still called in that pass (`timer.lua:44-52`) |
| `MCServices` | `SSpec`, property `OnlyWhenFull` | `OnlyWhenFull` | as many mails go as come: a role that pulls mails one by one only ever has one (`mailbox.lua:161-165`) |
| `MCServices` | `SSpec` | `BackupComplete` | a set whose backup failed is not repeated: redis has a row that the file lacks, though nothing is under way (`gamedb_snax.lua:34-37`) |
| `MCParts` | `MSpec` | `NothingFalls` | an index within the border is not recorded; when the border falls below a hole the element behind it is not traversed (`lua-array.c:68`) |
| `MCParts` | `MSpec` | `LengthCovers` | the border grows past the recorded indices, which are sorted already: `#` answers with the last of them (`lua-array.c:186-201`) |
| `MCParts` | `MSpec`, property `ReturnsElements` | `ReturnsElements` | a recorded index whose element was removed in the loop's body is returned by the traversal (`lua-array.c:164-168`) |
| `MCParts` | `MSpec` | `NoFreedRead` | an instance of a block within a block is freed when it is copied, and the walk goes on from it (`lua-webpage.c:460-469`) |
| `MCParts` | `MSpec`, `Page <- Adjacent` | `RenderExact` | the character behind a variable is passed over: the comment there, the end of the block, is taken for text (`lua-webpage.c:174-176`, `:276`) |
| `MCParts` | `MSpec` | `EmptyEncodes` | the length of the empty string less one wraps around, and `encode` returns nil (`lua-base64.c:163`) |
| `MCParts` | `MSpec` | `WholeTextRead` | a `'\0'` in a text ends every loop of the decoder: what follows is accepted unread (`lua-base64.c:68`, `:133`, `:142`) |

One more instance holds: `MCMail` with `Box = {b1}`, `Worlds <- Plain`, `MaxMail <-
ThreeMails` meets the mailbox limit and its refusal.

## What is proved

`LibraryProofs` proves about `Lock`, for every set of coroutines and every nesting depth:

| theorem | states |
|---|---|
| `Inductive` | `Spec => []IInv` |
| `TypeCorrect` | `Spec => []TypeOK` |
| `AssertsHold` | `Spec => []NoAssertFails`: the asserts at `lock.lua:31` and `:36` hold |
| `Exclusive` | `Spec => []MutualExclusion` |
| `WakeupsKept` | `Spec => []NoLostWakeup` |
| `Refinement` | `Spec => ImplementsFifoLine`: the lock is a FIFO line |

The assumptions are those of `Lock`: `None` is no coroutine, and the nesting depth
is a positive number. The invariant `IInv` is the conjunction of the type
invariant, the three safety invariants, which none of them implies or could
prove alone, and `Placement`, which ties each coroutine's program counter to the
owner and to its nesting: in particular a woken coroutine already owns the lock,
locked once, although it has not run since. Without that the assert after
`Skynet.wait` would not follow. The steps are proved operation by operation
(`LockStep`, `LockResumeStep`, `UnlockStep`), from three lemmas about the queue. The
refinement maps the line to the owner followed by the queue: a first lock or a
wait joins it, an outermost unlock leaves it, everything else stutters.

It goes on about `SessionLock`, for every set of sessions and every nesting depth:

| theorem | states |
|---|---|
| `SessionsUseLock` | `SSpec => Spec`: a behaviour of the sessions is one of the lock, so all that is proved of `Lock` holds of them |
| `SessionInductive` | `SSpec => []SInv` |
| `QuitLast` | `SSpec => []QuitIsLast` |
| `QuitKeepsLock` | a `lock_quit` that owns the lock is its owner after every step |

`QuitIsLast` speaks of the moment in which `lock_quit` has the lock. `QuitPlaced` adds what comes
before: a quit that waits is the last in the queue, because `lock_session` refuses
everyone after the flag, and its coroutine is never out of the lock again. That the
queue behind an owner is empty is then a fact about the tail of the queue
(`TailLast`) and of hand-over.

Then two of the `Parts`. `Timer`, for any intervals, number of timers and times of calls:

| theorem | states |
|---|---|
| `TimersInductive` | `MSpec => []` of `TimersInv` while the timer is the part that runs |
| `TimersFireRight` | the same of `NeverWrong`, the invariant in `FiresExact` |

`NeverWrong` compares the calls of a timer with the intervals that have gone by; `TimersInv` says
where both are kept. `InTime`: the next call is due as many intervals after the timer
was added as calls came before it, and no call came before it was due. `Counted`: what is
left of `times` and the calls made add up to what was asked for, one less while a callback waits,
until the timer has run out and is to be deleted. `PassInv`: a pass visits none of the timers that were
to be deleted when it began, although `pending` still has them. `Quotient` is the fact about `\div` that
relates the two. That late calls are made up for, the other half of `FiresExact`, is liveness.

`SparseArray`, for any indices and any number of recorded ones:

| theorem | states |
|---|---|
| `ArrayInductive` | `MSpec => []` of `ArrayInv` while the array is the part that runs |
| `TraversalComplete` | `MSpec => []Traversed` |

`Recorded` says that an element which the border has not left behind is within it or among
the recorded indices, and `Reached` that the traversal has returned, in order, what was there up to its last
index. What the steps rely on is proved about the code's algorithms for sequences of any length.
`SearchRight`: the binary search answers that the key is there, or with the number of
keys before it (`WindowAnswers`, by induction over the length of the window). `InsertRight`:
`insert` adds one index and keeps the order. `SortSound`: `sort_sparse` leaves the recorded indices that are beyond
the border and still have a value, each once, in order. `PlaceRight`: the search of `lnext` stops at the
first index not below the next one.

`ServiceProofs` proves about the four modules of `Services`. First `GameDb`, for every set of
accounts and every number of calls and failures, from no assumption at all:

| theorem | states |
|---|---|
| `DbInductive` | `Spec => []DbInv` |
| `BackedUp` | `Spec => []BackupExact` |

`BackupExact` is not inductive: it does not say why the answer that comes next may
be written over what the file has. `DbInv` adds three things to the types.
`Latest`: a call that redis executed and has not answered yet is not newer
than the row redis has, because redis executes in order. `Unanswered`: a row newer
than the last answer was written by a call of that very account, so that its
answer is still to come and will find the right value. `Behind`: what the file has is
not newer than what the open transaction would make of it, nor that than redis, which is what
keeps a transaction left open by a failure harmless. `Backed` is the second half
of `BackupExact` in terms of numbers. `CommitKeeps` carries `Behind` over any commit,
`LoseCallsKeeps` everything over a lost connection, `AnswerKeeps` over an answer; then
there is one lemma per action.

Then `MsgServer`, for all usernames, sockets and any number of handshakes:

| theorem | states |
|---|---|
| `ClientsInductive` | `Server!Spec => []ClientsInv` |
| `NeverReplayed` | `Server!Spec => []NoReplay` |
| `BindingsKept` | `Server!Spec => []BindingsExact` |

`VersionIsLast` makes `NoReplay` inductive: no index accepted so far exceeds `u.version`. For
the bindings, `TablesAgree` says that with polite clients `connection` and `ufd` are
inverse to each other over the sessions online, and that a socket is expected
to shake hands and bound at once only while an `auth_handler` of it yields.
`OnLiveSockets` and `NewHasNoFd` are what connects and logins rely on.

`RoleMailbox`, for any limit and any number of mails:

| theorem | states |
|---|---|
| `MailsInductive` | `Mails!Spec => []MailsInv` |
| `MailsBounded` | `Mails!Spec => []BoxesBounded` |

A mail that went to make room must be older than all that stay, also those not yet
pulled. `MailsInv` says that a place in the order of `create_time` is that of one mail
(`OneOfEach`), in the box, in any of the answers on their way or waiting; that the next mail
is newer than any before (`NextIsNewest`); that no box and no answer exceeds the limit
(`WithinLimit`); that the private mails in the box are older than those of the answers, these
in their order, and those older than what waits (`PulledInOrder`), which is what pulls that
overlap or fail must keep; and that what was removed is older than every private
mail wherever it is (`NewestStay`). A box is counted when its answer comes (`AddBounded`,
`OldestGo`), not when it was asked for, so that deletions and the agent's own mails in between do no harm.

`Chat`, for any nodes, channels, roles, chunk size and numbers of messages and crashes:

| theorem | states |
|---|---|
| `ChatInductive` | `Chats!Spec => []` of the two invariants below |
| `ChatDelivered` | `Chats!Spec => []Delivered` |

`Delivered` is `InOrder` and, in the world without complications, `Subscriptions`. For the first,
`MessageInv` sees the messages of a channel on their way to a node as one line: what the
listener is done with, what it keeps for the broadcast, the buffers of the calls under way, what the
speaker has not sent. `LineOK` says that the numbers grow in each part and from part to part, `Reached`
that the line has what was said less what the node missed, `Numbered` that no number
is in two channels, without which what a crash takes from one channel could be missing in another. How a
line changes is proved apart from the program (`LineSpoken`, `LineSent`, `LineKept`, `LineHandled`,
`LineLost`, `LineCrashed`), and so is that a dispatch cuts what the speaker has into buffers
without losing any (`BuffersCut`), a fact about `\div`. For the second, `Subscriptions` says nothing
while messages are on their way; `Settled` says what it will be: the last message about
a role in a node's inbox, or the entry if there is none, names the agent and connection
that have told the listener they serve it and have not yet taken it back (`Here`). `AgentsServe`
says why there is never more than one: an agent with something under way serves exactly
the role whose session the gate has on it, and a session that is over has left an agent behind that
is done (`InOK`, `KickOK`, `FreeOK`). `OneServes` draws the conclusion; there is a lemma per action,
most of them by `OwnStep` (an agent changes and tells nobody), `TellingStep` or `EndStep`. In the other
worlds `PlayerInv` is types only.

`Composition` says that a behaviour of `SSpec`, which the run checks, is one of each of the four.

`GatedProofs` proves about `Gated`, for all accounts, agents, settings and bounds:

| theorem | states |
|---|---|
| `Inductive` | `Spec => []IInv` |
| `AgentsConserved` | `Spec => []AgentConserved`: no agent lost, none given out twice |
| `TypeCorrect` | `Spec => []TypeOK` |

`AgentConserved` counts, for each agent, the places where it is: the pool, an entry
of `users`, a login that holds it, a `logout_handler` that yields. To keep it one must
know that what *moves* an agent comes once. `Awaited`: a `login` of the gate's call to an
agent, a `logout` of a kick, and the kick's message to the login master are on their way at
most once per account, and only while that account's login waits in the state that
they answer. `QueueOK`: a `CMD.logout` at the head of an agent's queue waits for exactly one
answer, which is in the agent's outbox, at the gate's `logout_handler`, or in its inbox.
`NotedOnce`: each message of a `logout_handler` to the login master belongs to one that
waits for it. `Conserved` says in which states of a login it holds its agent, and
`AgentConserved` follows (`OnePlace`). The idle logout, which bypasses the command queue, is in the
invariant: its `logout_handler` is one more place. The proof has lemmas about
queues (`SeqAppend`, `SeqTail`, `SeqPush`, `SeqFront`), about one message taken
or sent (`CarriedTaken`, `CarriedSent`), about the two kinds of movement (`FlowMove`,
`AgentMove`), and one lemma per action. `TypeCorrect` adds to `Typed`, which is part of
`IInv`, the three variables that no message depends on (`TypeRest`).

It goes on for nodes whose logins do not overlap:

| theorem | states |
|---|---|
| `SerialInductive` | `Spec /\ []Serial => []SerialInv` |
| `SessionsBound` | `Spec /\ []Serial => []SessionBinding` |
| `UsernamesMatch` | `Spec /\ []Serial => []UsernameAsserts` |
| `KicksFind` | `Spec /\ []Serial => []KickCanFind` |

Each assumes `~Reconnects`: no client comes back on a new connection. `Serial` says that at
most one login of the node is in progress; any number of accounts may be logged in,
kicked, idle out and lose notices meanwhile. The run `gated_serial` has one account, for which
`Serial` holds by itself, since the login master admits one login of an account at a time. Both
hypotheses are needed: two logins that overlap return the same subid, and the kick of the
one that has another's finds nothing or fails (`UniqueSubid`, `KickCanFind`, `UsernameAsserts`, Variations),
and a client that returns while a worker sleeps makes an agent drop another session
(`SessionBinding`, Variations). `SerialInv` is about one session as seen from four
sides. The gate: `Numbers` says that the login in progress has the number `internal_id`, and that the name a
user is filed under is the subid it was given. The login master: `Known` says that it has that name whenever
it may kick, and `Unheard` that a logout it has still to hear of is behind no kick of the user and no login
gets past it. The agent: `Bound` (it serves the session it is filed for, and idles only after a break), `Ready`
(nothing is left of a former session when a login is filed), `Leaving` (a `CMD.logout` is
for the user that the agent has, and gets no answer but TRUE). The worker coroutines, whose idle logout bypasses
the command queue: `OwnCalls` (what they ask of the gate is for the agent's own user) and `Stopped` (no worker
starts between the call for a logout and its end), which is what keeps an old idle logout
from clearing a new session.

`LoginClusterProofs` proves about `LoginCluster`, for all nodes, accounts, connections and
bounds, and in every world (crashes, late messages, lost calls, registration):

| theorem | states |
|---|---|
| `Inductive` | `Spec => []IInv` |
| `MarksExact` | `Spec => []MarkExact`: `user_login` marks exactly the accounts with a login in progress |

A mark is set by one login and cleared when that login ends, but what ends it is an
answer. `CallersWait` says that each call under way has its own caller, who waits for
that uid at that node, so that no answer moves another login; `FlowOK` that the
callee's node is up while it owes the answer.

It goes on from there:

| theorem | states |
|---|---|
| `KnownWhenApart` | `Spec /\ []LoginsApart => []SessionKnown` |
| `OneWhenApart` | `Spec /\ []LoginsApart /\ [](world # "late") => []SingleSession` |
| `KnownOfOne` | `SessionKnown`, for one account |
| `OneOfOne` | `SingleSession`, for one account, where no message outlives its node |

The two hypotheses are needed, and the code breaks the properties without them.
`LoginsApart` says that no two `login_handler`s of one gate yield at the same time; when
two do, both return the same subid, which is what `login_subid` shows. It follows
(`OneAccountApart`) when there is one account, whatever the connections do, because
`user_login` admits one login of it; so `KnownOfOne` and `OneOfOne` need no
assumption on the behaviour. In the world `late`, a logout notice sent before a
crash erases the session after it (see Variations). The invariant: `Known` (each session
is the master's entry, or that of a login about to be `done`), `LoginIsSilent` (when a login goes to a
gate, no session and no notice of that uid is left anywhere), `NoticesLate`
(a notice comes after its session has gone, from the one node that the login master takes it for),
`EntryKept` (a kick finds the entry it was sent for, or none) and `NodesOK`. `KickGoesHome` is the heart: all that
is left of a uid that is being kicked is on the node the kick goes to.

`MonitorProofs` proves about `Cmd.shutdown` in `Monitor`, for any nodes, names, services, users and crashes:

| theorem | states |
|---|---|
| `Clean` | `ClosedBeforeAbort` holds as long as the center node does not crash in the shutdown |
| `CleanWithoutCrash` | `Spec => []ClosedBeforeAbort`, where no budget has both a crash and a shutdown |
| `TypeCorrect` | `Spec => []TypeOK`, whatever boots, crashes and comes back |

The first two assume that no service boots after the shutdown has begun (`Undisturbed`); one that
does is polled for ever or is not seen at all (`ShutdownEnds`, Variations). Any other node
may crash and restart at any moment in `Clean`. `ClosedInTurn` gives the names closed so far
in terms of where `Cmd.shutdown` is, and says that nothing of such a name is monitored on a
registered node.

`RoleProofs` proves about `Role`, for all accounts and agents and any number of changes, given
that `None` is none of them and no role or row:

| theorem | states |
|---|---|
| `Inductive` | `Spec => []IInv` |
| `TypeCorrect` | `Spec => []TypeOK`, in every world |
| `OnlineIsListed` | `Spec => []OnlineListed` |
| `NoChangeLost` | `Spec => []ChangesKept`: the row has every change once a kick was answered, and whoever loads the role works on all of them |

`IInv` has three layers. `TInv` holds in every world: types, and `Founded`, which says that what
works on a role (timer, session, close) finds one. `CalmInv` holds in the worlds that `OnlineListed`
speaks of. `Agree` ties an agent's own view to the gate's: it has a client exactly while its user's
session is in, and closes exactly while a kick waits for it. `Filed` and `Apart` say that
an agent serves one account only, and `Entry` and `Seen` say when `online_snax` lists it.
`PlainInv` holds in the world without complications, the one `ChangesKept` speaks of. `Own`: an agent sends rows of
its own account only, and has one session lock. `Quiet`: once `lock_quit` has returned there is no
session, no timer and hence no change. `KeptBy`: while the role lives, memory is what `made`
records; once the close has saved, every row under way from the close's on is complete (`Final`),
so that the last to be stored is; once it is done, so are all of them (`Whole`); and an agent that
the account has left has nothing to write any more. `Stored` is about an account whose role is
not loaded. No part is kept alone: `Quit` needs `Quiet` to make its row the last word, `Saved` needs
`Final` for the rows still queued behind it, `Login` needs them gone. What the other worlds break
is under Variations. The proof has one lemma per action and layer, over
lemmas about one agent that moves (`TypedMove`, `CalmMove`, `PlainMove`) and about one row
sent or stored (`SavingKeeps`, `SetKeeps`).

`LogProofs` proves about `Log`, for buffers, files and lists of any size, any heap and any number of
messages, from the assumptions that `Log` makes (a buffer holds a message, four buffers at
least, two are kept of a list that is cut):

| theorem | states |
|---|---|
| `Inductive` | `Spec => []IInv` |
| `ListsExact` | `Spec => []BuffersExact`: no buffer shared, leaked or freed while linked; the asserts hold |
| `WrittenInOrder` | `Spec => []InOrder`: file and buffers hold all messages but those dropped, once and in order |

`IInv` says that there are two lists, `p` from `head` to the current buffer and `q`, what the worker
took, such that the `next` pointers spell them out (`Path`), `head`, `tail` and `size` fit them
(`ListOK`, `WorkOK`), they and the spare buffers share nothing and are all that is allocated
(`Apart`), every other buffer is zeroed (`Blank`), and file, `q` and `p`, in this order, hold increasing
numbers, all but those dropped (`Ordered`). `Blank` is what `append()` relies on when it
takes a spare buffer as it is; that a list without full buffers has a spare one
(`next_buffer = NULL => head # NULL`) is why the worker, which must refill both of its spares, always has
as many buffers as it needs. `Log`'s `Chain` and `Contents` are recursive functions: `ChainIs` shows that
`Chain` returns the path there is, `FlatAppend` and `ContSplit` how contents grow and are cut. These are
inductions over numbers and lengths. The library's induction rules take an operator and cannot be
instantiated here; `SetInduction` says the same of a set of numbers, follows from the
well-foundedness of `<`, and is what these lemmas use.

`MailProofs` proves about `Mail`:

| theorem | states |
|---|---|
| `TypeCorrect` | `Spec => []TypeOK`, in every world |
| `MailCorrect` | `Fits` implies `Spec => []MailExact`: for any objects, mails and mailbox limit |

`Fits` says that there are no more mailboxes than the cache's maps hold (as in the run). It is
needed: with one more, a swap meets a cold map with mailboxes in it and drops them (`MailExact` with three
boxes, Variations). `SwapNeverFails` is where it is used. `Safe` says, in the world
without complications: no two objects of one mailbox are in memory (`OneEach`); what a round
of the collection sends is what the mailbox has, unless a request has used it since, and then the round leaves it
in memory (`Rounds`); a row that was read is still what maildb has when the request goes on, unless the
mailbox is in memory by then (`Requests`); after exit nothing is left in memory (`Exits`); and what was
taken followed by what is left is what was accepted, in order (`Histories`). Each of them is what another
one's step relies on: a round that ends may drop an object because of `Rounds`, which
`Requests` must survive.

Model-checked only:

* Liveness (`WaiterGetsLock`, and every property with `~>` or `[]<>`), which is out
  of the prover's reach.
* Of the properties that `Parts` states, `QueriesExact`, `FilterExact`, `RenderExact` and `TextExact`. They
  are about folds and recursive functions over data; each would need its own
  inductions, as `Traversed` did, in the manner of `SetInduction`.

Where `tlapm` could not follow a definition as it stood, the definition was written in
another form of the same meaning (`Gated`'s `CloseDone` and `WorkerIdle` name the agent's
record where they had nested `@`, and so do the actions of `Role`; `LoginCluster`'s `Crash` names the set of logins that go; `Log`'s `Chain`
has no `SelectSeq`, and `InOrder` compares elements instead of sorting them, and `Chat`'s does so from part to part of the line instead of flattening it).
The proof about `Log` found an error in the model: a buffer that was freed with messages in it kept
them when `calloc` returned it again, where the C function zeroes; `DropBuffers` now says so.
`SparseArray`'s `Search` has one record as its argument, and `sort_sparse` is a recursive function where it was a fold.
`LoginCluster` has a bound on uids, `MaxUid`, for its type invariant.

## Findings

* `login_subid`: the code comment says an account cannot be logged in twice
  (`logind.lua:74`). Two accounts whose logins overlap on a node get the same
  subid from the gate (`gated.lua:84`). The kick that precedes the next login of
  one of them then fails in the gate's assert; `login_handler` forgets the entry
  and logs the account in on the other node, while the first session lives on.
* `role_reuse`: the comment at `msgagent.lua:88-89` says that `cmd.close` unloads the
  player and the agent can be reused. `cmd.close` leaves `env.role`
  and its own flag `alread_close` in place: the next account on that agent is
  served the role of the one before, and its own close saves nothing.

The variations above are further places where the code differs from what a
reader may expect; most of them no line of the repository speaks about. Met
on the way, and not part of a property:

* `cluster_monitor` answers heartbeats with `E_FAKE_DISCONNECTED`: every node
  registers again every five seconds and its users leave the list for a moment.
  Entries of roles (string uids) that `clear_node` removes are not listed again.
* `node_monitor`'s `Cmd.connect` never answers, so that dead nodes are never
  unregistered. A service name that `cluster_monitor` refused is not sent again.
* `ERRNO` is undefined in `role.lua:84`, `mailbox.lua:76`, `agent_snax.lua` and
  `admin/main.lua`.

## What is not modelled

ORM, type definitions and websocket framing are not modelled yet; see the plan.
Not planned: the web and admin front ends, sproto loading, boot scripts, the
binding to enet, random numbers and the clock, the argument parser, and the clients and benchmark,
which forward requests, wrap libraries or are tools beside the server. `Gated` leaves
out what handshakes check (`MsgServer` has it) and what requests do in the agent
(`Role` and `RoleMailbox` have it). `Role` leaves out what a change is; `Mail` one of two
lists of mails that are served alike; `Monitor` the operations of services beside
their registration; `Chat` what is written to clients and the cut of a broadcast to
its last 32 messages; `SkipList` and `Crab` memory management; `GameDb` the other nodes that
write the same rows of redis (`Role` has an account that moves between agents),
and what the binding offers and no service uses; `WebPage` characters: a page of
two variables side by side is excluded by an assumption, as the second is then
parsed as something else.

## Plan

1. Typed objects (`orm.lua`) and websocket frames, as guarded assignments and as
   a machine over frames.
2. Proofs still worth having: the other data structures of `Parts`, each by an induction of its own.
3. Abstract specifications: one session per account as what `Gated` and
   `LoginCluster` implement; one mailbox as a queue, implemented by `Mail`.
