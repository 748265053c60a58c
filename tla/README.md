# TLA+ models of the nooopster OpenNap server and client

This directory holds TLA+ models of two programs:

- the OpenNap 0.44 server in `src/service/src/opennap-0.44/`;
- the nooopster client in `src/service/src/client/main.c`.

It also holds the TLC configurations that check the models. `PROJECT.json`
lists:

- the components, and which of them are modelled;
- the runs;
- a mutant for every property of every passing run;
- the source lines each definition models (`map`);
- the findings;
- the hazards.

## The system

**The server reactor.** OpenNap is a single-threaded reactor. Each pass of
`main` (main.c 1015-1236) does the following, in order:

1. Calls `poll`.
2. Pre-reads the server links.
3. Walks the connections: hang-up, read and dispatch, write, login timeout.
4. Accepts new connections.
5. Flushes the server links.
6. Runs `flood_expire` and the timers.
7. Reaps the connections that were destroyed during the pass.

`destroy_connection` only marks a connection and takes its descriptor out of
the poll set. The reap at the end of the pass closes and frees it.

**Reading and writing.**

- Incoming bytes go into `recvbuf`. For a server link they first go through
  `inflate`.
- `recvbuf` is cut into frames: a 4-byte header, then the payload.
- `dispatch_command` binary-searches the frame's tag in `Protocol[]`,
  applies flood control, and calls the handler.
- Outgoing data goes through `queue_data` and `send_queued_data` over a chain
  of buffers (buffer.c). Server links add `deflate`.

**The handlers** keep the server's tables:

- `Users`, a case-blind hash table (hash.c);
- the registered nicks (`User_Db`) and user levels;
- the `Mods` list;
- `Remote_Search`.

**Linked servers** form a tree. Several kinds of traffic are relayed to every
link but the one a message came on:

- logins, quits and kills;
- searches and their ends;
- pings and pongs;
- changes of a user's port, speed and password.

Private messages and browses for a user on another server go toward that
user's server only, and replies to a remote user are encapsulated.

Arguments are parsed with `split_line` and `next_arg` (util.c). Passwords are
stored as base64 MD5 digests.

**The client** has three kinds of thread:

- The main thread logs in to the tracker, shares its files, and answers
  upload requests (`NAP_FREQ`) by remembering the peer.
- A data server accepts peer connections.
- One thread per connection reads the peer's `GET`, checks the peer and the
  path, and sends the file.

A tokenizer splits the tracker's messages.

## Modules

| Module | Models | Sources |
|---|---|---|
| `Reactor` | the main loop, the connection life cycle, deferred destruction, flood control, the login gate, the server batch dispatch, and what login, kill and disconnect do to connections | main.c, handler.c, login.c, kill_user.c, server_connect.c, list.c |
| `Dispatcher` | the sorted `Protocol[]` table, `find_handler`'s binary search, the per-tag statistics | handler.c |
| `FrameReader` | `handle_connection`'s receive paths byte by byte: header loop, `Max_Command_Length`, growth of `recvbuf`, `buffer_decompress`, the frame loop and compaction | handler.c, buffer.c |
| `BufferChain` | `buffer_new`, `buffer_queue` (with its allocation failure), `buffer_consume`, `buffer_append`, `buffer_size`, `buffer_free`; it refines `ByteQueue` | buffer.c |
| `ByteQueue` | the abstract byte FIFO a connection's queue promises | spec |
| `ServerOutput` | `queue_data` and `send_queued_data` for server links, with `buffer_compress` over an abstract deflate, `Server_Chunk` and `Server_Queue_Length` | buffer.c |
| `UserOutput` | `queue_data` and `send_queued_data` for a user link: the direct write when nothing is queued, queueing behind waiting data, `Client_Queue_Length` and write interest in the client loop's WRITABLE branch | buffer.c, main.c |
| `PollTable` | `add_fd`, `remove_fd`, `set_read`/`clear_read`/`set_write`/`clear_write`, `add_client` and the reap's array compaction; it refines `PollInterest` | main.c |
| `PollInterest` | the per-descriptor event interest the poll table promises | - |
| `HashTable` | `hash_string`, `hash_add`, `hash_lookup`, `hash_remove`, and `hash_foreach` whose callback may remove its entry; it refines `Dictionary` | hash.c |
| `Dictionary` | a map in which keys equal but for case are one key | - |
| `Search` | the distributed search: DSEARCH entries, relays, `remote_search_end`, `cancel_search`, `expire_searches`, the per-user pending count | search.c, remove_connection.c |
| `Login` | the user table across linked servers: local and relayed logins, nick collisions settled by timestamp, KILL and QUIT relays (a KILL of a local user only destroys its connection, and the user leaves `Users` when the server reaps it at the end of its loop turn, `Reap`), link splits and the resynch | login.c, kill_user.c, client_quit.c, remove_connection.c, server_links.c, main.c |
| `UserLevels` | user levels, registrations, cloaks and `Mods`: login, logout, level, nuke, cloak, register_user, reginfo | login.c, level.c, change.c, userdb.c, list.c |
| `PingPong` | `ping_server`, `server_pong`, `lag_detect`, `ping_all_servers` across linked servers | server_links.c |
| `PrivMsg` | `privmsg`, `pop_user` on a link, `send_user`'s encapsulation, the `encapsulated` handler, `ignore`, `unignore`, `clear_ignore`, `is_ignoring` across linked servers | privmsg.c, serverlib.c, handler.c |
| `Browse` | `browse`, `browse_direct`, `browse_direct_ok`, `pop_user` and `pop_user_server` on a link, `send_user`, `encapsulated`, a local sign-off (`free_user`) and its relay (`client_quit`) across linked servers | browse.c, serverlib.c, handler.c, free_user.c, client_quit.c |
| `UserData` | `change_data_port`, `change_speed`, `change_pass`, `alter_port`, `alter_pass`, `alter_speed` across linked servers, each server with its own copy of every user's port and speed and of its part of the user database; `pop_user` and `pass_message` | change.c, serverlib.c, handler.c |
| `ServerParse` | `split_line`, `next_arg`, `b64_encode`, `b64_decode` as operators, with a reference renderer of lines | util.c |
| `ClientTokenizer` | the client's `count_msg_fields`, `tokenize_msg`, `get_msg_field_str` | client/main.c |
| `Client` | the client's main thread, data server and connection threads | client/main.c |

The harnesses are as follows:

- `MCReactor` instantiates `Reactor`.
- `MCTransport` combines `BufferChain`, `ServerOutput`, `FrameReader`,
  `PollTable` and `UserOutput`.
- `MCAlgorithms` combines `ClientTokenizer`, `Dispatcher`, `Client`,
  `HashTable` and `ServerParse`.
- `MCNetwork` combines `Search`, `Login`, `UserLevels`, `PingPong`,
  `PrivMsg`, `Browse` and `UserData`.
- `MCSearch`, `MCLogin` and `MCClient` hold each violation run's constants.
- `MCServerOutput` instantiates `ServerOutput` on its own.

A combining harness has a `mode` variable chosen in `Init`, and each step runs
in one component only (`InX(A)`). The components' state spaces therefore add
up rather than multiply. Every component keeps its own fairness, stated for
the behaviours of its mode.

**Correspondence to the code.** Each module's comment header says what its
variables stand for in the code. Each action's comment names the handler or
function it models and the lines. An action covers the whole handler:

- its guards are the code's checks and early returns;
- its updates are every assignment the handler and its callees make.

Data is abstracted to what the properties tell apart:

- nicks, servers and peers are strings or model values;
- frames are lengths or kinds;
- bytes are symbols or small numbers;
- time is capped ages or a small clock.

## Runs

Each run is listed in `PROJECT.json` with its properties. TLC checks them all
with `tlc -workers 2 -config <cfg> <module>`.

| Run | Harness / cfg | Expect |
|---|---|---|
| reactor | MCReactor / MCReactor.cfg | pass |
| transport | MCTransport / MCTransport.cfg | pass |
| algorithms | MCAlgorithms / MCAlgorithms.cfg | pass |
| network | MCNetwork / MCNetwork.cfg | pass |
| stray_set_read | MCReactor / MCReactor_NoStrayPollWrite.cfg | violation |
| dispatch_after_destroy | MCReactor / MCReactor_NoDispatchAfterDestroy.cfg | violation |
| level_already_set | MCUserLevels / MCUserLevels_LevelCommandHonoured.cfg | violation |
| client_split_command | MCClient / MCClient_GetServed.cfg | violation |
| frame_reader_exact_fill | FrameReader / FrameReader_NoSpuriousClose.cfg | violation |
| search_early_end | MCSearch / MCSearch_NoEarlyEnd.cfg | violation |
| login_kill_by_nick | MCLogin / MCLogin_KilledHadOlderRival.cfg | violation |
| browse_unanswered | MCNetwork / MCNetwork_BrowseAnswered.cfg | violation |

### What the passing runs show

- **reactor**:
  - `DestroyListConsistent`: a connection is marked for destruction exactly
    when it is on `Destroy`, and then it is on it once. Several paths destroy
    an already-marked connection (a rejected login, then the login
    timeout in the same pass; a server frame killing its own link, then a
    later frame of the same read); only `list_find` keeps it from being
    freed twice.
  - `SuspendedIsTracked`: a suspended user is on `Flooders`.
  - `FloodResumes`: the user is eventually read again.
  - `UnregisteredLeaves`: an unregistered connection eventually logs in or is
    destroyed.
- **transport**:
  - The buffer chain stays valid (`NodesValid`, `SendbufValid`).
  - The chain behaves as a byte FIFO (`ImplementsByteQueue`).
  - Compressed server output reaches the wire whole, in order and eventually
    (`StreamIntact`, `AllSent`).
  - Frames are dispatched in order, within `recvbuf`, and eventually, however
    the bytes are split into reads (`FramesInOrder`, `SentinelInBounds`,
    `ArrivedFramesDispatched`).
  - The poll table keeps `fdmap`, the poll array and `con->id` consistent
    through slot moves and descriptor reuse (`PollKosher`, `ClientsIndexed`).
  - The poll table implements `PollInterest` (`ImplementsInterest`).
  - A user's output reaches the socket whole and in order, through direct,
    partial and queued writes (`UserStreamInOrder`). Queued output is
    eventually written or the connection closed (`UserOutputDrains`).
- **algorithms**:
  - The client's tokenizer agrees with a reference on every message the
    client is sent (`CountAgrees`, `PrefixKeepsFields`).
  - The binary search agrees with a linear scan of the real 137-entry table
    (`StatsAgree`).
  - The client's threads serve only peers named in an accepted request, and
    serve them when they ask (`OnlyAcceptedPeersServed`, `ServedWhenAsked`).
  - The hash table's chains, ids and `dbsize` stay consistent
    (`TableConsistent`).
  - `hash_foreach` gives its callback each entry once, even while the
    callback removes entries that share a chain with others (`ForeachExact`).
  - The case-folding table implements the case-blind `Dictionary`
    (`ImplementsDictionary`).
  - `split_line` and `next_arg` give back the fields of every line a peer
    builds (`LinesRoundTrip`).
  - `b64_decode` inverts `b64_encode`, also on the truncated form that
    `generate_pass` stores (`PassRoundTrip`).
- **network**:
  - Search: pending counts match `Remote_Search` (`SearchesCounted`). No
    match goes back the way it came (`ResultsNotBounced`). Every entry ends
    (`SearchEnds`).
  - Login: after any logins, kills, quits, collisions, splits and resynchs, a
    remote user's connection is the link towards its server
    (`RoutedTowardHome`).
  - UserLevels: `Mods` lists each local moderator+ exactly once
    (`ModsExact`). Only moderators+ are cloaked (`CloakedOnlyMods`).
  - PingPong: every ping is answered exactly once by each server it was for,
    by no other server (`PongsExact`), and eventually (`PongsArrive`).
  - PrivMsg: a message is refused as "ignoring you" exactly when its
    recipient was last told, by the replies of `ignore`, `unignore` and
    `clear_ignore`, that it ignores the sender (`IgnoreHonoured`). This
    holds whatever case the nicks are typed in, and however those commands
    interleave with messages in flight. The mutant whose duplicate check is
    case-sensitive breaks it in seven steps: ignore u2, ignore U2, unignore
    u2, then a message from u2.
  - Browse: nothing reaches a client about a browse after its end-of-list
    (`EndIsLast`), and a browse that gives a positive `<max>` gets at most
    that many results, whether its target is local or reached through
    relays that recompute the limit (`ResultsWithinMax`). Both hold while
    sign-offs race the relayed requests.
  - UserData: once the links are drained, a user's port, speed or password
    that was only ever changed through one server holds, on every server,
    the last value set there (`SingleOriginSettles`). It rests on each
    handler setting its copy before passing the command on, on the FIFO
    links, and on `alter_speed` ending early only where the speed already
    has the value. The mutant that stores the speed before the "already"
    test, which then ends every `alter_speed` unrelayed, breaks it.

Every property of a passing run has a mutant in `PROJECT.json`. A mutant is a
plausible bug in the code the property is about, and TLC catches it. Examples:

- `destroy_connection` without `list_find`;
- `hash_foreach` reading `he->next` after the callback;
- `hash_remove` not counting down;
- `split_line` not stepping over a closing quote;
- a base64 shift by 2 instead of 4;
- a ping relayed back on its own link;
- a pong sent back where it came from.

### What the violation runs show

Each violation run backs a finding in `PROJECT.json`:

- **stray_set_read** (main.c 874): `flood_expire` calls `set_read` on a flooder
  destroyed earlier in the same pass. Its `fdmap` entry is -1, so POLLIN is
  ORed into `global.poll[-1]`.
- **dispatch_after_destroy** (handler.c 601): frames of a server read that
  follow a frame destroying the link are still dispatched. Spec 4.4 asks for a
  re-check.
- **level_already_set** (level.c 179): the level handler ends with "already
  set" when the registration's level equals the commanded one. It does not
  look at the user online, whose level `reginfo` and `register_user` leave
  alone. A moderator logs in, a peer's `reginfo` records the nick as leech,
  and a level command to leech is dropped. The user keeps moderator rights
  and its place on `Mods` until it logs in again. `MCUserLevels` adds a
  history variable, the level each online nick was last commanded to.
- **client_split_command** (client/main.c 333): a 3-byte command that arrives
  in two pieces swallows argument bytes, and the accepted peer is never
  served.
- **frame_reader_exact_fill** (buffer.c 266): an inflated chunk that exactly
  fills `recvbuf`'s free space makes the next `inflate` return `Z_BUF_ERROR`,
  and a healthy link is closed.
- **search_early_end** (search.c 1173): `cancel_search` decrements
  `numServers` for any departing link. A search is ended while a server it was
  sent to has still to answer.
- **login_kill_by_nick** (kill_user.c 70): a KILL relayed to settle one
  collision names only the nick, and disconnects a different user of that
  nick on another server.
- **browse_unanswered** (browse.c 393): a request of a client that stays
  online is never answered. In four steps: u1 on server a asks for a direct
  browse of u2 on server c, which ignores u1. The request is relayed
  a - b - c, and c's refusal goes back with `send_cmd(con)` on the peer link,
  where it is an unknown command; u1 hears nothing. A browse relayed to a
  server where its target has just signed off is dropped the same way
  (browse.c 79-86 answers only a local connection), although the comment
  there says "always terminate the list".

### Further configurations

Nine further configurations check properties the code does not keep. TLC
reports each of them violated:

- `MCReactor_FloodSuspendsAtThreshold.cfg`: suspension once a user has sent
  `Flood_Commands` commands in a window (spec 4.4). The command that
  opens a window is not counted (handler.c 369), so reads stop only after
  `Flood_Commands` + 1 commands.
- `MCServerOutput_BacklogChecked.cfg`: the `Server_Queue_Length` ceiling
  enforced after every flush (spec 4.5). See the hazard at buffer.c 491.
- `MCAlgorithms_FieldsMatch.cfg`: `get_msg_field_str` returning each field's
  text. See the hazard at client/main.c 293.
- `MCClient_ServedWasRequested.cfg`: a file sent for exactly the peer and path
  of an accepted request (the comment at client/main.c 379-384).
- `MCClient_ExitsOnlyOnRefusal.cfg`: the client leaving only on the tracker's
  refusal (client/main.c 550-569).
- `MCLogin_Agreement.cfg`: all servers agreeing on the user table once every
  relay is handled.
- `MCReactor_NoStaleRevents.cfg`: the client loop reading only the poll
  entries of connections still in the poll set (`POFF`, main.c 40-41). A
  server link that hung up and was destroyed by the pre-read is visited
  through `fdmap` -1, and `global.poll[-1].revents` is read.
- `MCReactor_PreReadLinksRegistered.cfg`: every link the pre-read visits
  still in `fdmap` (the assertion at main.c 912). A frame from one link
  disconnects another that the pre-read has still to visit. Without
  assertions the build reads zero from `global.poll[-1]` there, so the visit
  changes nothing.
- `MCNetwork_SettingsAgree.cfg`: all servers agreeing on every user's port,
  speed and password once the links are drained. In six steps, an admin's
  `alter_port` of u2 to 0 on server a crosses u2's own `change_data_port` to
  6699 on server c. Each server applies the other's command last: a keeps
  6699 and c keeps 0 for good, so `browse_direct`'s firewall test answers
  differently on the two. The relays carry no version. See the hazard at
  change.c 183.

Where the cause is known, it is listed as a hazard in `PROJECT.json`. These
configurations are kept for reference and are not among the runs.

## Bounds

- **Reactor**: the passing run has one connection slot, every frame kind and
  `MaxSends` 5, enough commands to log in, flood, resume and be killed or
  time out. `FloodCommands = 1`, `FloodTime = 1`, `LoginTimeout = 0`. The
  violation runs use two slots where a finding needs a second actor (one
  connection destroying another). Two slots with the liveness properties
  and `MaxSends` 3 do not finish within the run time limit.
- **Transport**:
  - two byte values, nodes of two bytes, at most four bytes queued: chunks span
    node boundaries;
  - frames of 0, 1 or 3 bytes with `Max_Command_Length` 2, so a frame too long
    for a user is still fine for a link;
  - `recvbuf` grows by 2 bytes, so frames cross growth boundaries;
  - descriptors 0..3 with `CLICK` 2, so the poll array grows twice;
  - a user link with nodes of two bytes, four bytes sent and
    `Client_Queue_Length` 2: partial writes leave a queue that crosses a
    node boundary and can outgrow the limit.
- **Algorithms**:
  - every message of up to three fields over two letters and a space;
  - every tag of the real table, the tag after each one, and 1 and 65535;
  - hash keys "u", "U", "x" and "v" in three buckets: under the case-folding
    hash "u" (or "U") and "x" share bucket 0 as a chain of two, so a
    `hash_foreach` callback removes an entry with another before or after it
    on its chain; "u" and "U" are equal but for case;
  - lines of up to three fields, quoted fields with blanks, the empty field
    included;
  - byte strings of 1 to 4 bytes over values covering every bit pattern at a
    6-bit split.
- **Network**: three servers in a line, a - b - c. A message from an end
  server is relayed twice, and the middle server relays both ways. The
  per-component bounds are:
  - Search: two users and two searches;
  - Login: one nick, two logins over two seconds, and one split;
  - UserLevels: two nicks, one local and registered as Admin;
  - PingPong: three pings in all;
  - PrivMsg: two users on the end servers, one taking messages; spellings
    u1, u2, U2 and an unused x; two messages; `Max_Ignore` 1.
  - Browse: u1 on a, firewalled and sharing nothing, and u2 on c, sharing two
    files and ignoring u1; two requests; `Max_Browse_Result` 1 with
    `<max>` none, 1 or 40000. Two files against a limit of one make the cap
    bite; 40000 overflows the short of the local walk; every request crosses
    both links, and either user may sign off while one is in flight.
  - UserData: u1, an admin, on a with its record there, and u2, a user, on
    c with its record on b only; ports 0, 6699 and 70000, speeds 0, 10 and
    11, a password or none; three commands. Each argument set has a valid
    value, the initial one (so `alter_speed`'s "already" test fires) and an
    out-of-range one; three commands let two origins cross and one repeat.

## Fairness

- **Reactor**: `WF` on the loop's steps, because `poll` always has a finite
  timeout. `SF` on the clock advancing. The peers get no fairness: they may
  stop sending at any time.
- **Networked components**: `WF` on handling the head of every link, because
  the reactor reads every readable connection on each pass. Nothing forces a
  user to act, a link to split, or a server to ping.
- **User output**: `WF` on a write that takes bytes. The loop polls the
  descriptor on every pass, and the model assumes the client keeps
  reading. A write of nothing changes no state, so such a write stays
  enabled until it happens.
- **Private messages**: no fairness and no liveness property.
- **Client**: `WF` on the main thread and each connection thread, because the
  threads are scheduled fairly. The tracker answers and completes what it
  writes, and a peer sends the whole of its request, because the properties
  are about requests that arrive. Closing and new requests are not forced.

## Not modelled

- The business handlers that only answer, with no shared state: channels,
  hotlists, whois, stats, and `change_email` (compiled out: EMAIL is
  not defined).
- Bans, clones, the file index and query parsing (fdb.c).
- Configuration loading, which enters as CONSTANTS.
- `buffer_decompress` errors.
- The services `privmsg` diverts to (operserv, chanserv, nickserv), and
  `ignore_list`, which only reads.
- Outbound server connects, and `server_login` (modelled from the spec as an
  outcome).
- The client's failures of socket, connect, `opendir` and `pthread_create`,
  and its thread resources: connection threads are never joined
  (client/main.c 517), which only more connections than TLC can explore
  would exhaust.

`PROJECT.json` gives the reason for each of these. Its hazards and component
notes, for parts no property covers, give what could go wrong there, for
example:

- `cloak` from a server, which dereferences a NULL sender (change.c 457);
- `ignore`'s limit check, `list_count > Max_Ignore` (privmsg.c 462), which
  lets the list reach `Max_Ignore` + 1 entries; PrivMsg models it as
  written, and no run states the limit;
- a user's `sendbuf` with no ceiling in `queue_data` (buffer.c 491); it is
  checked only when the client reads;
- the `int` copy of a file size (client/main.c 422).
