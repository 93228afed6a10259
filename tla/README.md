# TLA+ models of the Minecraft transfer gateway

A verification project for `mc-transfer-gateway` (Rust, `src/src/*.rs`): a server that
accepts Minecraft Java clients, picks a route from the requested host, the client's IP
location and the security lists, and answers with a Transfer packet. Its configuration
and its data files are replaced while it runs.

## 1. Inventory

| Component | Source | State | Operations | Interacts with |
|---|---|---|---|---|
| Hot reload / watcher task | `runtime.rs` | the published `RuntimeState` (a `watch` channel of `Arc`), the watcher's event queue, two update timers | `reload_config`, `update_ip2region`, `update_security`, the `select!` loop of `ConfigWatcher::run` | reads TOML files, downloads, `LogController::apply`; publishes to the server through the watch channel |
| Server loop | `server.rs` 36-135 | listener, bound address, active-connection counter | accept / `changed()` / ctrl-c branches, `ConnectionLimiter::try_acquire`, permit drop, login timeout | borrows the published state at accept time and on `changed()` |
| Client session | `server.rs` 137-507 | position in the packet exchange, one snapshot of `RuntimeState` | `handle_connection`, `handle_status`, `handle_login`, backend status proxy | client socket, backend socket, DNS, routing, security check |
| Data file store | `ip2region.rs` 107-501, `security.rs` 172-553 | temporary and destination files | `download_one`, `update_one`, `publish_download`, `replace_download`, `files_equal` | HTTP sources, file system; opened by `Ip2Region::open`, `Security::open` |
| Routing | `config.rs` 46-104, 402-1073; `security.rs` 132-170 | rules, lines, groups, one round-robin counter per group | `validate`, `select_routing`, `select_matching_rule`, `select_target`, `Security::check` | called per session, with the security lists |
| SRV selection | `dns.rs` | one sequence counter per resolver | `resolve_target`, `select_srv_target` | system resolver |
| IP sets | `security.rs` 636-829 | a binary trie per address family | `parse_network`, `insert`, `contains` | security check, rule predicates |
| Protocol codec | `protocol.rs` | none | `read_packet`, `write_packet`, VarInt, `protocol_spec`, `parse_*`, `encode_*` | session |
| First run | `main.rs` 21-42, `config.rs` 1268-1339, `language.rs` 91-115 | generated files | `ensure_config_file`, `ensure_file`, `ensure_vhost_files` | file system |
| Program start and end | `main.rs` 15-68 | none | load, initialize the log, open data, spawn the watcher, serve, abort the watcher | all of the above |
| Logging | `logging.rs` | the open log file behind a mutex | `initialize`, `apply`, `DynamicWriter` | applied by a reload before it publishes |
| Language | `language.rs` | message table | `load`, `render` | part of the published state |
| MOTD conversion | `protocol.rs` 254-416 | none | `legacy_text_to_json` | text layout only |

What is hard here, and what makes each part correct:

* **Hot reload.** Events arrive while a reload is reading files; files are read one
  after another while an editor writes them; three kinds of work (reload, two
  periodic updates) each capture the published state, await, and publish a copy with
  one part replaced. Correct means: no publication undoes another, only validated
  parts are published, the last edit is eventually served, and the watcher does not
  trigger itself for ever.
* **Server loop.** The connection limit may change while connections are open; permits
  are dropped by other threads between the load and the compare-exchange; a rebind
  may fail; the watcher may end. Correct means: the counter counts exactly the open
  connections, nothing is admitted above the limit of its snapshot, every connection
  ends, the listener follows the configuration, and nobody serves without a watcher.
* **First run, start and end.** Every step may fail or be the last one before a kill,
  and an operator may put files into place meanwhile. Correct means: existing files
  are never overwritten, and a first run that reports success left everything whole.
* **Data files.** Each step of download, validation, comparison and publication may
  fail or be cut by a shutdown. Correct means: a destination file is absent or
  complete, and finished work leaves no temporary file behind.
* **Sessions.** The client and the backend may stop, close or send another packet at
  any point. Correct means: a Transfer is only sent after the acknowledged login of
  an admitted player, on the snapshot the connection was accepted with.
* **Routing and SRV.** Validation and choice compare names each in its own way; rules
  name lines or groups in either field; counters are shared by sessions and survive
  updates but not reloads. Correct means: what validation lets through is always
  found again by the choice, and turns are even.
* **IP sets and codec.** Boundary widths, networks within networks, signed numbers,
  cuts at every byte. Correct means: the trie is a set, and the stream delivers the
  packets that were written, in order, or an error.

## 2. Plan

The modules in the order in which they were written; all of the plan is done.

| Module | Models | Depends on | State |
|---|---|---|---|
| `HotState` | what hot reloading promises to the readers of the published state | | abstract specification |
| `Watcher` | the watcher task, implements `HotState` | `HotState` | proved (`WatcherProofs`) |
| `Server` | accept loop, limiter, rebind | | proved (`GatewayProofs`, first part) |
| `FileStore` | one data file through download and update | | proved (`FileStoreProofs`) |
| `Session` | one connection's packet exchange | | proved (`SessionProofs`) |
| `Gateway` | the program: first run, start, `Server`, the watcher's end, shutdown, kills and restarts | `Server` | proved (`GatewayProofs`) |
| `IpNetworks`, `AddressSet` | networks, and what an IP list promises | | abstract specification |
| `IpTrie` | the trie node by node, implements `AddressSet` | `IpNetworks`, `AddressSet` | proved (`IpTrieProofs`) |
| `Routing`, `Srv` | pure: validation, matching, choice of vhost, rule, target and record | | proved (`TargetsProofs`, `SrvProofs`) |
| `Targets` | concurrent sessions with shared counters, reloads and updates | `Routing`, `Srv` | proved (`TargetsProofs`) |
| `PacketStream` | what the packet layer promises to a session | | abstract specification |
| `Codec` | VarInts and framing byte by byte, implements `PacketStream` | `PacketStream` | proved (`CodecProofs`) |

## 3. Modules and the code

### Watcher and HotState (`runtime.rs`, with `config.rs`, `language.rs`, `logging.rs`)

`ConfigWatcher::run` is a single task: its `select!` has a branch for the event queue and
one per update timer, and the code of a branch is awaited inside the branch. In the model
each of the three activities has a program counter (`pc`), and `SelectReady` says that a
branch is taken only when all of them are at `"idle"`. That exclusion is what protects the
published state - an update captures it (`current`), awaits downloads, and publishes a copy
with one part replaced - so it is a guard that a mutant removes.

* **TOML files** (`disk`): `config.toml`, one vhost file and one language file. A
  content is a generation, counting writes, and a body. Of a body only the
  constants matter: is it `Invalid`, what `AutoUpdate`, `AutoDownload`, `LogPath`
  and `Overlong` say for it.
* **Events**: `fs` holds events not yet given to the callback, `events` and
  `errors` the messages in the channel. `Notify` is the callback with
  `is_config_event`; reads of TOML files and writes of other files are events, too,
  and are filtered. As the loop cannot tell the messages of one kind from each other,
  counters stand for the queue, and `RecvError` may overtake `RecvConfigChanged`;
  errors are only logged.
* **Reload**: `RecvConfigChanged`, `DrainEvents` (after the debounce), `ReadToml` for each
  file in the code's order, `EnsureLanguage`, `LoadData` for both kinds of data, `ApplyLog`,
  `PublishReload`. Every early return of `reload_config` is `FailReload`: a file that does
  not load, a good one that cannot be read this time, a language file that cannot be created
  (`EnsureLanguage`; a write that breaks off leaves one of `CutShort` behind), data that
  cannot be opened, a log that cannot be switched. `draft` is the state read so far, and the
  history `outcome` says how the last reload ended, for a failed one raises no event and may
  have read the very content that is served. `AppConfig::validate` runs after the vhost
  files are read; the model rejects a bad `config.toml` where it is read. Between the two
  nothing is written or published, so only the moment of the rejection differs.
* **Updates**: `SkipUpdate`, `StartUpdate`, `Download`, `PublishUpdate`, `OpenFails`.
  A data file is the number of the upstream release it holds. Files are replaced by
  release numbers; `corrupt` marks damaged ones.
* **Timers**: `Rearm` is the `reset(Instant::now() + delay)` after each branch, with
  the panic of an overflowing sum. The first delay is given to `sleep`, which
  saturates, so such a timer only never fires.

`HotState` has one variable, the published state, and two kinds of step: a whole newer
configuration with its data, or newer data of one kind and nothing else. The property
`NoLostUpdate` is this specification under the identity mapping.

### Server (`server.rs` 36-135)

The accept loop is one task (`pc`), each admitted connection is another. `Accept` borrows
the published state; `Load`, `Admit`, `Refuse` and `Retry` are the single atomic operations
of `try_acquire`, and `End` is the `fetch_sub` of a dropped permit, which may happen between
any two of them. `Changed`, `Rebind` and `RebindFails` are the `changed()` branch with its
await in the middle; `unseen` is the version flag of the watch receiver. `ChannelClosed` is
`changed?` when the sender is gone. A weak exchange may fail spuriously; it then yields the
value it had, which changes nothing.

### Gateway (`main.rs`, with `config.rs`, `language.rs`, `logging.rs` and `Server`)

`Gateway` EXTENDS `Server` and puts `main` around it: the program counter `main` walks
through `main.rs`, and while it is at `"serve"` the actions of `Server` are the steps
(`ServerStep`). `published` is the value in the watch channel from the moment the
configuration is loaded. What the watcher task does with files is the subject of `Watcher`;
here it publishes (`Publish`) and may end (`WatcherEnds`).

* **First run**: `Begin` looks for `config.toml`; `CreateNew`, `FileExists` and `WriteAll`
  go through the five files in the order of the code. Each file is an `open` with
  `create_new` and a later write, so somebody may come in between, and a cut
  leaves an empty file or a prefix (`CutShort`). A file that is found at
  creation is left alone. `config.toml` found there ends the first run and goes on to load.
* **Start**: `LoadConfig`, `InitializeLog`, `CreateLanguage`, `FillLanguage`, `OpenData`,
  `SpawnWatcher`, `Borrow`, `Bind`. A file that was cut short may load or fail. `Borrow`
  and `Bind` are apart, as the first bind is an await in which a publication may fall.
* **End**: `Shutdown` is the return of `server::run` with the abort of the watcher;
  `Kill` may come at any point of the start, with `Exit` taking away tasks, sockets and
  channel, and `Begin` starts again on the files that are left.
* **Operator**: `Meddle` puts one of `OwnFiles` in place or removes it at any moment
  before the server runs.

### FileStore (`ip2region.rs` 201-481, `security.rs` 319-553)

One worker and one destination file; `kind` is the file whose code runs, the two differ in
`publish_download`. Every action is one file operation, its failure is another action or
disjunct - a temporary file that cannot be read for its validation is discarded like a bad
one -, and `Abort` stops the worker before any of them (`main.rs:65` aborts the watcher
task at ctrl-c; a kill is the same). `creator` says whether the name of the destination
still refers to the file a running download writes, because the operator may move another
file there. `CopyFails` includes that the temporary file cannot be opened again.
`WholeOrAbsent` and `CleansUp` are properties of steps: they name the steps, with their stop
or failure, after which a partial destination or a temporary file may stay, so that any
other step that leaves one is an error, however many faults came before.

### Session (`server.rs` 137-507)

One connection from its handshake to its end. A packet is chosen when it is read: by the
protocol if the client keeps to it (`well`), arbitrarily otherwise. What a client sends
ahead waits in the stream and is seen in the same order, so sending needs no actions of its
own. `consumed` and `received` are the histories of both directions. `snapshot` is the
`Arc<RuntimeState>` the connection owns, `published` what the watcher has published since.
Routing is a choice among the lines that the snapshot allows for this client, DNS and the
backend answer or fail; `Targets` has the rest.

### Routing, Srv and Targets (`config.rs`, `security.rs`, `dns.rs`, called from `server.rs`)

`Routing` is the pure part: a configuration is a record of lines, groups and rules, or of
vhosts with such records. `Valid` is `validate` (vhosts, lines, groups, rules); `Matches`,
`SelectMatchingRule`, `SelectRoute`, `SelectVhost` are the functions of the same names,
`Check` and `Listed` the security lists that rules ask as well. Texts are plain values; the
functions `Lower` and `Undotted` and the relation `Within` say how they compare, so that
each comparison of the code (with case, without, without final dot) is kept apart. `Srv`
chooses a record from an answer by a turn (`Chosen`).

`Targets` has the state: `Accept` gives a session the published state, `RouteToLine` and
`RouteToGroup` decide (with the `fetch_add` of the group's counter in `Turn`), and
`ResolveTarget`, `KeepConfigured`, `SayUnavailable` are the lookup after its await. `Reload`
publishes a configuration with fresh counters, `Update` one with new lists and the same
counters; the `load` of a state names its counters. `random` groups take a turn as the code
does and then any host. The properties compare with definitions of their own (`NamedFor`,
`Serving`), written from the README's description of priorities and vhosts.

### IpTrie, IpNetworks and AddressSet (`security.rs` 636-829)

`nodes` is the `Vec` of nodes that refer to each other by index; `job`, `at` and `depth` are
the locals of `insert` and `contains`, and each pass of their loops is a step (`Follow`,
`Create`, `Mark`, `Found`, `Descend`, `NotFound`). `Cut` is the masking in `parse_network`.
`path` and `networks` are histories. A list is not read while it is filled, so one walk at a
time is enough. `AddressSet` holds the set of all listed addresses and answers by
membership; the refinement mapping takes `listed` from `networks`.

### Codec and PacketStream (`protocol.rs` 119-163, 418-465, 535-563)

Bytes are a flag for more and a group of bits, of which there are `Base` (128 in the code);
a word has `Modulus` values (2^32). `Groups` is the loop of `write_varint`, `Unsigned` the
sum that the shifts of `read_varint` make up, and `Value` its signed reading after what the
last byte's shift loses; `VarIntLengths` says where a VarInt at the front of some bytes may
end. `read_packet` is one action per byte, with every error branch an action
(`VarIntTooLong`, `BadLength`, `BadId`, `UnexpectedEof`, `ConnectionError`), and
`CleanClose` is its `None`. `Cut` ends the stream, by a close or by a reset, and drops any
number of bytes under way. After a close the reader meets an end of file, clean only where a
packet would begin; after a reset it meets another error, which fails the read there, too.
`sent`, `ends`, `written`, `lost` and `consumed` are histories: the items, where the bytes
of each end, all bytes, how many the cut has dropped, and those of the packets received.
Other peers (`Others`) write any bytes, with the item that these stand for (`StandsFor`: a
packet, or nothing readable). `PacketStream` is an ordered stream of packets that may be
closed or reset; under the identity mapping `Codec` implements it, its fairness included.

## 4. Runs

| Run | Question | Result |
|---|---|---|
| `watcher_edits` | Edits at any moment of a reload, one failure, one watcher error: is only what loads published, does the log follow, is no edit lost, is the last edit served, does the watcher come to rest? | holds |
| `watcher_data` | Do reloads and the two updates ever undo each other, or touch files nobody asked to replace? Does the served data catch up? Is the invariant of the proofs true on small instances? | holds |
| `watcher_stale` | Does it catch up with one failing open, too? | violated, finding 2 |
| `watcher_startup` | Is an edit made during start-up read? | violated, finding 1 |
| `watcher_overlong` | Does every validated configuration leave the watcher alive? | violated, finding 3 |
| `gateway` | From the first run on, with faults, a kill, a restart and an operator: is nothing that exists changed or removed, is a first run whole, are permits counted, limits and the listener kept, does the listener follow the configuration, does the program end with its watcher? | holds |
| `server_overlap` | Does the listener also follow from an address to an overlapping one? | violated, finding 4 |
| `file_store` | Is what reaches a data file validated and whole, is nobody's file lost, do only the steps named leave a half-written or temporary file? | holds |
| `session` | Is every Transfer earned on the snapshot, do blocked clients learn nothing, do client and gateway never wait for each other? | holds |
| `ip_trie` | Does the trie answer as the set of addresses does, and count each network once? | holds |
| `targets` | Is each session refused or routed by the lists, the one vhost and the rule of its own state? Are turns even, do weights get their shares, is only what was answered handed out? | holds |
| `codec` | Does the reader get the packets that were written, in order, wherever the stream is closed or reset, and is neither a cut packet nor a reset a clean end? | holds |

`watcher_data`, `gateway`, `file_store`, `session`, `ip_trie`, `targets` and `codec` also
check the inductive invariant of the proofs (`IInv`, `GatewayInv`, `TargetsInv`,
`CodecInv`), types included.

**Bounds.** `watcher_edits` allows one edit to each of two files with any of four bodies
(two that load, an invalid one, a removed file), beginning with the one that turns
everything on, and one failing read, open, write or creation: enough for an edit before,
between and after the reads of a reload, for a second reload, and for a reload that fails
over an edit. A template that breaks off leaves a body that loads or one that does not.
`watcher_data` has one file of each kind, two releases and one fault (damage or a failing
operation): enough for an update that captures the state before a reload or another update
publishes, and for a replaced file that cannot be opened. `MaxErrors` bounds the error
messages, which commute with everything.

`gateway` has two connections and limits 1 and 2, so the limit can be lowered below the
number of open ones (a third, asking for admission just then, is too much for the whole
program; for any number `LimitIsRespectedThroughout` is proved); two publications let one
fall into a bind; one fault is a failing bind, write or step of the start; one kill with a
second start covers every remainder of a first run, and one file put in place or removed
falls between any two steps. `file_store` has two good releases and a bad one, two faults (a
copy and its undo fail in one download), one stop and two moves of the operator;
`MaxLeftovers` ends the series of operations. `session` has a version that is known and one
that is not, two lines, all 32 configurations as snapshot and as the one published later.

`ip_trie` has three bits and two networks: the prefixes 0 and `Bits`, equal networks,
networks within each other in both orders, and shared nodes; the proofs cover all widths.
`targets` has two sessions, two loads and two lists, every ordered pair of four rules (by
country, negated, by player with the group in the line's place, by host and VPN), each mode
of a group, vhosts that differ in case and final dot, five invalid configurations, and
answers with a root record, port 0, equal and missing weights. Two sessions are enough for a
turn to fall between another session's acceptance and its own turn; `FairShares` looks a
whole round ahead at every value of the sequence that is reached. `codec` has groups of 2
bits and words of 5 in at most 3 bytes, so that the last byte has a bit too many, as 7, 32
and 5 do; every id of the word, frames up to the limit and one beyond, and every kind of
malformed bytes, two in a row, so that the second packet shows what the first left behind.

Deadlock is not checked where the bounds end all activity or the program may really stop.

**Fairness** (`FairSpec` of `Watcher` and `Server`, `GatewaySpec`). The runtime schedules
every task, the debounce is a sleep, and each HTTP request has a timeout: weak fairness for
`main`, the running activity, the callback, the timers and a bind attempt. `tokio::select!`
polls its branches in random order, so a branch that is ready again and again is taken:
strong fairness for receiving an event, starting an update, `Changed` and `ChannelClosed`.
That a download which is tried again and again succeeds at some time is an assumption about
the network; only `CatchesUp` and `Refreshes` need it. A connection ends because `timeout()`
wraps all of `handle_connection`. In `Codec` a read that waits is woken by bytes or by the
end of the stream. Publications, edits, releases, starts, kills and cuts have no fairness,
they may stop. `Converges` asks nothing where an operation has failed and the last reload
ended early, `CatchesUp` nothing once an operation has failed, and
`FollowsBindUnlessRefused` nothing of an address that was refused: the code retries only at
the next event or publication.

**Refinements.** `Watcher` implements `HotState` (`NoLostUpdate`), `IpTrie` implements
`AddressSet` (`AnswersAsASet`), `Codec` implements `PacketStream` (`Delivers`). The safety
of all three is proved as well.

## 5. Proofs

All of this holds for every value of the constants that satisfies the named assumptions
(`BodiesAssumption`, `DataAssumption`, `StartAssumption`, `BoundsAssumption`,
`ServerAssumption`, `GatewayAssumption`, `FileStoreAssumption`, `SessionAssumption`,
`TrieAssumption`, `TargetsAssumption`, `CodecAssumption`), so for any number of files,
bodies, connections, limits, releases, faults, versions, lines, hosts, records and bits.

**`WatcherProofs`.** `IInv` is inductive. Beyond the properties it says: one activity runs
at a time (`OneActivity`); what the reload has read so far would load (`DraftLoads`), which
makes the published state load; a running update's `current` is still the published state
and asks for that update (`NothingStale`), which needs `OneActivity`; contents and data are
ordered by age - published, read, on disk (`ConfigAges`, `DataAges`) - which makes every
publication go forward; and an unread content is still to be read, or announced by an event
or a message, or the last reload failed (`EditsAccounted`), while after one that did not
fail the content it read is served (`ServedUnlessFailed`). From it follow `TypeCorrect`,
`OnlyLoadedIsPublished`, `LogFollows`, `EveryEditIsRead` (the last two: if no file is edited
before the watcher exists), `FilesAreKept`, and `PublicationsOnlyGoForward`: `Watcher`
implements `HotState`, each publication being a `Reload` or a `Refresh`, every other step a
stutter.

**`GatewayProofs`.** For `Server` alone, `IInv` adds to the types what the program point
says of the loop (`LoopState`). `PermitsAreCounted` needs that an exchange succeeds only on
the value that was loaded; `LimitIsRespected` follows from it, as `active` then is the
number of open connections at the moment of the exchange. `GatewayInv` carries `IInv` over
to the whole program (`ServerInvariants`, `LimitIsRespectedThroughout`): a step of `main`
leaves the server's variables alone or sets them all as they are between two runs, which
needs that nothing is served outside of main's last step (`MainState`). `FirstRunsAreWhole`
comes from `FirstRunMakes`: the files before the position of a first run are whole, the one
being written is empty, those behind it are absent, unless somebody else's was found there.
`ExistingFilesAreKept` goes through the steps that change a file: they create an absent one
or fill the empty one just created, the position of `main` telling which that is.
`NoFailureOfItsOwn` needs `Undisturbed`: without fault, kill or operator, the program has
all of its files or none, so nothing that it loads is missing or cut short.

**`FileStoreProofs`.** `WorkerState` ties the program point to the operation, to the
validation of the temporary file and to the file being created. The lemma `DestinationSteps`
lists the only operations that change the destination, from which `OwnFileSurvives` and
`UpdatesAreAtomic` follow; `PartialSteps` and `LeavingSteps` list those that may leave a
partial destination or a temporary file (`HalfWrittenOnlyWhenCutOff`,
`TemporaryFilesRemoved`).

**`SessionProofs`.** The properties speak of whole histories, which no step shows at once.
`Exchange` therefore says for each point of the session what has been read and written when
it is reached, with the choices made in the snapshot: at `"ack"`, a handshake and a login of
a served version were read and one success was written, the line is of the snapshot and the
client is not blocked. The step that writes the Transfer then closes `TransfersAreEarned`;
`BlockedLearnNothing` and `NobodyWaits` are read off `Exchange`. The lemmas give the kinds
of sequences of one to three elements, to which `Append` leads.

**`IpTrieProofs`.** The invariant names the network of every node: children are the networks
one bit longer and all of these are linked (`LinksRight`, `LinksComplete`), no network has
two nodes (`OneNodeEach`), no shorter prefix is missing (`NoGaps`), the terminal nodes are
those of the networks inserted (`EndsMarked`), and a walk is at the node of the bits it has
followed and has passed no covering network (`WalkRight`). That a missing child means a
missing network needs `LinksComplete` with `NoGaps`. `Refinement` maps `Mark` to `Insert`,
`Found` and `NotFound` to `Contains`, all else to stutters; `Counts` is the number of
entries.

**`TargetsProofs`.** `RightTarget` says that what `SelectRoute` and `SelectVhost` choose is
the one rule and vhost that serve the request by the README's words: the lemmas about
`Valid` show that validation leaves one vhost to a host and one rule to a priority, and that
every name which it accepted is found by the choice; and it says that a session is refused exactly
when a list it was accepted with blocks its client. `KeepsRoute` carries this over to later
states, in which the published configuration may be another. `TurnsAreEven` needs the exact
form `InRounds` - after q rounds each host had q turns, those before the counter's place one
more -, for `EvenTurns` alone does not say whose turn is next; and `GivenByLoad` with
`OneFileEach`: all sessions that share a counter share the hosts of one configuration, and a
fresh counter has given nothing. `RoundsAreFair` and `SentOut` take what `SrvProofs` says
about one answer, with `KeepsAnswer`.

**`SrvProofs`.** `ChosenIsCandidate`: the search through the running sums of the weights
ends at a usable record of the lowest priority for every turn. `SharesAreFair`: from any
turn on, of as many turns as the sum of the weights and one more, each record of the lowest
priority gets as many as its weight, and the first in order (the first without weight, where
there is one) gets the one to spare; without any weight, a round is one turn for each. A turn and
its remainder match one to one within a round (`RoundOnce`), and the remainders that choose
a record are an interval as long as its weight (`ShareByWeight`). Sums are cardinalities of
sets of units, so that no induction over a sequence is needed.

**`CodecProofs`.** `CodecInv` says that the bytes written are those of the packets received,
followed by the head and the frame read, those on the way and those cut off (`NoByteLost`);
that each item has its own bytes, which stand for it (`ItemByItem`); and what has been read
of the length or of the frame (`Progress`). From it, `Standing` finds what has been read at
the front of the next item's bytes, and the format leaves one reading of them: the length
that was read is the item's (`LengthRead`), a frame of that length is its frame
(`FrameRead`), and a length that does not end is none (`LengthEnds`). So
`ImplementsPacketStream`: `Put` is `Send`, `ReturnPacket` is `Receive` of the very next
packet, each error is a `Fail` with its reason (a close
within a packet, a reset, or bytes that are none), `CleanClose` is `Close`, and every other
byte read is a stutter; `EndsClean` is the invariant of `CleanClose`. `ReadsWhatWasWritten`
is the round trip of a VarInt at every width. `Groups` and `Unsigned` are recursive
functions; that they have a value is the lemma `Recursion`, a statement about sets and
functions, and facts about them are proved by the least counterexample (`LeastElement`).

Model-checked only: everything about liveness (`Converges`, `Quiesces`, `CatchesUp`,
`Decided`, `FollowsBindUnlessRefused`, `EndsWithWatcher`, the fairness of `Delivers`), which
rests on fairness and `ENABLED`, outside the prover's reach. Every invariant and every other
action property of the passing runs is proved.

## 6. Findings

1. **Start-up gap** (`watcher_startup`, `main.rs:61`). Files are loaded, which may include
   downloads, before the watcher exists. An edit in between is served only after the
   next one. README lines 145-146 promise an automatic reload.
2. **Never opened again** (`watcher_stale`, `runtime.rs:369`). An update replaces a file and
   the following open fails. Later updates find the file equal to the download and
   report nothing changed, so it is not opened until the next release or reload.
3. **Overlong interval** (`watcher_overlong`, `runtime.rs:224`). `update_interval_secs` is
   only checked to be positive; `Instant::now() +` an interval near the maximum panics in
   the watcher task, and the closed channel ends the server.
4. **Overlapping rebind** (`server_overlap`, `server.rs:73`). The new listener is bound
   before the old one is dropped, so `0.0.0.0` and `127.0.0.1` on one port cannot replace
   each other.

Observations that no text of the repository contradicts:

* A finished download of a security list leaves its temporary file (`security.rs` has no
  counterpart to `ip2region.rs:422`), and a failed copy removes the destination by name
  even if the operator has meanwhile put a file there.
* Turns are even over requests (`EvenTurns`), not over players: the status request takes a
  turn as the login does, and the SRV sequence is one for all hosts of a resolver. With two
  hosts, clients that ping and then log in, one after the other, all log in on the same
  host.
* An SRV record of weight 0 beside weighted ones gets one turn in a round; without such
  a record the first one gets one turn more than its weight (`FairShares`).
* A language file that a kill left empty loads, for the built-in messages fill it up, and
  is not completed by a later start.

## 7. Not modelled, and why

* MOTD conversion, `Language::render`, log formatting and the JSON of the status: text
  layout without state.
* The fields of single packets (strings, UUIDs, ports), the syntax of the list files
  and of SRV names, single-field validation, defaults, paths and URLs: parsing without
  control; what they reject is an invalid body, a failed load or a bad packet in the models.
* The content of ip2region databases, the HTTP and the DNS client: libraries, which answer or fail.
* A lost event (inotify queue overflow): the model delivers every event; see the
  hazards in `PROJECT.json`.
* A ctrl-c that falls into a rebind: `Stop` is possible between the branches only.
* A state published by a watcher during `Gateway` is any loadable one; that such states
  come from files is `Watcher`. The two are not composed file by file: the product of
  their states is beyond exhaustive checking, and they share only `published`.
