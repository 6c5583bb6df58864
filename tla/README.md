# BlackVault-Reema: a TLA+ verification project

TLA+ modules of the relay, of the end-to-end encrypted clients, of what the
pages do beside sessions and of the tools in this repository, the TLC
configurations that check them on small instances, and TLAPS proofs of what must
hold for every instance of the relay, of the clients' sessions, of the groups, of the
other parts of the pages and of the files and tools of a host. Paths are relative to
the repository's root; `PROJECT.json` maps every definition to the lines it models.

## 1. The system

| part | source | state | operations | hard because |
|---|---|---|---|---|
| relay | `src/server.js` | `online`, `groups`, `inbox`, `mixPool`, `mixTimer`, per connection `client.pk` | connect, publish, subscribe, send, close, window flush, jitter timers, hourly sweep | publish suspends at an `await` while its connection closes or another registers; a group id is any string, also somebody's address; windows and timers resolve messages against connections that came and went |
| key directory | `src/server.js`, `src/client.js`, `public/messenger.html` | `directory`, the slot for the answer, the recipient | publish, fetch-shard, `/to`, connect, errors | one slot for every answer and every error; a relay may answer with an altered entry |
| ratchet session | `public/crypto-core.js`, class `Session` | root, two chains, counters, skipped keys, epoch cache | encrypt, decrypt, serialize, restore | no initiator: two first messages may cross; an epoch's KEM material travels once; a failed decryption must change nothing |
| CLI client | `src/client.js` | sessions, prekey pool | start, `/to`, publish, a line of input, a message | the process may die between two writes of one handler |
| keyfile and session file | `src/identity.js`, `src/sessions.js`, `src/index.js` | the two files | load or create, migrate, replace the pool, save, load | written in place, by a client and by commands beside it |
| browser messenger | `public/messenger.html` | sessions in a tab and in localStorage, `pendingDirectory`, `activePeer`, `peerAddresses`, bindings | connect, send, gate, message, rebuttal, reload | handlers suspend in the middle and others run meanwhile |
| group channel | `public/group-core.js` with the storage and handlers of `messenger.html` | epoch, epoch keys, counter, replay guard | create, welcome, join, send, commit, receive, reload | commits and texts cross, tabs reload |
| boot gate and vault | `public/boot-probe.js`, `public/index.html`, `public/vault-core.js` | one promise, late scripts, the identity in memory and in storage | ensure, bootstrap, rotate, import, reload | callers join a bootstrap that fails; the identity changes before what it needs is loaded |
| memory | `src/memory.js`, `public/memory.js`, `tools/memory-sidecar.mjs` | banks in an external daemon, calls on their way, the child the sidecar spawned | retain, recall, provisioning, deletion, signals | nothing is awaited, the daemon indexes later and dies |
| AEGIS | `public/aegis/` | the attempt log, the confidence control, the audit on screen | append, import, export, clear, gate, audit | transactions do not join, and imports overlap; an audit suspends twice |
| tools | `tools/*.mjs`, `src/tor.js`, `src/tls.js` | file trees with manifests, the index and HEAD, child processes, links | fetch, vendor, check, serve, verify, patch, scan, launch | killed between two system calls; files change between two reads; children and Tor die |

Clients talk to the relay over one connection each, newline-framed TCP or a
WebSocket. A client publishes its bundle and its pool of one-time prekeys, looks
up a peer's, and sends envelopes the relay cannot read; the relay writes each to
the recipient's connection, or keeps it until the recipient comes back or the
message is too old. Sender and recipient share no state but the ratchet
sessions, which the envelopes keep in step. The tools prepare the files that the
pages load and start the programs above; they share only files with them.

What makes each part correct:

- relay: every message is in exactly one place and leaves it for one reason; it
  is written once, before its time to live is over, to its addressee or to who
  subscribed to the id it is for; nothing waits for a recipient that is connected,
  except what a subscription to that address took; limits hold; windows drain;
- session: both sides derive the same keys in any order of first messages; a
  key is used once; what fails leaves no trace;
- clients: all of that also through kills, restarts and interleaved handlers;
  a prekey opens one message, and one nobody used opens its message; an identity
  once stored is never silently replaced;
- lookups: one talks to the address one asked for, and a lookup ends;
- groups: an epoch has one key, a nonce is used once, a text is read once, and a
  commit that was received outlives the tab;
- pages: ready means ready, a held text leaves only when confirmed, a rebuttal
  shown as verified was made under the address it is taken to come from, hints come
  from one's own memories;
- tools: a check that passes means what it says, and files are replaced whole.

## 2. The modules

| module | models | used by |
|---|---|---|
| `Delivery` | abstract: what the relay promises about one message | `Relay` |
| `Relay` | the relay's connections, queues and windows | `MCRelay`, `RelayProofs` |
| `RelayProofs`, `RelayFate` | theorems about `Relay`: registrations; what becomes of a message, limits and order | |
| `Directory` | the key directory and lookups by both clients | `MCHost` |
| `Ratchet` | class `Session`, as operators on a session record | `Peers` |
| `Peers` | what CLI and messenger share: two parties, their files, the relay between them | `CliClient`, `Messenger` |
| `CliClient` | the CLI's actions | `MCCli`, `MCCliClient` |
| `PeersProofs`, `CliProofs`, `MessengerProofs` | theorems about `Peers` and each of the two clients | |
| `OrderProofs` | theorems about what two CLI clients refuse of each other | |
| `Keyfile` | the files of the command line under two processes | `MCHost` |
| `Messenger` | the browser messenger's actions, for one session | `MCMessengers`, `MCMessenger` |
| `Conversation` | several peers and a group in a tab: addresses, the gate, rebuttals | `MCPage` |
| `Group` | a group channel | `MCPage`, `MCGroup` |
| `Boot` | the boot gate, the bootstrap and the vault's import | `MCPage` |
| `Memory` | memory clients, daemon and sidecar | `MCPage` |
| `Attempts`, `Verdict`, `Codec` | the attempt log, the heuristics with the audit, base58, base64url and the display of keys | `MCPage` |
| `Assets` | pinned file trees, the tools that make them, the server | `MCHost` |
| `Staged`, `AgsCli`, `Scan`, `Launch` | commit verifier, fix of the ags command, skill scanner, launchers and links | `MCHost` |
| `PageProofs` | theorems about `Group`, `Boot`, `Memory`, `Attempts`, `Verdict`, `Conversation` and base64url (`Codec`) | |
| `HostProofs` | theorems about `Directory`, `Keyfile`, `Launch`, `Staged`, `AgsCli`, `Assets` and `Scan` | |

The `MC` modules are instances for TLC. `MCCli`, `MCMessengers`, `MCHost` and
`MCPage` put several into one run: a behaviour belongs to one of them, told by
the variable `part`, and the variables of the others stay as they begin. Where
the components do interact, one module holds them: `Peers` has two clients, their
files and the relay between them, `Directory` relay and clients, `Group` all
members, `Memory` both clients, sidecar and daemon.

A definition marked `Mutant` in a comment is a plausible bug in the definition
that follows it. No specification uses it; each property of a passing run is
violated when one of them takes the place of the original.

### Relay

One action is one callback of the Node event loop: `Connect`, `Closing` and
`DropClient` for sockets, `Publish` up to `await loadPQ()` and `PublishInvalid`,
`PublishRefused`, `PublishRegistered` for what follows it, `Subscribe`,
`SendCover`, `SendMixed`, `SendUnmixed`, `FlushMixBatch`, `JitterFires`, `Sweep`;
`Tick` is the clock. The loops over a batch take one step per message
(`DeliverNext`, `DelayNext`) while `Idle` keeps every other callback out, so that
the shuffle is a choice of the next message. Messages are records of recipient,
mode and time stamp; envelopes are not modelled, and whether a publication
verifies is a choice. `Address` and `Group` may overlap, and so may what clients
subscribe to (`Subscribable`): a subscription to an address takes the list that
waits for it. `taken` is the history of such messages, and where the code does not
keep a promise for them the properties say so: they may be written to the
subscriber, and one whose subscriber is gone when its window closes is put back
into the list although the owner may be connected by then. A WebSocket that is closing still delivers frames, a
destroyed TCP socket does not (`CanSpeak`). `log`, `acked`, `lost` and `wire` are
history.

`Delivery` states, per submission, that it is held until it is written or given
up and that its receivers are then fixed, one for a pair message. `KeepsPromise`
is `Promise!Spec` under the mapping `FateOf`.

### Ratchet

Keys are symbolic: a Diffie-Hellman secret is the set of two key pairs, a KEM
secret the generator and its target, a root the prekey and the secrets mixed in
so far, a message key the position in a chain. Two keys are equal exactly when
they come from the same secrets, so a decryption succeeds exactly when the keys
are equal. `Sending`, `Envelope` and `Sent` are `encrypt`; `Decrypt` is `decrypt`
with its snapshot; `Refused` lists the reasons for which it gives up before it
derives a key, in the order of the code. Signatures, padding and encodings are
left out: an envelope in the models is one the peer built.

### Peers, CliClient, Messenger

A handler of the CLI is synchronous, but its writes to files and sockets outlast
the process and its memory does not. Each handler is therefore cut at its
writes, `job` names the rest of it, and `Kill` may come anywhere. `up` follows
the start: identity and sessions are read, then the pool is published. `Channel`
is the relay: in order, in any order (a mix window shuffles), or with
redelivery. `Others` lets further correspondents use up prekeys.

The messenger also suspends in the middle of handlers: `deliverMessage` at the
directory (`asked`, `answers`), `onMessage` at the rendering (`rendering`), after
which it saves whatever is in memory by then. It evicts a session whose message
fails, tops up its pool where the CLI replaces it, and republishes it when it
uses a prekey.

### Directory

A request and an answer are entries of two ordered connections. The relay
handles messages and lookups in the order they came; each may bring an error.
`Tamper` alters an entry on its way. The CLI has a slot that is busy until an
answer or an error frees it (`Busy`, `AfterError`), the messenger one that the
next lookup takes over. `Derives` is the check of an entry against the address
that was asked for; envelopes carry the fields `isPlausibleEnvelope` requires.

### Keyfile

The two files as they are on disk: absent, torn, of an older build, or whole.
Loading decides (`Created`, `Unreadable`, `Unpublishable`), writing truncates and
then fills, and a process may be killed in between; a command of `src/index.js`
runs beside the client.

### Conversation

Which peer is active, or the group; which addresses are known, and what the gate
holds. A session is there or not. DIDs and routing addresses are bound by
credentials that a peer caches and that outlive its address. A rebuttal is fresh,
or one its author made before it lost its identity; whoever passes it on does so in
a session, or in the group, where the envelope names its sender and every member
can write any name (`ReceiveInGroup`): the rebuttal is verified against that name.
`deliverMessage` awaits the post-quantum library, but a peer becomes active only
through code that needs the library, so this await is over in the microtask it
began in and is no place for another handler. After a reload the library is loaded
or not; with a full pool and a cached bundle nothing loads it, messages are refused,
and looking up a peer fails.

### Group

An epoch key is the sequence of the commits that led to it. `Send`, `Receive`,
`Join` and `Reload` are the messenger's handlers with their calls of `saveGroups`;
`Commit` is `makeCommit`, `applyCommit`, the envelope to the group and the
welcome to the new member, as `src/test.js` does it.

### Boot

`Await` is a caller of the gate; the bootstrap goes through `LoadSodium`,
`LoadIdentity`, `Generate` or `TopUp`, `Connect`; the modules of the
post-quantum library load beside it. `Rotate`, `ImportFull` and `ImportShort`
change the identity, `Deliver` brings a message, of which a first one may burn a
one-time prekey and so stores the identity in memory (`FirstMessage`); `NetFlips`
takes the server away and back.

### Memory

Calls are a set of HTTP requests on their way, each with or without its effect.
A retain is indexed later unless it waits. The sidecar probes, spawns, waits for
health, serves and is signalled at any of these points. The stop that a signal asks
for may fail unseen, and a sidecar that gives up waiting leaves what it spawned:
`StopsItsOwn` speaks of what was asked.

### Attempts, Verdict, Codec

`Attempts` has one action per IndexedDB transaction: answers, imports (which use
two, and of which several may be under way), exports, clears, and the control whose
last word is stored with an answer. A file from elsewhere has a record without an
id, which gets a new one in every import, and one without a time under an id of
another shape: such records may be doubled and may be missed by a range of ids, and
`LogTells` and `AppendOnly` promise neither.
`Verdict` computes the heuristics in integers, lets the claim grow by markers and
padding, and runs audits across their two suspensions, either of which may end in
an error that leaves a panel as it was. `Codec` computes the
encoders and decoders digit by digit over every short input.

### Assets, Staged, AgsCli, Scan, Launch

`Assets` has the four trees with their manifests and each tool one system call at
a time, the removal of the old age cache file by file (`RemoveOld`), while upstream publishes and withdraws files, disks fail and the tool is
killed; the server caches by modification time. `Staged` has a work tree, an
index and HEAD, edited while the hook reads. `AgsCli` has npm replacing the file
between two steps. `Scan` has two passes over files that are edited between them.
`Launch` has what was asked for, the children and the link, with ports taken by
others, a Tor that goes away and an opener of the browser that is missing, which ends
the launcher without its shutdown.

## 3. The runs

Deadlock is off in all of them: bounded runs end when the bounds are used up.

| run | checks | instance |
|---|---|---|
| `relay_mix` | TypeOK, AtMostOnce, OnlineMatchesPk, NoMailStranded, WindowArmed, NeverPastTTL, OnlyTheAddressee, LiveOwnerKept, KeepsPromise | mixing on, two connections, two addresses one of which is subscribed to, two publications in flight, a message, queue of one |
| `relay_unmixed` | Conservation, Fifo, AckedFits, NoGoneSubscriber | mixing off, an address and a group, either of which is subscribed to and sent to in both modes, cover frames, two messages, queues of two, one recipient in them |
| `relay_live` | EventuallySettled, WindowDrains | fairness, mixing and jitter on, an address that is registered and subscribed to, two messages of either mode, no clock |
| `cli` | OrderRefuses (part order); ReadOnce, NoKeyReuse, PrekeyOnce (both) | order: two texts a side, any order with redelivery, caches of one. kill: one-time prekeys, redelivery, two kills inside handlers, others use up the pool |
| `cli_live` | EventuallyRead | fairness, in order, two texts a side, a kill between handlers |
| `msg` | UnusedPrekeysOpen, ServedUnspent (part prekeys); NoKeyReuse, TabsSound (both) | prekeys: pools of two that others use up, an answer on its way, a reload. kill: two texts a side, two reloads anywhere |
| `host` | LookupsHold (look), ChecksTell (assets, staged, ags), LinksAsAsked (launch), ScanSound (scan), KeysHold (keyfile), KeepsWhole (assets, staged, keyfile) | two peers in two shards, two lookups, a message meanwhile, both clients, one prekey and two, and a line that holds an entry with one; two files in two versions, two events, two requests for vendored files; three changes of index or tree; every sensible set of options; files of two lines; two processes and two pools made |
| `page` | EpochNonces, EpochsAgree, OnlyOtherEpochsRefused (group), ReadyMeansReady (boot), MemoriesHonest (memory), LogTells (attempts), VerdictsHold (verdict), CodecsExact (codec), ConversationsHold (talk), StepsHold (boot, attempts, verdict) | two members and one that joins, a text, a commit, a reload; two callers, three stored identities, two reloads; a CLI and a dashboard, two texts; two attempts and an import, or an attempt and two imports that may overlap; two vectors, two audits; five bytes of the borders of base 58 and 256; two peers and a group, two texts |

A property of a bundled run is the conjunction of the properties of its parts,
which are stated, with the code they are about, in the component's module.

Why the bounds are enough for these questions: a race for an address needs two
registrations, and a connection that comes back is another one; a message that
is lost, doubled or stranded is one message that takes a wrong turn, and order
needs two; a ratchet turns twice within two texts a side with receipts, and a
second text is the one that meets a chain left behind; a limit of one is reached
by every second message; a subscriber takes mail from an owner as soon as there is
one of each; two kills allow a kill during the recovery from one.
The text and the commit of a group share one sending counter, so two envelopes
are enough to reuse a nonce. A lookup is confused by one other request and one
error; a file tree is mixed up by two files of two versions; a check goes stale
by one change between two reads; a pool is lost by one replacement, and a second
process makes the second; an audit is confused by the edit between its halves; an
import is confused by one append, one reset or one other import between its two
transactions (`MaxWork` bounds attempts and imports together).
Five bytes of base58 pass the estimate of the digits' space at every remainder
that the lengths in use have. The limits of the code (1000 skipped keys, 256
epochs, 20 prekeys, hours of TTL) are constants of the models and small in the
runs. `EPHEMERAL` is a constant of `Relay` that the runs leave FALSE; the
theorems hold for both values.

Fairness. The relay: the event loop runs every armed timer and every loop to
its end. Flush and resolution are weakly fair; a jitter timer, whose callback waits
while another one runs, is strongly fair. Connections, sends and the clock are not
fair, and `EventuallySettled` assumes an owner that stays. CLI
clients: a handler that was called runs to its end, users start their clients,
and the relay delivers what it holds for a client that is ready.

### What the code does otherwise than it says

Each property below quotes the repository, and TLC finds it violated by what the
code does. The first four are runs of the project, and `PROJECT.json` gives
their quotations; the next nine have a configuration to reproduce them
(`tlc -config <name>.cfg <module>`); the others are shown by the constants that
are given.

| configuration | module, property | what happens |
|---|---|---|
| `cli_simultaneous` (run) | MCCliClient, AllRead | two first messages that cross and use one-time prekeys are both undecryptable |
| `msg_overwrite` (run) | MCMessenger, EstablishedKept | a session established during the directory lookup is overwritten |
| `group_reload` (run) | MCGroup, NonceOnce | a reload starts the counter again under the same key: nonces repeat, and members drop the new message, even a commit, as a replay |
| `conv_reload` (run) | Conversation, RepliesRouted | after a reload that loaded the post-quantum library (the pool was short), a message of a restored session makes its peer active without an address, and what is typed in reply is encrypted and sent to none |
| `msg_evict` | MCMessenger, EvictOnlyJunk | an envelope that overtakes another evicts an established session |
| `relay_stale_owner` | MCRelay, NoGoneOwner | publish resumes after its connection closed and maps the address to the closed connection |
| `relay_mixed_ack` | MCRelay, AckedIsKept | with mixing on, a message that was acknowledged is dropped at the flush for a full queue |
| `cli_persist_order` | MCCliClient, PersistedWasSent | a kill before the write to the socket leaves a session that claims a first message nobody got |
| `cli_receipt_kill` | MCCliClient, NoRefusedFirst | a kill after the receipt leads to a second first message, which is refused |
| `cli_new_pool` | MCCliClient, UnusedPrekeysOpen | a restart of the CLI throws away prekeys that messages on their way use |
| `group_replay_commit` | MCGroup, ReadOnce | a commit empties the replay guard, and a text of the previous epoch is read twice |
| `group_fork` | MCGroup, EpochNamesKey | two commits at one epoch leave two keys for the next |
| `launch_opener` | MCHost, ServersStop | "Ctrl+C stops both servers": with no program to open a browser, the launcher ends on an error nobody handles and leaves relay and page server running |
| `relay_mixed_ack` with `MaxQueue = 2` | MCRelay, Fifo | with mixing on, two messages of a window arrive in either order |
| `cli_new_pool` with `Bundles = {bob}`, `Others = FALSE`, `MaxCrashes = 0`, `PoolSize = MaxPrekeys = 1` | MCCliClient, Republished | the CLI never republishes a pool it used a prekey of |
| `host` | MCHost, ToStaysUsable | `/to` with a mistyped address of the right length asks nothing and leaves the slot taken: later `/to`s are refused, and nothing is on its way that would free it |
| one caller, `Stored = {"own"}`, two reloads | Boot, PQLoadedOnDelivery | a message is delivered to a page whose post-quantum modules are not loaded, and refused |
| one CLI, two peers, two texts | Memory, HintsOfSession | hints of one session come from memories of another |
| those of `host` | Assets, FontsStay | a kill between the two renames leaves no fonts |
| those of `host` | Scan, OnlyTheRubricSkipped | the second pass skips every `SECURITY.md`, the rubric or not: a sensitive path sent to the network is not reported there |
| none | AgsCli, WarnNeverFails | `--warn` ends with an error when the fixture is missing or empty, or npm removes the file meanwhile |

Three more are stated in the modules and hold in no instance of interest:
`KillKeepsIdentity` of `Keyfile` (a kill inside the write of the keyfile costs
the identity), `GoesWhereTyped` of `Conversation` (a text held by the gate goes to
the peer or group that is active when it is confirmed), and `RetryReruns` of `Boot` (when
the modules failed to load once, every retry fails).

The passing runs keep clear of these by their constants and their statements,
which say so: `cli_live` has no one-time prekeys, keeps the order and kills
between handlers; `cli` expects the refusals that the order causes; three
properties of `Group` speak of what happens while no tab is reloaded, and one
member commits; `RoutedBeforeReload` ends with the tab's first life.

## 4. The proofs

Every theorem below holds for any sets of connections, addresses, parties and
members, any limits and any bounds of the runs. `PROJECT.json` lists them with
the properties they state.

### The relay: `RelayProofs`, `RelayFate`

Assumed: `RelayAssumption`, which lets addresses and group ids overlap and clients
subscribe to either; for `AckedFitsAlways` and `FifoAlways` also `MixOff`,
since both fail with a mix window (section 3).

- `TypeCorrect`: `Spec => []TypeOK`. `TypeInv` adds that inboxes are finite: the
  next position in an inbox is one more than the greatest, and `MaxNat` (by
  minimality of the upper bounds) shows it exists.
- `OnlineMatchesPkAlways`, `NoMailStrandedAlways`, `WindowArmedAlways`,
  `NoGoneSubscriberAlways`, and the action property `LiveOwnerKeptAlways`: all
  from one inductive invariant, `RegistrationInv`. `NoMailStranded` alone is not
  inductive: a message could be queued under the wrong recipient (`Routed`), or a
  connection come to life under an address it never registered (`Accepted`). An
  entry that is directed to a connection other than its address's owner was taken by
  a subscription to that address (`taken`), and only such entries may wait beside a
  connected owner.
- `ConservationAlways`, `AtMostOnceAlways`, and the action properties
  `NeverPastTTLAlways` and `OnlyTheAddresseeAlways`: from `FateInv`. The six
  containers of a message (window, batch, jitter, inbox, written, given up)
  become one function `Where` of places, and `Placed` says that the ids of the
  log are distributed over it, each at one place; a step only moves a set of ids
  from one place to another (`MailSteps`, `MoveIds`). It needs that an
  entry carries what its submission said (`Logged`) and that no id has two
  entries (`OneItem`), which would be resolved apart.
- `RelayKeepsPromise`: `Spec => KeepsPromise`, the refinement of `Delivery`. The
  initial state maps to the empty list of fates, and each of the `MailSteps` maps
  to a submission, to one settled message, or to a stutter. The proof showed
  that a message is never written to nobody, which `Delivery` now says too.
- `QueuesBoundedAlways`: lists and their number stay within the limits, mixing or
  not. `AckedFitsAlways` and `FifoAlways`: `UnmixedInv` says that without a window
  the batch is what one connection catches up with or one message; such a batch
  was one list and fits back into it (`LoopFits`), and list, batch and wire are in
  the order of acceptance (`InTurn`).

### The sessions: `PeersProofs`, `CliProofs`, `OrderProofs`, `MessengerProofs`

Assumed: `RatchetAssumption`, `PeersAssumption`, `NoneIsNoKeyPair`, `NoneIsNoChain` and
`NoneIsNoSession`, which say of the model value `None` that it is no key pair, no chain
and no session.

`PeersProofs` has the lemmas on `Ratchet` and on what both clients share. It is
independent of the actions of either client: `KeyStep`, `MailStep`, `PoolStep`
and `ReadStep` name what a step may do to keys, envelopes, prekeys and sessions,
each invariant is shown to be preserved by them, and `StepKinds` and `PrekeyKinds` of the two
modules show that every handler, cut by kills and suspensions, does only that.

- `NoKeyReuseAlways` (both clients). `KeyInv`: a sending chain belongs to the
  party whose fresh key it was made with (`OwnChain`), so the two parties never
  share one; the session in memory and the one on disk are each ahead of every
  envelope of their chain on the wire (`MayUse`); and an envelope that a handler
  has built but not yet sent is behind memory, and behind the disk as soon as
  the write has been done (`Pending`). That order of `persist` before the socket
  is what carries the proof through a kill.
- `PrekeyOnceAlways` (both clients). `SessionInv`: sessions and envelopes have the
  types of the code's records, a session that has not received anything yet names
  the prekey it was addressed to, and what is sealed as a first message carries the
  prekey its key was derived with. `PoolInv`: the pool in memory is the pool file
  while the client is up, and what was spent is in neither. `ReadInv`: the
  prekey of every first message that was read is spent, and so is that of the
  one a handler has in work, which nobody has read.
- `ServedUnspentAlways` (messenger): a messenger that is connected and not about to
  republish serves a part of its pool (`ServedInv`), and what is spent is in no
  pool.
- `UnusedPrekeysOpenAlways` (messenger): what the directory serves, what its answers
  offer and what envelopes name was offered by its owner (`Offered`), and what
  was offered leaves the key file only when it is used (`OfferedStays`).
- `TabsSoundAlways` (messenger): types, and `SavedInv`: the storage restores to the
  session in the tab unless a handler that saves is on its way.
- `ReadOnceAlways` (CLI): while no process is killed, an envelope is read once, however
  often it is delivered. `OnceInv`: every session of a party, the one it would make of
  its file included, has moved away from the keys read in it (`Unread`). Its receiving
  chain is past them, they are not among the keys it kept, and each chain it will
  begin has a root with more secrets (`Old`), or is begun with a prekey, which
  `PrekeyOnceAlways` settles (`OfFirst`). So decrypting needs a key nobody used, on
  every path of `decrypt`: a kept key, the present chain, a new chain.
- `TypeOKAlways` (CLI).
- `OrderRefusesAlways` (CLI; `OnlyOrderRefusesAlways` of the specification itself): over
  any of the three channels, two clients that were given each other's bundle refuse, of
  what reaches them for the first time, only what the order of delivery makes
  unreadable. Its hypotheses are those of the run's part: no kill, bundles and so no
  one-time prekeys (`cli_simultaneous` shows what those do), and no more texts than
  `MaxKept + 1` and `MaxSkip + 1`, so that a receipt and the texts of a side never
  overflow the cache of kept keys (`MAX_SKIP` bounds both in the code). The cache of
  epochs may be of any size. `OrderInv` relates the two sessions and what is between
  them. `Phase`: nobody heard the other; or both opened at once and the client with the
  smaller key heard the other; or one answered and its peer does not know that epoch.
  `Due`: each envelope that is not read has its key kept, or continues the chain its reader
  receives on, or begins or continues the one epoch the reader does not know, or the
  opening it has not heard, or belongs to an epoch that is gone for good, which is
  refused as unknown without touching the session. `Counts`: keys kept, envelopes
  read and those to come add up to no more than texts and one receipt, which bounds
  what the caches must hold. `ReadingKeeps` goes through every path of `decrypt`: from
  a state in order it either refuses harmlessly or succeeds and leaves one in order.

### Groups: `PageProofs`

Assumed: `GroupAssumption`, and `NoneIsNothing`, which says of the model value
`None` that it is none of the records of the model.

- `GroupInductive`: `GInv`. `Keyed`: every key, of a session, a file, a welcome or
  an envelope, consists of commits on the wire, the i-th of which begins epoch i,
  and has as many as its epoch says; an envelope that opens and carries a later
  commit carries the next one (`OpensNext`).
- `EpochNoncesAlways`: while no tab is reloaded, the counter of a session has
  passed all that its member sent under its key, and what was read is in the guard
  or of an epoch that ended (`Past`, `Guarded`). Two envelopes with one key are of
  one epoch because of `Keyed`.
- `EpochsAgreeAlways`: with `NoFork`, that no two commits begin one epoch, keys of
  one epoch are equal element by element (`SameKey`). `NoFork` holds where one
  commit is built, or where one member commits and no tab is reloaded (`Led`): the
  code does not prevent the rest, `group_fork` shows two members, and a member that
  is reloaded between its commit and the next save falls back and commits again.
  That received commits survive a reload needs none of this (`Kept`: files hold
  the commits that were read).
- `OnlyOtherEpochsRefusedAlways`: under `Led`. The guard holds only what was read
  (`Notes`), and a session past the epoch it joined at has the key of the one
  before (`HoldsPrevious`), so what does not open under either key was read.

### The other parts of the pages: `PageProofs`

These theorems are about `PageSpec`, which runs one part at a time. `PageSteps` says
that each step of it is a step or a stutter of every part, so an invariant of a part
is proved of that part's own actions. `MCPage` fixes two correspondents for
`Conversation`, one for `Memory`, and two texts for either; callers, stored identities,
users, skills, words, vectors, lengths and the other bounds are arbitrary.

Assumed: `BootAssumption` (the stored identity is of a version there is),
`ConversationAssumption` (`None` is nobody), `MemoryAssumption` (a bank has an owner),
`AttemptsAssumption` (skills are finitely many and at least one, and the bounds are numbers),
`VerdictAssumption` (vectors and lengths are finitely many and at least one, and no
claim is of no words).

- `ReadyMeansReadyAlways`, and the action properties `FailsForCauseAlways` and
  `KeepsIdentityAlways`: `BootInv`. `Reached` says what a bootstrap has reached by its
  step (libsodium is bound after the first, an identity of v6 is there before it connects),
  `OnlyReady` that a socket, an import and callers who were told so belong to a page
  that is ready. A failure goes back to the beginning, and what lasts of it (modules
  that did not load, a server that does not answer, a v4 identity) is what a caller is
  told of.
- `MemoriesHonestAlways`: `MemInv`. `Own`: what is in a bank,
  indexed for it or given as a hint is its user's. `Promised`: what a recall after an
  acknowledged retain was promised is in the bank it asks, as long as the bank is the one of
  that life; a recall is chained only to a retain that waits (`Chained`). `Deletable` bounds
  the lives of a bank. `Stoppable`: a sidecar knows of the daemon it started, so that it
  asks it to stop whenever a signal comes; whether the daemon obeys is not claimed.
- `LogTellsAlways` and the action property `AppendOnlyAlways`: `LogInv`. `Numbered`:
  ids made here are numbered as they are made, those made elsewhere or for an import
  have other numbers, and an attempt made here has an id of its time. So a record under
  such an id, wherever it is (in the log, in a file, in an import), is the attempt as it
  was answered (`AsMade`), and an import that overlaps with others can only put it back
  as it is. An id is in the log once (`OneRecord`), as each import has it once
  (`Imports`) and records that are put replace those of their ids (`PutIs`). The range of
  ids is claimed of attempts made here; imported records have ids of any shape.
- `VerdictsHoldAlways` and the action property `MarkersNeverHelpAlways`: the risk is a
  rounded quotient of a greatest intensity and a sum of intensities. `GreatestNat` and
  `SumsExist`, `SumsUnique`, `SumsMonotone` are about any finite set, by a smallest
  counterexample (`SmallestSet`); `IntensityBounds` and `IntensityGrows` about the
  quotients; `RiskGrows` goes across the caps and the switch of the weights at 50.
  `OneClaim` says of which claim the panels are between the two waits of an audit.
- `ConversationsHoldAlways`: `TalkInv`. `Confirmed`: a flagged text that was sent was
  confirmed. `Routed`: until a reload, whoever has a session has an address. `Bound`: a
  cached binding is its issuer's own, and a rebuttal is shown as verified exactly when
  the address it is taken to come from is the one its author made it under. In a session
  that address is the sender's; in the group it is the one the envelope names, and
  verified says no more than that its author made it.
- `Base64ExactAlways`, of a part of `CodecsExact`: assumed is that bytes are below 256.
  A bit of the digits is that bit of the buffer (`SameBits`), and a byte is the sum of
  its bits (`BitsMakeByte`), so a buffer of any length comes back.
- `StepsHoldAlways` joins the four action properties to the one the run checks.

### The directory and the host: `HostProofs`

These are about `HostSpec`, again one part at a time. Assumed: `DirectoryAssumption`, that
`None` is neither a peer nor a lookup and that the bounds are numbers;
`KeyfileAssumption`, that the daily process is one of the processes;
`AssetsAssumption`, that there is a file, a version beyond the first, and that `NoTree`
is no tree; `ScanAssumption`, that a file has room for a line.

- `LookupsHoldAlways`: for any number of peers, shards, lookups and messages
  meanwhile. `Waits`: in the CLI the lookup that has the slot is the one that waits.
  `Straight`: as long as no answer was altered, and none came for a lookup that had
  ended or was replaced, at most one request for a shard or answer to it is on its way; it
  is the waiting lookup's, and the shard holds its peer if that had published when it
  was asked for. Such an answer cannot fail as "not registered". Published
  pools are never withdrawn (`PoolsInv`), which it needs between request and answer.
  That the client talks to the owner it asked for holds of every single answer
  (`ResolveTells`), altered ones included.
- `KeysHoldAlways` and the action property `AddressKeptAlways`: `KInv`. `Identified`: only
  a file that is absent, or was when it was torn, has no identity; `Loads`: a process past its
  start has an identity, that identity's sessions and a signed pool; `Counted` numbers
  the identities and pools that were made. As long as no two
  processes wrote at once: `OneWriter`, and `OneIdentity`, all run under the file's
  identity or one is creating it; `WritesForCause`, a command writes what was missing; and
  `Offers`, what was published opens or its pool was replaced. The address then stays
  because a write fills in what its process has.
- `LinksAsAskedAlways`: `LaunchInv` and `LinkInv`. A local launcher waits for
  children it spawned, and once it shuts down they are gone and it is past what spawns
  them; a missing opener ends it after both are up, and without the shutdown nothing is
  claimed of them;
  a link has its route from the socket on and its encryption from the handshake on.
- `ChecksTellAlways` and the action property `KeepsWholeAlways`: `AssetsInv`, `StagedInv` and
  `AgsInv`. Versions of a file only grow, and pins are of versions before the
  copies, which are of versions before what is there (`CopyInv`); the three reads of
  one file agree as long as its source is left alone (`RunInv`); a staged set matches the
  pins file by file before the swap, and what is left of the old age cache is its own
  (`StageInv`); and what the server has noted as
  current is what the file holds, also between its stat and its read
  (`ServeInv`). `StagedInv`: a verification has failed exactly if a file it is past does
  not hold.
- `ScanSoundAlways`: `ScanInv`. As long as no file is edited, what was found so far is
  the union of what the files that were read have, line by line and in the whole;
  when the passes are over it is that union collapsed once. Findings of different
  files are different and a file's low ones are as many as its rules
  (`CountsOfFile`, `CountsAdd`), so counting after collapsing is the sum over the
  files; and one critical finding alone takes off twenty.

### What stays with TLC

All liveness (`EventuallySettled`, `WindowDrains`, `EventuallyRead`) and whatever
needs fairness or ENABLED is out of the prover's reach. Of the safety properties:

- `CodecsExact`: of its three parts `Base64Exact` is proved. base58 carries through an
  array whose size is estimated from the input's: that the estimate is enough is an
  inequality of powers and that decoding undoes encoding an induction, both over the
  input's length. `ShownClean` is about folds over a key.

Nothing in the project is RECURSIVE: recursion is a function or a fold.

## 5. What is not modelled

- Frames, JSON, rate and size checks of the relay, and the verification of
  signatures: the models' messages are those that pass, or the outcome is a
  choice.
- A write that fails without the process ending (`persist()` in `src/client.js`
  swallows it), and a socket that loses what was written to it.
- The same relay state in one behaviour with directory and clients: what a
  refused publication does to the served pool (`src/server.js:527`) needs it.
- A gap beyond `MAX_SKIP`: the constant is in `Ratchet`, the runs stay below it.
- The dashboard's sessions and groups (`public/index.html`), which repeat the
  messenger's code with the vault around it, and everything about layout.
- The cadence of cover frames (`src/cover.js`), the bytes of SOCKS and TLS, the
  lessons of AEGIS, packaging scripts, `src/demo.js`, `src/browser-e2e.js` and the
  regression scripts: demonstrations, data and tests.
- What a daemon does that was asked to stop while it starts, and how `daemon stop`
  ends: both outcomes are there, neither is a promise.
- The regular expressions of the scanner and of the sanitizers: a line or a
  character stands for each class.

## 6. Plan

1. Done: the relay with its abstract specification and proofs; sessions, both
   clients, files, directory, groups; pages; tools.
2. A composition of `Relay`, `Directory` and `Peers` that replaces `Channel` by
   the relay; the dashboard's sessions as an instance of `Peers`.
3. Proofs: done for `Relay` and its refinement, for keys, prekeys, what is read
   once and what is refused, for `Group` and the other parts of the pages, and for
   `Directory` and the files, tools, scanner and launchers of a host. Next: base58,
   digit by digit.
