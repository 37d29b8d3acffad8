# A verification project for cnc-content

cnc-content downloads, verifies and installs the game data of classic
Command & Conquer titles. The repository is a Rust workspace:

- `src/crates/p2p-distribute` is the peer-to-peer engine: a file is a row of
  pieces that worker threads fetch from BitTorrent swarms, HTTP mirrors and web
  seeds, verify, write and record, while a player may already be reading it;
- `src/src` is the application: packages, mirrors and recipes, the installer
  that extracts and places files, verification, a C interface, a command line;
- `src/crates/workshop-*` resolve, store and update community resources.

Nothing here is distributed consensus. What is hard is, first, *sharing*: threads
that claim work by compare-and-swap, one mutex and many flags around it, a
condition variable whose flag is set outside the mutex, ranges split by two
atomics, and files on disk that must stay believable through cancellation, I/O
errors, crashes and power cuts. Second, *long lives*: peers, mirrors, circuits,
slots, roles, announcements and caches that come, fail, expire and return in any
order, with counts and lists kept beside them that must not drift. The modules in
this directory are about both.

Conventions: a module names the source file it models and keeps its names. One
action is one step that another thread (or a crash) can fall between. Definitions
whose comment begins "A slip" or "A fault to be caught" are deliberate mutations
of the definition that follows them; no specification uses them. `PROJECT.json`
maps every definition to the lines it models and lists hazards, runs, mutations
and theorems.

## 1. The system: components, state, operations, interactions

| Component | State | Operations | Interacts with | Hard because | Correct when |
|---|---|---|---|---|---|
| Piece map (`piece_map.rs`) | one atomic per piece: Needed, InFlight, Done, Failed | `try_claim`, `mark_done`, `mark_failed`, `retry_failed`, scans | shared by all workers of a coordinator, read by checkpoints and the reader's feeder | plain stores next to compare-and-swaps, scans that are not atomic | a piece has one claimant; Done is for ever |
| Coordinator (`coordinator.rs`) | mutex with retry counts, last failed peer, peer trackers; `cancel_flag`; `fatal_error` | `run`: claim, select peer, fetch, verify, write, mark, checkpoint, retry, give up | calls peers, storage, resume file, notifier | 2..n workers; marks precede the books; workers exit at different moments | Ok means complete; giving up means exhausted; it returns |
| Peer statistics (`peer_stats.rs`, `.peers` in `resume.rs`) | per peer: failures, blacklist, last rejection, backoff, exclusion, parole; reputation on disk | record success, failure, rejection; save, load, apply | inside the coordinator's mutex | fetches under way outlive the decision that allowed them; saves die half-way | a liar is cut off, and stays so over a restart |
| Storage and resume (`storage.rs`, `resume.rs`) | output file, coalescing buffer, `.resume` file | `write_piece`, `flush`, `open`, save/load/remove of the record | called by the coordinator | buffering, partial flush, crash between write and record | the record never claims data that is not there |
| Streaming reader (`reader.rs`, `streaming.rs`) | sorted byte-range map under a mutex, condvar, cancel flag, playhead | `piece_completed`, `mark_complete`, `cancel`; `read`, `seek`, `wait_for_prebuffer` | download threads announce, a player's thread reads | lost wake-ups, timeouts racing data, overlap of ranges | no byte is read before it arrived; every call returns |
| Work stealing (`work_stealing.rs`) | two atomics per thread | `advance`, `steal`, `steal_from_largest` | threads of one file | owner and thieves on the same range | no byte lost, no two threads answer for one |
| Upload queue (`upload_queue.rs`) | holders of slots, FIFO of waiters | `request_slot`, `release_slot`, `cancel_queue`, `evict_stale` | the upload side of the engine | limits, peers that ask twice or leave | first come first served, no idle slot |
| Download session (`session_manager.rs`) and state machine (`state.rs`) | list of downloads with state, priority, clock; one phase, with a nested one while paused | add, pause, resume, remove, set priority; begin, complete, pause, resume, cancel, fail | starts downloads, emits events | the order of activation; what a pause hides | slots are used, by the right download; no phase is skipped |
| Connections and budget (`connection.rs`, `budget.rs`) | phase of each connection; counts of slots, in all and per peer | acquire, promote, release; transitions, timeouts | feed the pool | the counts are kept apart from the connections | the counts are those of the connections |
| Peer pool (`peer_pool.rs`) | active, inactive and banned peers, backoff | add, connect, disconnect, evict, ban, reconnect | feeds the coordinator with peers | two entrances, one of them with conditions | nobody comes back before it may |
| Choking and credit (`choking.rs`, `credit.rs`), super-seeding (`superseeding.rs`) | ranking, rotation, ledger; offers and how far each piece spread | `evaluate`, record bytes, decay; register, select, confirm, expire | upload side | the list rotated over changes with every ranking; reports in any order | everybody has a turn; every piece is shown before one is repeated |
| Rate limits (`rate_limiter.rs`, `throttle.rs`) | a bucket per peer; one shared bucket | consume, refill, remove, evict; ask, pay, change the rate | uploads and downloads | who asks does not pay at once | no more than the limit, what comes back and what a dropped bucket forgives |
| Caches (`piece_data_cache.rs`, `cache.rs`), tiered storage (`tiering.rs`) | T1, T2, B1, B2, target and budget; list of cached pieces; tier of each piece | get, put, resize; touch, evict; write, read, promote, demote | between peers and storage | four lists and two counts; no lock while a piece is copied | a bounded cache without duplicates; migration is invisible |
| Relay (`relay.rs`) | relays, circuits, hole punches, a count per relay | register, open, close, fail, clean up, report | peers behind NAT | a count beside the circuits | counts agree with circuits |
| Bridge (`bridge.rs`, `bridge_peer.rs`, `demand.rs`, `phi_detector.rs`) and mirror registry (`mirror_health.rs`) | mirrors with suspicion or tier, demand window, cache list | fetch, succeed, fail, prefetch; select, record, probe, prune | answers peers from HTTP mirrors | results arrive for mirrors that are dead, pruned or back | no mirror is left out or dropped too early |
| Groups (`group.rs`, `credential.rs`) and their catalogues (`manifest.rs`, `catalog.rs`, `catalog_sign.rs`) | members and roles, credentials; signed manifests, copies of mirrors and viewers | promote, demote, remove, transfer, issue, check; publish, plan, carry out, diff | who may publish, and what mirrors fetch | roles change while credentials are out; manifests come late or never | one master; a lost role lapses; copies have a manifest's paths and contents |
| Discovery (`dht.rs`, `local_discovery.rs`), metadata (`metadata_exchange.rs`) | routing tables and stores; peers heard of; blocks, claimed size, requests | ping, find, store, insert, evict; announce, hear, expire; request, take, reject, verify | network | loss, delay, repetition, lies | tables hold what belongs there; a lost packet forgets nobody too soon; the metadata arrives |
| HTTP download (`downloader/mod.rs` `download_to_file`, `mirror.rs`, `segmented.rs`) | destination, one temporary file per mirror or segment, the flags `done` and `failed`, a channel | one mirror, a race of all, or segments from all; SHA-1 | the fallback of every package | losers clean up while the caller sweeps; fallbacks that a flag cuts short | Ok is the right file, nothing is left behind, it returns |
| Content session, installation, manifest (`src/src`) | content directory, `content-manifest.toml`, archives | ensure, download, install, extract, record, clean | drives the p2p engine and the HTTP download | failure or crash between two steps of an installation | what is recorded is there; asking again helps |
| Sources, packages, recipes (`source/`, `packages/`, `recipes/`, `executor/`, `verify/` `identify_source`) | tables; the content directory under a recipe | detect, identify, execute | disc, store and archive layouts | tables that refer to one another; later recipes read what earlier ones left | no error means installed; a store is not eclipsed |
| Workshop (`workshop-core` `update.rs`, `workshop-package`, `-registry`, `-resolver`) | announcements, validator; registry entries, lock file | announce, ask, validate, revoke; release, yank, resolve, check | own storage | announcements late, twice, revoked; a lock file older than the registry | an orderly, bounded stream; a lock that passes has what the dependencies ask for, and nothing else |
| Formats, command lines, C interface | none | parse, encode, print, wrap | all of the above | - | - |

How the core interacts. `PieceCoordinator::run` loads the resume file into the
piece map, opens the storage, and starts the workers in a scope. A worker claims
a piece by compare-and-swap, picks a peer under the mutex, fetches and verifies
without it, writes the bytes, marks the piece Done, and then, under the mutex,
records the success and saves the resume file from the map. A failed fetch marks
the piece Failed first and is recorded in the books under the mutex afterwards;
every worker sweeps Failed pieces back to Needed at the head of its loop. When
all workers have left, the main thread decides what run returns. The reader
learns of pieces through its notifier. What the coordinator calls a peer may be a
connection that the pool, the budget and the choking of its other end admitted, or
a bridge that fetches from mirrors. Most of the other modules of the engine are
building blocks for which the repository has no caller yet (`Connections`, the
adaptive cache, tiering, metadata exchange, relay, groups): where their modules
need one, they say in their heading which use they take from the documentation of
the methods, and those definitions are marked external.

The application looks for sources on the machine, identifies them by their id
files, and installs packages by recipes; what no source has is downloaded, by the
engine or over HTTP, extracted and recorded.

## 2. Modules

The core, one behaviour of several threads or of several executions each:

| Module | Models | State and actions in the code |
|---|---|---|
| `PieceMap` | `piece_map.rs` as a data type | operators for the values that `SharedPieceMap`'s methods compute |
| `PieceLifecycle` | what a download promises, abstractly | a piece is claimed, stored, completed, failed, retried; a download ends well only when complete |
| `Coordinator` | `coordinator.rs` `run` and what it calls in `peer_stats.rs` | one label per step of `worker_loop` that others can fall between: `check`, `reset` (the sweep, piece by piece, with the mutex held), `scan`/`cas` (bulk claim), `snapshot`/`pick`/`sweep` (streaming claim), `idle`/`look` (exit test), `select`, `fetch`, `write`, `mark`, `success`/`book` (critical sections), `raise`/`abort` (storage error), `exit`; `Main` is the rest of `run` after the scope |
| `DurableDownload` | `storage.rs`, `resume.rs` and `run` seen from the disk | `WritePiece`, `MarkDone`, `SaveCheckpoint` are the three steps of a piece; `Complete`, `GiveUp`, `Drop`, `Crash`, `PowerCut` the ends of a run |
| `ByteRanges` | `ByteRange`, `ByteRangeMap` in `streaming.rs` | pure operators; `Insert` is the merging insertion |
| `StreamingReader` | `reader.rs` | a wait is `test` (condition evaluated with the mutex), `drowsy` (still holding it), `asleep`, then `awake` or `timeout`; `CancelStores` and `CancelNotifies` are the two halves of `cancel()` |
| `WorkStealing` | `work_stealing.rs` | one action per atomic access; `steal` is load end, load start, compare-and-swap |
| `UploadQueue`, `DownloadSession` | `upload_queue.rs`, `session_manager.rs` | one action per method; `activate_queued` is part of those that call it |
| `MetadataExchange` | `metadata_exchange.rs` | one action per method; `Misdeed`s are wrong, missing and rejected answers |
| `MirrorDownload` | `download_to_file`, `mirror.rs`, `segmented.rs` | `main` is the calling thread, `th` the thread of each mirror (`begin`, `request`, `read`, `tail`, `swap`, `erring`) or segment (`fetch`); `disk` is the directory, name to content; `world` says which mirrors are up, honest and speak Range, and what the hint is |
| `ContentInstall` | the content directory under `ensure_packages`, `download_missing`, `download_and_install`, extraction, recipes, the manifest, and the commands install, download and clean | an operation is a `queue` of tasks; a task goes through `fetch`, `extract`/`fill` (create, then copy, for each entry), `record`/`write` (truncate, then write, the manifest), `clean`; `Crash` may fall between any two |

The components around it, one action per method unless said otherwise:

| Module | Models | Worth knowing |
|---|---|---|
| `Connections` | `connection.rs` under `budget.rs` | `slot` is what the caller took for a connection |
| `PeerPool` | `peer_pool.rs` | ages and countdowns; scores are free |
| `Choking`, `SuperSeed` | `choking.rs` with `credit.rs`, `superseeding.rs` | `passedOver` counts the rounds a choked peer waits; `shown` is what was ever offered |
| `RateLimits` | `rate_limiter.rs`, `throttle.rs` | several transfers ask first and pay later; `spent` is what a peer was given, less what came back and what its dropped buckets lacked; any bucket may be removed or evicted at any time |
| `PieceCaches` | `piece_data_cache.rs`, `cache.rs` | the ARC lists T1, T2, B1, B2, the target and a budget that changes; the list of pieces that the bridge keeps |
| `Tiering` | `tiering.rs` | threads; every access to a storage is a step, and any may fail |
| `Bridge` | `bridge.rs`, `bridge_peer.rs`, `demand.rs`, `phi_detector.rs` | extends `PieceCaches`; suspicion as phi computes it from intervals, in whole ages |
| `MirrorHealth` | `mirror_health.rs` | several requests under way; `unheard` and `leftOut` remember what the properties ask |
| `Relay` | `relay.rs` | circuits, hole punches, regions, reports |
| `GroupRoster`, `GroupSync` | `group.rs`, `credential.rs`; `manifest.rs`, `catalog.rs`, `catalog_sign.rs` | clocks differ by up to `Skew`; manifests arrive in any order, or never; an entry is a path, a content hash and an info hash |
| `Dht`, `LocalDiscovery` | `dht.rs`, `local_discovery.rs` | an id is the set of its bits that are 1, so that the distance is what differs; messages lost, late and repeated; probes overlap, and `doubled` remembers whom an eviction put in beside itself; multicast reaches any set of hosts, at once; a due announcement is sent when its caller polls, and `late` remembers the longest delay |
| `PeerMemory` | exclusion, parole, trust in `peer_stats.rs`; `PeerState` in `resume.rs` | one peer through sessions that may never meet it, torn and failed writes, restarts |
| `DownloadStates` | `state.rs` | any call at any time |
| `ContentCatalog` | the tables of packages, sources, recipes and actions in `src/src` | files that no table tells apart are one group; a place is a directory or archive and a group |
| `SourceDetection` | `detect_all` and the probes of `source/` | the machine is one of a list of machines: stores, directories and discs, with a CnCNet directory of its four games |
| `RecipeRun` | `cmd_install` from a local source, `execute_recipe`, `identify_source` | action by action, with failures and deaths, on the tables as they are |
| `WorkshopUpdates` | `workshop-core` `update.rs` | failover between sources, windows, drift, jumps, revocation |
| `WorkshopRegistry` | `workshop-package`, `-registry`, `-resolver` | entries are added and yanked, and a mod's requirements and their sources edited, between `resolve` and the check of its lock file |

`MCCoordinator`, `MCDurableDownload` and `MCContentInstall` are
instances for TLC; `MCDurableDownload` adds a history variable, `trusted`;
`MCContentInstall` defines a small game. `MCParts` and `MCComponents` let TLC explore
components that share nothing in one run: `part` says whose behaviour it is, the
others stay as they begin, and every property speaks of its own part. The state
space is the sum of theirs, not the product. `CoordinatorProofs`,
`DurableProofs`, `MirrorProofs`, `NetworkProofs`, `MemoryProofs`, `RaceProofs`,
`InstallProofs` and `WorkshopProofs` hold the theorems.

How they compose. `Coordinator` and `PieceLifecycle` are both built from
`PieceMap`, and `Coordinator` refines `PieceLifecycle` (`LifecycleSpec`): threads,
peers, retries and books change nothing of what a piece goes through.
`DurableDownload` is the view of the same `run` across its executions. It treats
the workers as any number of pieces under way at once, which is the most that
`Coordinator` allows (`OneHolder`, and Done only after written, are what it
relies on), and `Coordinator`'s initial states are the truthful resume files
whose truth `CheckpointTellsTruth` is about. `StreamingReader` extends `ByteRanges`.
`PeerMemory` is the other side of the coordinator's books: what is kept of a peer
from one session to the next. `ContentInstall` stands on both ways to an archive:
its fetch gives a verified archive or an error, which is what `SuccessIsComplete`
and `OkIsWhole` say of the peers' and `EndsCleanly` of the mirrors'. `RecipeRun` and
`SourceDetection` both rest on `ContentCatalog`: its tables are the program's, so
what they show is about the recipes that are shipped.

## 3. Runs

Bounds are named constants. TLC explores each instance completely.

| Run | Shows | Bounds |
|---|---|---|
| `coordinator_bulk` | claims are exclusive (`OneHolder`), data precedes Done and the record (`DoneIsWritten`), Ok is complete (`SuccessIsComplete`), retries and mismatches overshoot their limits by at most one per other worker and giving up is exhausted (`LimitsAreKept`), refinement (`LifecycleSpec`) | 2 workers, 3 pieces, 2 peers of which one lies and lacks the last piece, 1 retry (2 in endgame), storage errors, failing saves, cancellation at any step |
| `coordinator_streaming` | with the streaming claim and peers that refuse or choke: the record grows and catches up when the workers have left (`RecordKeepsUp`); `run` returns (`Returns`) | 2 workers, 2 pieces, 2 peers |
| `durable_direct` | with `FileStorage` the record is truthful, Ok is whole and synced, recorded data stays | 4 pieces, 2 faults out of crash, I/O error, failed save; cancellation freely |
| `durable_anything` | with `CoalescingStorage` and every hazard, power cuts, repeated runs, re-verification and a deleted file included, a run that ends Ok has made durable what it downloaded itself, and never downloads again what is on record (`WorkIsKept`) | 3 pieces, a buffer of 2, 2 faults |
| `durable_buffered_cancel` | **violated**: `CheckpointTellsTruth` | 3 pieces, a buffer of 2 |
| `durable_reverify` | **violated**: `OkIsWhole` | 3 pieces |
| `reader_cancelwakes` | **violated**: `CancelWakes` | 2 bytes |
| `mirrors` | Ok is what was hashed, and the file itself where its hash is known; an error leaves no destination, no temporary file outlives the call, and one sound mirror among honest ones is enough (`EndsCleanly`); it returns | 1 or 3 mirrors, each up or down, honest or not, with or without Range; 4 blocks; hints of 0, 3, 4 and 6 blocks; 1 disk error at any step |
| `mirrors_hint` | **violated**: `AnApproximateHintSuffices` | as `mirrors` |
| `install` | the manifest vouches for no cut or changed file of its archive, and an operation that ends well has left whole what it installed, unless an optional archive that holds some of it failed later (`InstallsAreTruthful`), who keeps asking gets the required content (`AskingIsEnough`) | 3 packages (required, optional, local only), 3 downloads: an archive, a torrent of loose files that shares a file with it and lacks some of what it is said to provide, and a disc image; 2 recipes; one crash, disk error, damaged file and clean each |
| `parts` | reader: no byte is read before it arrived, no wake-up is lost, answers fit the map (`ReadsAreSound`); stealing: no byte lost, no two threads answer for one, whole when stopped (`RangesAreExact`); queue: no idle slot, first come first served (`QueueIsFair`); every call of the reader returns, all thieves and owners stop, and who waits for a slot gets one or gives up (`EveryoneGetsThrough`); session (`ActivationIsFair`): slots used and bounded, order of activation, events; metadata: arrives, whole and right, once the misdeeds are over (`MetadataArrives`) | 4 bytes, every range of them in every order, reads of 1 and 3 bytes; 3 threads, 11 bytes (a remainder in every division), chunks of 2; 4 peers, 2 slots, queue of 2; 4 downloads, 2 slots, 2 priorities, clock readings that may be equal; metadata of 2 blocks, claims of 0 to 4, 2 requests at a time, 3 misdeeds |
| `components` | one property for each module of the second table of section 2, see below | 2 or 3 of everything, limits that are reached; see `MCComponents.cfg` |

What `components` asks of each: a group has one master and a lost role is shown
no longer than a credential lives (`RolesAreSound`); a relay's count is that of its
circuits, within its capacity (`RelaysCountCircuits`); a choked peer is not passed
over for longer than the optimistic slot needs for the other choked ones, as long as the
order of the peers stays (`EveryoneHasATurn`); a piece is
not offered again while another was never shown (`DiversityFirst`); a peer is not
forgotten for one lost announcement as long as the intervals that really pass, delays of the
caller included, leave room for a second one (`LossesAreForgiven`); DHT tables and stores
hold their own network's, each contact in its bucket, and once unless an eviction put it in
beside itself (`TablesAreSound`);
the adaptive cache keeps budget, counts and lists apart, and the bridge's list is
its order of use (`CachesAreExact`); what is held against a peer survives crashes, failed
saves and restarts, and is lost only when a session that did not meet the peer saves
(`BlameIsKept`); nobody returns before ban and backoff are over
(`ReturnsAreEarned`); copies of a catalogue have the paths and contents of the manifest they
were planned from (`FollowersAreFaithful`); accepted announcements are an orderly,
bounded stream (`AcceptedInBounds`); a lock file that passes has one released version of every
dependency, which its requirement of now admits if that parses, and nothing else, and one just
written lacks only what `resolve` leaves to others (`LockIsSound`); an installation by Steam or Origin is not eclipsed by a
look-alike directory (`StoreIsNotEclipsed`); a command without errors has installed
what it names (`NoErrorMeansInstalled`); no peer and no transfer gets more than its
limit, what comes back in time and, for a peer, what its dropped buckets lacked
(`RatesAreKept`); the budget's counts are those
of the connections (`BudgetIsExact`); a migration between storages never shows
(`MigrationIsInvisible`); a dead mirror is tried again when it is due and pruned
only when long dead (`AnotherChance`); a pause loses nothing and no phase is
skipped (`LifecycleIsOrderly`).

Why the bounds are enough. Two workers give every race of a claim, a mark, a
book entry and an exit; the accounting bounds are stated for any number of
workers and checked at two, where the overshoot already occurs. Three pieces let
one be Done, one in flight and one Failed at a time, with endgame entered on the
way. Two faults allow a second crash during the recovery from the first. Four
bytes are the least that have two ranges apart with a gap that a third closes.
Three threads let two thieves meet on one owner and a thief be robbed. Three
mirrors give a winner and two losers in different places, and a segment with two
fallbacks. In `install` one mishap of each kind suffices to put any one of them
between any two steps, and all four may meet; the download of a required package
holds its test files there, without which asking would be in vain. Three misdeeds spoil each of two
metadata blocks and still leave one for the retry. In `components` the limits are
chosen so that they are reached and that there is one more who wants in: a pool of
one for two peers; three connections, of which two go to one peer, for two
established and one per peer; a budget of bytes below what four cache pieces
need, and one of 0; two circuits on one relay and one on the other; five DHT nodes
of two networks with buckets of two, of which one is asked to act and has three contacts for one
bucket, with two probes for the same newcomer; two users of one tiered piece of two blocks, with one
failing access. The bridge has one mirror and two callers, as what can go
wrong is between callers and a mirror that is left out. A manifest of two paths has every
combination of kept, changed, added and removed. `RecipeRun` owns four sources: two discs of
one game, which complete each other, one of another and a store's; these are the
layouts whose recipes share intermediate files.

Ages stop growing at the value beyond which the code no longer tells them apart
(`MaxAge`, `StaleTimeout`, `PruneAge` + 1 and the like), so clocks do not bound
those behaviours. The optimistic index of `Choking` is counted modulo `Cycle`, a multiple of
the length of every list of choked peers, of which the code uses the remainder only. Where there is a bound on events it is named: `Horizon`, `LastTick`, `MaxFailedSteps`,
`MaxHandles`, `MaxFaults`, `MaxErrors`, `MaxIssued`, `MaxEvents`, `MaxSessions`,
`MaxTicks`, `MaxVersions`, `MaxReleases` (entries of all packages), `MaxEdits`, `MaxCommands`,
`Askers`, `MaxSent` and `MaxProbes` (of the DHT: who is asked to act, messages, probes for one contact),
`MaxAnnouncements`, `LastSecond`, `MaxMisdeeds`. When a bound is used up and no
operation is left, `Rest` lets the part rest; it has no effect otherwise. Every run
looks for deadlock. Workers are symmetric in `coordinator_bulk` only, which checks
safety properties.

Fairness, and why the code justifies it:

- `Coordinator`: weak fairness of each worker and of the main thread (the
  operating system schedules threads, `fetch_piece` has timeouts), strong fairness
  of the steps that take the mutex (a worker waiting for a mutex that is released
  again and again gets it). Neither the caller's cancel nor the passing of
  backoffs is assumed to happen.
- `StreamingReader`: the reader's thread runs, a sleeper that was notified or whose
  time is up wakes, and time passes. Data need not arrive, and spurious wake-ups
  may happen but are not promised.
- `WorkStealing`: weak fairness of each thread; the swap loop gets no help.
- `UploadQueue`: a transfer that holds a slot ends. Nothing else.
- `MetadataExchange`: a request ends, with an answer or by its timeout, a free slot
  asks for a block that is needed, and complete metadata is verified. Peers
  misbehave a bounded number of times, which is what "some peer is honest in the
  end" means.
- `MirrorDownload`: weak fairness of the caller and of each thread; requests have
  timeouts (`make_agent`), so a request ends, with an answer or without.
- `ContentInstall`: an operation goes on; somebody calls `ensure_required` again and
  again (strong, since another operation may be running whenever they try); and
  the download of a required package that is tried again and again is fetched in the end,
  which is what "mirrors are back one day" means. Crashes, errors and damage are never fair.

`components` checks safety only: its initial states and steps are given without
fairness. What must happen "in time" there is stated as a bound (`EveryoneHasATurn`,
`AnotherChance`, `LossesAreForgiven`) and needs none.

## 4. Proofs

The proofs hold for every value of the constants that satisfies the named
assumptions of the modules: a finite set of workers, connections or hosts, any peers,
piece counts, limits and times. Most assumptions only give a constant its type; those below
relate constants or say that something exists, as the code does; TLC evaluates all of them: `LimitsAssumption` (a chunk is no
larger than the burst that a throttle always has), `LanAssumption` (an entry is not stale
before an interval of announcement is over: 600 s against 300 s), `PoolAssumption` (a first backoff
is at most the greatest, and a peer is not stale before it is evictable),
`RelayAssumption` (every relay states a capacity), `MirrorAssumption` (at least one mirror
and one byte), `StealingAssumption` (at least one thread, which the code asserts),
`MemoryAssumption` (a first exclusion lasts, and at most as long as the longest: 900 s
against 3600 s), `HealthAssumption` (a mirror dies after one failure at least, and the ages
of the model outlast both intervals), `ChokingAssumption` (`Cycle` as above, and an interval
of one evaluation at least), `DhtAssumption` (ids differ in bits below `Bits`, and a bucket
holds one contact at least), `CachesAssumption` (the unit and the least number of ghosts
are positive: 256 KiB and 16). `InstallAssumption` says that what the tables name is in the
tables. `RecipesAssumption` states facts about the recipes of the program, which
`ContentCatalog` has as they are; no instance could choose others.

`CoordinatorProofs`. `TypeCorrect` and `ClaimsAreExclusive` are proved together:
a step keeps types only because a worker that holds a piece holds a valid index.
`OneHolder` says more than that two workers never hold a piece: it also says that
a held piece *is InFlight*, without which a claim by compare-and-swap could hit a
held piece and it would not be inductive. `DataComesFirst` (`DoneIsWritten`) needs
`Stored`: a worker at `mark` has written its piece. `SuccessIsTrue` is the deep one.
`run` tests for a *Failed* piece, not for completeness, so the proof must
show that no piece is left Needed or InFlight without a reason to return an
error. The invariant `Watched` says so while workers run: unless cancelled or
fatal, whatever part of the map a worker in its exit test has passed
(`cursor`) is not left behind Needed or InFlight without a worker that is still
responsible for it; `LooksFromStart` says the exit test starts at
the first piece, `Ended` that a result exists only after all workers left. The
inductive invariant `Inv` is the conjunction of all these. `Refinement` shows with
`Inv` that each step is a step of `PieceLifecycle` or a stutter, with the identity on
`map` and `written` and all errors mapped to "error".

The second part: `LimitsHold` (`LimitsAreKept`) and `RecordHolds` (`RecordKeepsUp`).
The books lag behind the map: a worker marks a piece Failed, another resets and claims
it, and only then the first counts the failure (`book`). So a piece may fail more often
than its limit, by as many as there are other workers. `FailuresBounded` counts the
failures that are not in the books yet together with those that are, and `RoomToFail`
says that a piece which may fail once more has room for it; `MismatchesBounded` does the
same for a peer and the workers that it serves. Why `AllPeersFailed` means that every
piece left is out of retries (`GiveUpIsExhausted`): `SweptLater` says of each Failed piece
with retries left that some worker still has the sweep before it, or the part of it where
the piece is, which rests on `SweeperHasMutex` (one sweep at a time, with one of the two
limits) and `Rewound` (whoever is not in a scan starts at the first piece). `SavedSoon`
gives the record: a Done piece that is not in it has a worker about to save it.

`DurableProofs`. Under `Ordinary` (no coalescing; hazards among crash, cancel,
error and failed save) the inductive invariant `IInv` gives `CheckpointsAreTrue`,
`OkMeansWhole` and `RecordsAreKept` for any number of pieces and faults. It adds
to the properties that nothing is buffered, that an absent file has no data and
no run over it, and that nothing is under way outside a run. The crux is
`RunTrustsTheRecord`: with a truthful record and a fresh map, either something
is restored, and the file is opened as it is, or nothing was recorded and
truncating loses nothing. The hazards left out are exactly those for which the
runs, or section 6, show the property false.
`WorkSurvives` (`WorkIsKept`) has no such condition: any storage, any buffer, every
hazard. A run that ends Ok has made durable what it downloaded itself, and no piece on
record is downloaded again. `OwnWorkIsKept`: what the run accepted and did not take over
is in the file, or, if the storage buffers, synced or still in the buffer, unless an error
dropped it, and then the run does not end Ok. `RecordIsDone`: what is on record is Done.

`MemoryProofs`. One part for each component that remembers.
`RolesHold` (`RolesAreSound`) for any people, lifetime and skew. That a
role lapses is not inductive in the terms of what is still accepted: the invariant
`OlderThanTheChange` is about every credential there is. Either its subject has
the role it shows, or the role was lost when the credential had already been
issued: what it has lived is at least what passed since. `RolesMove` is all a step
of the roster does to that: a change of role starts its time afresh.
`BlameHolds` (`BlameIsKept`) for any thresholds, exclusions and sessions: `MemoryInv` relates
three places. What the file has against the peer is at most what the session was given
and counted itself (`OnRecord`), and what a save in progress is writing is exactly that, or
nothing, if the session did not meet the peer.
So a rename loses nothing of a peer that was met, and a crash or an error before it goes on
from the file. That an exclusion
is not shortened by a new one needs that it ends within its own backoff from now: the
next backoff is at least as long. `MirrorsHaveAChance` (`AnotherChance`) for any mirrors and
intervals: `DeathIsDated` says that the age of a present death lies between the time the
mirror has been left out and the time nothing was heard of it, and that a dead mirror
has a standing reason to be dead, so that a late failure neither revives nor redates it.
`LifecycleHolds` (`LifecycleIsOrderly`): `StatesInv` says that a paused download holds the
state it was in, which was not an end, and that seeding and completion had a download.
`CommandsHold` (`NoErrorMeansInstalled`) for any set of owned packages, commands and faults:
`JobInOrder` says that a command takes each package of its source at most once, and is at one of
its actions; `Through` says of the first actions of a recipe that what they write is
whole and what they delete is gone, unless a later one writes it again; `SoFarSoGood` that
a command without errors is through the actions before the one it is at, and has delivered
the packages before. A package stays delivered while the others of its source are
installed, which is what `RecipesAssumption` is needed for.
`ReadsHold` (`ReadsAreSound`) for any file size, arrivals and prebuffering. `ByteRangeMap::insert`
looks for its place, merges what follows until the first range that starts later, and stops:
that one pass is enough because the map is `Tidy` (sorted, with a gap between
neighbours), so that what it passed over ends before the new range begins and what it did not
reach begins after the merged one ends. `ReaderInv` adds what holds of the thread: from the
test of the condition to the sleep it has the mutex, so what it found is still so
(`FoundStillSo`); a sleeper for whom that changed has been notified.

`NetworkProofs`. One part for each component around the engine's core.
`BudgetHolds` (`BudgetIsExact`): the counts alone are not inductive, as a release would be
free to take what another holds; `SlotFitsPhase` says that the slot follows from the
phase, `CountsAreExact` that the counts are cardinalities, and `HeldIsCounted`
follows, so the saturating subtraction of `budget.rs` never saturates.
`ReturnsHold` (`ReturnsAreEarned`): `WaitsOut` says that what a peer still has to wait and
the time since it left are together at least its backoff, through evictions, pruning and
updates. `RatesHold` (`RatesAreKept`): `BucketsCover` says that what a key was granted and has
neither come back nor been forgiven is at most what its bucket lacks, and that a key without a
bucket owes nothing: dropping a bucket forgives what it lacked at that moment, which is
nothing once its refill is complete; `ThrottleCovers` bounds
the debt of a throttle together with the chunks that are granted and not paid yet.
`RelaysHold` (`RelaysCountCircuits`): a count equals the circuits through a relay because
ids are unique and below the next one (`IdsAreUnique`), and every circuit has its relay in
the list (`CircuitsHaveRelays`). `NeighboursHold` (`LossesAreForgiven`): `Hears` bounds the age
of an entry by the time since the last announcement, and by one interval more, with the longest
delay of an announcement so far, after a loss.
`TurnsHold` (`EveryoneHasATurn`) for any peers, speeds, slots, intervals and ways of scaling
the slots: the wait of a choked peer is not bounded by itself. `TurnComes` bounds it by the
number of places that the optimistic slot still has before it has come round to that peer;
each rotation takes one place, or serves the peer.
`TablesHold` (`TablesAreSound`) for any ids, networks and sizes of buckets: `DhtInv` adds what
is in flight. What is sent carries a network and an id, and only what was checked against
the own network reaches a table, however late. `HighestBit` gives every other id
exactly one bucket; a bucket that is full takes a newcomer only in the place of one that a
failed probe removes. `EachIsOnceBut` is kept by all that `insert` does, which looks first, and
an eviction, which does not look, notes whom it may have put in twice.
`SeedingIsDiverse` (`DiversityFirst`): `SeedInv` says that a piece in an open offer is among
those that were offered, whatever was retained, expired or withdrawn in between. So a piece
that was never offered is not in an open offer of any peer, the first such piece is taken
whenever there is one, and the choice by spread is reached only when there is none.

`MirrorProofs`. `DownloadsEndCleanly` (`EndsCleanly`) for any mirrors, size, hint and number
of errors of the file system. `MirrorInv` follows the files: `WinnerFits` (one thread wins,
and is gone when it has), `FilesFit` (which temporary files there are, by the places of
their threads and of the caller), `ContentFits` (what is in a file is what was hashed),
`FineContent` (if only mirrors fail and none serves wrong bytes, a finished segment is
its part of the file, and what was hashed is the file if the hint is exact) and
`FineMirror` (a mirror that can serve has not failed before another has won, and no
segment has tried it in vain). `AssembledIsRight` is about the assembly: that the
segments one after the other are the file is an induction over their number
(`NumbersByInduction`, from least elements, as library theorems with an operator
parameter cannot be used).
`CopiesFollow` (`FollowersAreFaithful`) is about the copies of a group's catalogue, for any
paths, mirrors, policy and manifests. That `diff_manifests` finds the difference rests on
where its two iterators are: whatever is behind the one comes before whatever is ahead of the
other (`Between`), and the changes so far have made of the old list the mix of what is
behind in the new and ahead in the old one (`Mixed`, `Effect`), up to the info hashes of what both have. A round that is not the last moves an
iterator, so both lists are at their end after as many rounds as they have
entries (`DiffWorks`). Of a plan half carried out `PlanIsFor` says that it is still a plan for its
manifest: a file within the policy is as the manifest has it, or a step is left that will
make it so. A mirror that fails, restarts or gets another manifest starts from whatever
files it has by then, which is all that a new plan asks for (`PlanSyncPlans`).

`RaceProofs`. `MigrationHolds` (`MigrationIsInvisible`) for any pieces, blocks,
threads and failing accesses. The inductive invariant gives every place between
two accesses what its thread relies on ("the piece is whole on the hot storage",
"the hot storage has what I read"). Nothing a thread relies on can become false,
because the hot storage keeps what is demoted and a promotion writes only what
is there already; that is the lemma which every step cites. It is also what the
code would lose if `demote` freed the space it is meant to free.
`RangesHold` (`RangesAreExact`) for any threads, bytes, chunks and minimum. What a task may
still come to answer for is its territory: from its first start to its end, which only
falls. `NothingTwice` says that territories and hauls stay apart, for whatever a thief
still believes of the start, the swap cuts the haul off the top of one territory;
`NothingLost` that every byte is fetched, in a haul, or in what a task has left;
`ThiefHasRead` what a thief may rely on between its loads and its swap. That an owner
downloads bytes which a thief takes meanwhile does not disturb either.
`CachesHold` (`CachesAreExact`) for any pieces, lengths, budgets and capacities. While it makes
room the adaptive cache may be over its budget, but it is `Sound`: the four lists are apart
and without repetition, the first two are what it holds, and the count is the number of
their bytes. A round of eviction keeps that, adds nothing to what is known and takes one
piece off the lists, so there is room or nothing left after as many rounds as there are
pieces (`RoomIsMade`). For the bridge's cache `ListsWhatItHas` says that its list has no repetition,
is what it holds, and that the two lengths agree.
`SessionIsFair` (`ActivationIsFair`) for any slots, priorities and downloads. A round of
`activate_queued` starts the first of those that wait in the order of priority and age, and
nothing else; so after any number of rounds what has started goes before what waits,
the events name exactly what has started, and as a round takes one download out of the
queue, no slot or nobody is left after as many rounds as there are entries
(`ActivationActivates`). Every method that frees a slot or fills the queue ends with that loop.
`SlotsAreFair` (`QueueIsFair`) for any peers, slots and length of the queue: the queue is in the order
in which its peers joined and has each of them once (`InLine`), nobody is in both lists
(`Strangers`), and a slot is free only while nobody waits.

`InstallProofs`. `InstallsHold` (`InstallsAreTruthful`) for any packages, downloads, recipes
and tables, archives that hold the same files, and any number of crashes, disk errors,
damages and cleanings. `ArchiveFits` follows an archive entry by entry: before the present
entry all is whole, and after extraction all of it is, which is why the manifest is
written then. `InstalledIsWhole` is what an Ok rests on: what the operation installed
before is whole but for the files that the archive at hand is writing over (`AtWork`),
which it makes whole again if it ends well, by peers or by mirrors; if it does not, its
failure ends the operation or, when it was optional, takes its files out of what the Ok
says. `TaskFits` adds that recipes and downloads never share an operation. TLC found that
without that exception, and without restricting the manifest to the files that the
archive holds, the property is false of the tables as they are (section 6).

`WorkshopProofs`. `LockHolds` (`LockIsSound`) for any packages, versions and edits: a lock
file passes when its entries fit the dependencies; that it has as many, and each of a released
version, needs where its entries came from. `LockAnswers` says that there is an assignment of
the entries to the dependencies that were resolved, each of which its entry answers, and
`NamedOnce` that no dependency is named twice. `AcceptedHold` (`AcceptedInBounds`) for any
publishers, sources, windows and limits: `WasGenuine` (what was accepted was signed,
and not ahead of the clock of its time by more than the drift), `KnownIsLast` and `InOrder` (the sequence known of a stream is that of its
last accepted announcement, and they rise by no more than the greatest jump), `LogCounts` (the log of
a publisher has a time for each announcement that was accepted within the window) and `FewAtATime`.

With these every safety property of the passing runs but one has a theorem. Only model-checked
is `StoreIsNotEclipsed`: it is about the fixed tables of sources and a list of machines, all of
which TLC goes through, so there is nothing to prove for other values. And the liveness
properties, for which the prover has no means: `Returns` of the coordinator and of the mirrors,
`EveryoneGetsThrough`, `MetadataArrives` and `AskingIsEnough`. Induction is
within reach only over numbers, written out with least elements as in most of the proof
modules. What a loop computes is proved where the loop is written as a recursive function over
numbers (`Activation`, `Diff`, `Patched`, the eviction of `PieceCaches`); what folds over
sets compute is checked by TLC over bounded inputs.

## 5. What is abstracted

- Scores, speeds, rarity and clocks only rank peers and pieces: the models allow
  every choice among those the code may choose from, so the properties do not
  depend on ranking. Where the ranking is the point (`Choking`, `SuperSeed`, `PeerPool`
  eviction) it is modelled, over few values.
- Bytes of a piece are right or wrong; hashing detects wrong bytes. Signatures are
  not forged: a manifest or a credential is what its issuer made.
- The resume file's temporary file and rename are one step in `DurableDownload`: a
  torn temporary file is never read by the code. `PeerMemory` takes the two apart
  for the `.peers` file.
- The reader's buffer policies are the constant `MinPrebuffer`.
- Loads by which `steal_from_largest` ranks victims are one step; a stale rank only
  changes who is tried first. The thread loop around the scheduler is the one
  its module documentation describes.
- `MirrorDownload`: a file that is being written is empty until it is complete, as
  nobody reads less; messages of failed racers carry only a text and are left
  out; removing a file is taken to work.
- `ContentInstall`: one operation at a time; two processes in one content
  directory, which nothing in the code prevents, are not modelled. A file is
  absent, cut, good or bad. An archive is the list of files that its extraction
  creates, of a zip its entries; a disc image that came as a torrent creates none, and its
  extraction fails (section 6).
- `Bridge`: phi is compared with its threshold through the square of the deviation
  (`MinStdDev`, `DeadY2`), in whole ages. `MirrorHealth`: tiers that only rank are one.
- `ContentCatalog`: groups of files that every table names together; offsets and
  sizes of raw extractions are part of an entry's name.
- Structures behind a mutex that is held throughout a method (`PieceCaches`,
  `PeerPool`, `Choking`, ...) take a step per method. `Tiering`, `RateLimits`, `Bridge` and
  `MirrorHealth`, whose uses span several calls, have steps between them.
- `LocalDiscovery`: an announcement that is sent is heard at once or never; delays are those of
  the sender, who polls.
- `PeerMemory`: the exclusion counts beside the reputations are numbers of the caller's that
  are saved and loaded, and that nothing reads (`resume.rs:423`).
- `ContentCatalog`: each game has its own content directory (`query.rs:124`). With one directory
  given for several games (`--content-dir`), files of two games with the same name, such as
  `scores.mix`, replace each other; that is not modelled.

## 6. Where code and documentation disagree

Four disagreements have runs whose property is what the documentation says:

- `durable_buffered_cancel`: the storage is said to be flushed at checkpoints
  (`storage.rs:30`); it is flushed at completion only, so a cancelled run leaves a
  record that names pieces lost with the buffer.
- `durable_reverify`: `new_resume` marks verified pieces done, then `run` finds nothing
  new in the record, takes the run for a fresh one and truncates the file.
- `reader_cancelwakes`: `cancel()` stores its flag and notifies without the mutex; a
  reader between its test and its sleep misses both and sleeps out its timeout.
- `mirrors_hint`: `size_hint` is "approximate ... for progress display" (`lib.rs:590`), and
  `segmented_download` asks for exactly the ranges of a file of that size. With
  mirrors that all work the download fails by hash, or because no mirror can
  serve the last range; without a hash a truncated file is accepted.

Met while modelling and kept in the models as the code has them, without a run:

*Engine, core.* A piece is retried beyond `max_retries_per_piece` by up to one per
other worker (bounded by `LimitsAreKept`); a rate-limit answer that arrives after a
permanent refusal replaces it (`peer_stats.rs`); a coalescing threshold of 0 buffers
for ever (`storage.rs`); a write error while the buffer drains drops what follows
it; nothing is synced at a checkpoint, so a power cut outdates the record; the
record is trusted when the output file is gone; the reader's fast path ignores
the cancel flag; the swap of `steal` looks at the end only, so bytes can be
downloaded twice (never by two answerable threads); `is_complete` of the
scheduler does not see stolen ranges; `max_by_key` starts the *last* of equal
downloads; `fail()` of the session turns a completed download into an error; a piece
that fails on a peer may be retried on that peer, since it is marked Failed before
the peer is recorded (`coordinator.rs:786`, against line 23).

*Engine, around the core.* A mirror that the bridge's detector suspects is never
asked again, and only an answer lowers the suspicion (`bridge.rs:259`, against
176-181); a hit of the bridge's cache is counted and then answered from a mirror all
the same (`bridge_peer.rs:146-154`); `reconnect` does not look at `max_peers`
(`peer_pool.rs:201`, against 71); an exclusion that a restart interrupts starts
afresh from the saved count, and is not served to its end (`peer_stats.rs:950-952`);
an older manifest that arrives late is planned from, and rolls a mirror back
(`catalog.rs:140`); a status report of a relay overwrites the own count of circuits
(`relay.rs:249`); `release_established` lowers the total for a peer that has no
connection (`budget.rs:159` says it does nothing); no timeout applies in
`BitfieldExchange` (`connection.rs:370-387`); the size of the metadata that the
first peer claims is never given up, so a wrong one keeps the metadata away for
ever (`metadata_exchange.rs:208`); a failed probe of a mirror does not restart the
interval, and the mirror is offered at every selection from then on
(`mirror_health.rs:310`, against 76); `evict_and_insert` of the DHT removes whoever
is oldest when the probe has failed, not who was probed, and does not ask whether the
newcomer is there by then, so that two failed probes for one contact store it twice
(`dht.rs:228`); removing the bucket of a peer that disconnects gives it a second burst
when it returns, and so does an eviction whose cutoff is nearer than a full refill
(`rate_limiter.rs:219,237`); a peer on the LAN is stale after 600 s and announces itself when its
caller polls after 300 s: any delay makes one lost announcement enough to forget it
(`local_discovery.rs:222`); a session that saves without having met a peer erases the peer's
record, a ban included (`peer_stats.rs:1026`, `resume.rs:455`), and the exclusion counts that are
saved and loaded are given to nobody; a change of an entry's info hash alone is neither in the
difference of two manifests nor in a plan (`manifest.rs:483`, `catalog.rs:170`); `plan_sync`
deletes only what its policy covers, as the comment inside it says, while its documentation
promises the deletion of each local entry that is not in the manifest (`catalog.rs:113`).

*Engine, not modelled.* `next_retry` of the piece validator removes the entry it
answers for, so the next failure starts again at 0 and `max_retries` is never reached
(`piece_validator.rs:226-270`); `find_corrupt_leaves` builds its tree from the
corrupt data itself and can find nothing (305-322).

*Workshop.* `is_consistent_with` looks neither at the source of a dependency nor at a requirement
that does not parse: a dependency that moved to git, or whose requirement was broken by an
edit, still passes, though `resolve` would not write that lock file; and a lock file of a mod
with a dependency from elsewhere never passes, as `resolve` leaves that one out
(`workshop-resolver/src/lib.rs:190-233`, 295-312). After a gap above `max_sequence_jump` every later announcement of the
resource is refused for ever, as only an accepted one raises what is known.

*Application.* A package counts as installed when its test files exist, so
one that was cut short by a crash is never fetched again by `ensure_required`;
`cmd_verify` (`status.rs:177`) compares the files with a manifest it has just
generated from them and can find no damage, against `orchestrate.rs:286`; each
download overwrites the manifest with its own files only, and a local
installation writes none; an ISO that falls back to HTTP is handed to
`extract_zip` and fails; the peers' archive stays behind when its extraction
fails; segment files stay behind when their assembly fails; a racing mirror that
serves wrong bytes first makes the download fail by hash although others are
sound; disc files of Tiberian Dawn that lie in the Steam edition make it match the
disc sources as well. An optional download that fails under `download --all` is a
warning, also when it has cut a file that a required one had just installed: the
Red Alert discs and the quick install both bring `RaBase` (`data/downloads.toml:68,177`).
A download need not hold what it provides: three of Tiberian Sun are zips that hold an image
(`data/downloads.toml:464-494`), whose extraction leaves the image and installs
nothing, and an image for which no recipe fits is Ok with no file
(`downloader/extract.rs:134`), while one for which a recipe fits always ends in an error, as the
recipe is run with the image's file for its source directory (152), which `execute_recipe`
refuses (`executor/mod.rs:94-98`); the manifest then records whatever lies there, a file
that was cut short by an earlier crash as well.

## 7. Not modelled

The map covers about a sixth of the repository's lines. Some 62 % of the lines are
tests, comments and documentation; of the rest, about 25,300 lines of code, the map
covers more than a third. What remains has no state that several steps share, or
is called by nothing:

- *Parsers, encoders and value types*, which read bytes and keep nothing: bencode,
  wire messages, handshake, tracker answers, PEX and URL-PEX messages, torrents and
  their creation, PEM, Merkle trees, bit fields, peer ids, network ids, content
  descriptors, VDF, ISCAB, and the readers of ZIP, MIX, BIG, MEG, BAG and ISO inside
  `executor/extract.rs`. An archive entry is there or not, a message says what it says.
- *Configuration, display and wrappers*: `config.rs` (defaults and validation of
  single numbers), error types and their texts, both command lines, the progress
  bars, the C interface, `status`, `list` and `identify`.
- *Measurements that only rank*: `adaptive.rs`, `bandwidth.rs`, `selection.rs`,
  `priority.rs`, `peer_affinity.rs` and the scores of `peer_stats.rs`. The coordinator's
  model allows every choice they could make.
- *Building blocks that nothing calls* and that keep a single table with getters:
  the piece validator, the corruption ledger, `EndgameManager`, `PartitionRecovery`, the
  fast extension, obfuscation, the caches of URL exchange, the downloader's own
  mirror tracker, the incremental verifier. `src/streaming/reader.rs` is an older copy of
  the engine's reader that no module compiles.
- *What only reads*: scrubbing, `verify_installed_content`, `cmd_verify`.
- *Adapters to other software*: librqbit (`btswarm.rs`), HTTP peers (`webseed.rs`),
  gateways. Their answers are the free choices of the models that call them. So are
  the blob store, the index client and the resource formats of the Workshop.

## 8. Plan

1. (done) `PieceMap`, `PieceLifecycle`, `Coordinator` with refinement and proofs;
   `DurableDownload` with proofs; `ByteRanges`, `StreamingReader`, `WorkStealing`,
   `UploadQueue`, `DownloadSession`; `MirrorDownload`, `ContentInstall`.
2. (done) The components around the core: pool, connections, choking, super-seeding,
   rate limits, caches, tiering, relay, bridge, mirror health, groups, DHT, local
   discovery, metadata, peer memory, download states; sources and recipes over
   the tables as they are; Workshop updates and registry. Proofs for roster,
   connections and tiering.
3. (done) Proofs of `LimitsAreKept`, `RecordKeepsUp`, `WorkIsKept`, `EndsCleanly`,
   `ReturnsAreEarned`, `RatesAreKept`, `RelaysCountCircuits` and `LossesAreForgiven`.
   Proofs of `RangesAreExact`, `BlameIsKept`, `AnotherChance`, `LifecycleIsOrderly` and
   `InstallsAreTruthful`.
   Proofs of `LockIsSound`, `AcceptedInBounds`, `TablesAreSound`, `EveryoneHasATurn`,
   `NoErrorMeansInstalled`, `CachesAreExact`, `ReadsAreSound`, `ActivationIsFair`,
   `QueueIsFair`, `DiversityFirst` and `FollowersAreFaithful`: every safety property of the
   runs but `StoreIsNotEclipsed`.
4. A property for the recovery of the bridge's mirrors, once the code has a way back
   for them.
