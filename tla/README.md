# nsncd in TLA+

A verification project for nsncd, the name service non-caching daemon: TLA+
modules for its start-up, its threads, its protocol, its host lookups and its
configuration, TLC runs on small
instances, and TLAPS proofs for all instances. Paths are relative to the
repository, so `src/main.rs` is the daemon's main file.

## The system

nsncd listens on `/var/run/nscd/socket`, reads one request per connection, asks
the libc it runs with, and writes one reply. It caches nothing.

| Component | State | Operations | Talks to |
|---|---|---|---|
| work group, `src/work_group.rs` | the closures, a `Mutex<Option<usize>>` with the first thread to exit, a condition variable | `add`, `run`, `Context::drop`, `Context::is_shutdown` | its threads, through the mutex and the condition variable; `main`, through the result of `run` |
| daemon threads, `src/main.rs` | the rendezvous channel (`bounded(0)`), its one `Sender`, the listener, who owns which stream | `spawn_acceptor`'s loop, `spawn_workers`' loops, `main` after `run` | clients through the socket, each other through the channel |
| connection handling, `handle_stream` | the stream and a 4096 byte buffer | one read, parse, handle, write, shutdown | the client; protocol; handlers |
| protocol, `src/protocol.rs` | none | `Request::parse`, the `repr(C)` reply headers | connection handling, handlers |
| request handlers, `src/handlers.rs` | none | `handle_request`, five serializers | nix, dns-lookup, `src/ffi.rs` |
| configuration, `src/config.rs` | ignored request types, worker count, handoff timeout | `Config::from_env`, `should_ignore` | the environment; main, handlers |
| libc host lookups, `src/ffi.rs` | a buffer that grows | `gethostbyaddr_r`, `gethostbyname2_r`, decoding of a `hostent` | glibc |
| nscd recursion guard, `src/ffi.rs` | none | `disable_internal_nscd` | glibc |
| start-up and supervision, `main` and `nsncd.service` | the socket file, systemd's view of the service | bind, permissions, `READY=1`, restart | the file system, systemd |
| logging, packaging, CI | not part of the behaviour | | |

What is hard about it, and what makes each part correct:

* **Work group.** The first exit decides how the process ends. Threads may exit
  at the same time, while `run` still spawns, between its test and its sleep,
  and it joins while holding the mutex. Correct: the first exit is kept and
  noticed, its result and all the other handles are returned, the join cannot
  deadlock.
* **Daemon threads.** A stream changes owner against a timeout; a shutdown
  begins in the acceptor, in a worker's panic or in a failing spawn, at any
  moment of anybody's work; workers do not look at any flag. Correct: a stream
  has one owner, nobody is cut off by a graceful exit, nobody waits for a thread
  that will not end, the listen queue is not left standing.
* **Connection, protocol, handlers.** Bytes arrive in pieces, lengths are signed
  and supplied by the client, replies describe themselves. Correct: a request is
  acted on only as it was sent, and the client reads from a reply what the
  lookup found.
* **Host lookups.** glibc is called again with a larger buffer until it fits, and may
  say something else each time; the error number outlives the call that set it.
  Correct: the client learns what the last call said, no answer below the limit is
  given up, the retries end.
* **Start-up.** A process may die between any two steps of its boot and leaves its
  socket file to the next; clients connect meanwhile. Correct: READY means reachable,
  some later process serves again, nobody waits for a dead one.
* **Configuration.** The environment has no order and may hold duplicates.
  Correct: exactly the valid environments are accepted and mean what is
  documented.

`PROJECT.json` lists the hazards one by one, each at its line.

## Modules

| Module | Role |
|---|---|
| `WorkGroup` | `src/work_group.rs` |
| `WorkGroupProofs` | its theorems |
| `Service` | abstract specification: what a client of the socket can meet |
| `ServiceProofs` | its theorems |
| `Daemon` | `src/main.rs` from `wg.run()` on; composes `WorkGroup` (by INSTANCE) and is shown to implement it and `Service` |
| `DaemonProofs` | its theorems, which use those of `WorkGroupProofs` and `ServiceProofs` |
| `Protocol` | request types and `Request::parse` |
| `Handlers` | `handle_request` and the serializers, over the result of a lookup |
| `GlibcClient` | external: the reader of replies |
| `ReplyProofs` | theorems about `Handlers` as read by `GlibcClient` |
| `HandleStream` | `handle_stream`, on top of the three above |
| `HandleStreamProofs` | theorems about `parse` and `handle_stream`, which use those of `ReplyProofs` |
| `HostLookup` | the host lookups of `src/ffi.rs`, composed with `Handlers` and `GlibcClient` |
| `HostLookupProofs` | its theorems, which use those of `ReplyProofs` |
| `Startup` | `src/main.rs` up to `wg.run()` and `nsncd.service`; composes `Service` (by INSTANCE), one incarnation after the other |
| `StartupProofs` | its theorems |
| `Config` | `Config::from_env`, on top of `Handlers` |
| `ConfigProofs` | its theorems |
| `MC*` | constants and symmetry for TLC |

Operators whose comment starts with "mutant" are deliberate bugs: none is part
of a specification, and `PROJECT.json` says which property notices which.

### How the state corresponds to the code

`WorkGroup`. `data` is the `Option<usize>`, `handles` the vector of handles by
thread number, `run` the place of the caller in `run()`, `result` what it
returns; `pc` and `outcome` say for each thread where it is and how its closure
ended. `Context::drop` is two steps: the statement that locks, records and
unlocks (`ContextDrop`) and the notification (`Notify`). The guard in a thread
lives for one statement, so its critical section is one step; `run()` keeps its
guard over several, which is what `lock` is for. A panic cannot happen while the
mutex is held by a thread, so poisoning is not modelled: the `unwrap`s on `lock()`
never fail. A `Context` is created inside its thread, so a closure that was never
spawned records nothing.

`Daemon`. Threads are numbered as `main` adds them: workers first, the acceptor
last. `loc` is the place in a closure, `held` the `UnixStream` a thread owns, `tx`
whether the only `Sender` lives, `listener` whether the socket is open, `why` the
reason for which the acceptor left its loop, `joined` how many handles `main` has
joined, `exit` how the process ended. `conn` follows each connection from
`connect` to its end, `peer` what its client did. Initially the socket is bound
and all closures are added. The drop order at the end of a closure matters and is
kept: the stream, then (for the acceptor, explicitly) `tx`, then the `Context`,
then what the closure captured: the listener, a worker's receiver. Taking the
next stream, reading, handling and writing are separate steps, so everything else
can happen between them. Only the shutdown check takes the mutex. Requests are
abstract here: parsing and handling succeed, fail, panic or (handling) do not
end, by choice.

`Service`. `conn` as above and a `phase`: serving, draining (the acceptor has left
its loop), closed (no listener), exited (`main` returned Ok), aborted (`main`
panicked). `Daemon`'s refinement mapping computes the phase from `exit`, `listener`
and `why`; `conn` is the same variable.

`Protocol`. A buffer is its length and the three integers at its start. `I32Max`
is a constant, so TLC explores a narrow integer completely and the proofs hold
for every width, 32 bits included. `OverflowChecks` distinguishes debug from
release builds, where `12 + key_len` wraps.

`Handlers`. A reply is a sequence of cells, four byte integers or single bytes, so
that a misplaced field is visible; strings are sequences of bytes. A key is its
length and which of the conversions `CStr::from_bytes_with_nul`, `to_str` and
`atoi` succeed on it. Lookups are made by nix, dns-lookup and glibc; their results
are inputs, of the types given at the top of the module (`UserResult` to `HostResult`); a
`hostent` has addresses of one family, as `from_libc_hostent` makes them. Lengths are cast
`as i32` in the code and assumed to fit. Empty replies, errors and panics are told apart.

`HandleStream`. `at` is the place in `handle_stream`; `sent` and `arrived` are the
message and how much of it is at the socket, `gone` the client's hang-up; the
other variables are the function's locals and what the client received.

`HostLookup`. `capacity`, `herrno` and `hostent_result` are the locals of the two functions
in `src/ffi.rs`, `said` what glibc made of the last call, `reply` what `handle_request`
makes of the result. `ty` is the request, which decides between `gethostbyaddr_r` (with a
limit) and `gethostbyname2_r` (without). One step is a call of glibc, the growth of the
buffer, or the way out with decoding and reply. The buffer is always empty, so
`reserve(capacity * 2)` exactly doubles it. A `hostent` is a record of C arrays, sequences
in which a null pointer may be followed by other memory. glibc is external: too small
a buffer gives ERANGE, a null result and `NETDB_INTERNAL`; a success sets the result and
leaves or clears `h_errno`; otherwise `h_errno` is set; each call may answer differently.
A buffer that cannot be had panics (past `isize::MAX`) or aborts the process. `CString::new`
cannot fail here, as the key was already read as a C string.

`Startup`. `at` is the place in `main`, one per step that can fail, `file` what is at the
socket path (nothing, a socket with the mode bind gave it, one with mode 777), `ready`
whether systemd has READY from this process; `conn` and `phase` are `Service`'s, and a
connection gets into the queue only if the file lets its client through and a listener is
behind it. Spawning closures into the group before `run()` has no effect outside and is part
of the steps around it. `Crash` stands for panics, signals and systemd's own kill of
a process that is not ready in time. While `main` is in `wg.run()` and after, the process takes
the steps of `Service`, which `Daemon` implements.

`Config`. One step per entry of `env::vars()`, then the two integers. Of a value it
matters whether it is Unicode, parses as a bool, or as a usize, and to what.

## Runs

| Run | Instance | Shows |
|---|---|---|
| `work_group` | 3 threads, fair | `run()` reports the first exit, returns each other handle once, does not deadlock in the join, and misses no exit |
| `daemon_safety` | 2 workers, 3 connections (symmetric) | one owner per stream; only a timeout or an accept error starts a graceful exit; the channel is closed before `main` joins; the daemon implements `Service` and `WorkGroup`; one discard at most, nobody cut by a graceful exit, a connection ends once |
| `daemon_threads` | 1 worker, 3 connections, fair threads | the listen queue drains and idle workers finish, whatever clients and lookups do |
| `daemon_responsive` | 1 worker, 2 connections, fair threads, clients, lookups | a shutdown completes; every client is released |
| `stream` | lengths around 12, the buffer and both ends of an 8 bit integer; each type, key kind and answer with strings and lists of up to 2 | a worker acts only on what was sent in full; replies decode to the answer; lookups are answered |
| `config` | all environments of up to 3 entries | accepted, refused and ignored exactly as documented |
| `host_lookup` | the sizes of the code (1024 bytes, limit 10 000 000), memory for 64 MiB, answers of sizes around 1024, the limit, the last buffer of each function and past all memory; hostents of known, unknown and inconsistent kinds | the client sees the last answer; an answer is given up only past the limit, by an address lookup, whose buffer stays below twice the limit; the retries end |
| `startup` | 3 connections, one privileged, any file left behind, unlimited restarts, fair | READY means reachable; the daemon serves again after every end; nobody waits for a dead process |

Why the bounds are enough to be of interest. Three threads give a first exit, a
second that races it and a third that goes on. Two workers and three connections
give a worker that hands back while another works, a stream in the acceptor's hand
and one in the queue; with one worker and three connections all of a stuck worker, a
timed out handoff and a waiting client are there at once. The narrow integer has
room for the header, the longest key and a buffer that is shorter than both, and
for sums that wrap. Two aliases, members or addresses are enough to see order and
sizes confused. Three entries allow a valid variable between or next to a duplicate
and an invalid one. The answer sizes of `host_lookup` lie on both sides of each size a
buffer has when a decision is taken. In `startup` one client can be queued, one served
and one refused over the same restart, with and without privilege. Deadlock is checked in
every run; specifications that end state their final states explicitly, and `Startup`
has none.

### Disagreements between the code and its comments

Four runs are expected to find a violation; the property states what a comment
says.

* `daemon_timeout`: "if something goes wrong and it's multiple seconds until we get
  a response, kill the process" (`src/main.rs:130`). The acceptor only leaves its
  loop; `main` then joins the worker whose lookup hangs.
* `daemon_panic`: "if a thread unwound with a panic, just start panicing here"
  (`src/main.rs:99`). Only the first exit is looked at; the result of a later join is
  dropped.
* `stream_panic`: `Request::parse` returns a `Result` but does not return for
  a key length from -12 to -1 (in a debug build also for one that overflows).
* `stream_initgroups`: "getting supplementary groups never fails"
  (`src/handlers.rs:100`). It fails with `User::from_name`, and with a gid greater
  than `i32::MAX`.

Not runs of their own: `src/protocol.rs:119` says the header is "sent also if the
service is disabled", and for an ignored request type the reply is empty;
`src/protocol.rs:34` says "The version is passed as part of each message header",
and the not-found header for users and groups has version 0.

## Fairness

Safety properties and refinements use `Spec`, without fairness. Otherwise:

* Threads: weak fairness for the steps of `main`, of the acceptor and of each
  worker that depend on scheduling only, the operating system running what is
  runnable. The handoff timeout is part of the acceptor's fairness: the clock
  goes on. `AcceptFails` and panics are never required to happen.
* The mutex: strong fairness for `Context::drop` and for the acceptor's shutdown
  check. Spurious wakeups let `run()` take the mutex again and again, so the mutex is
  not continuously free; a futex mutex does not starve a waiter in practice, but weak
  fairness would not say so.
* Clients and lookups: nothing in `FairSpec`. `PoliteClientsSpec` adds that a client
  sends its request or hangs up, and reads its reply; `ResponsiveSpec` that a lookup
  returns. nsncd sets no timeout on its streams and has none for lookups, so these
  are assumptions about others, made only where stated.
* `HostLookup`: weak fairness of its steps, so each call of glibc is assumed to return,
  with whatever result.
* `Startup`: weak fairness for systemd's start (`Restart=always`; its limit on the rate of
  restarts is assumed not to be hit). Strong fairness for the steps of the boot: a step
  that may fail, or that a crash may forestall, succeeds if it is tried again and again. This
  is the assumption that the environment is repaired, not a property of the code. Nothing
  is assumed of READY's delivery, and no crash is required. A process that serves accepts,
  finishes, closes and exits as `Daemon` does under `ResponsiveSpec`; without lookups that
  return, `ServesAgain` fails in the way that `daemon_timeout` shows.

## Proofs

All for any number of threads, workers, connections, for any integer width, buffer
size, set of messages and environment, and for strings and lists of any length.

* `WorkGroupProofs`: type correctness, `ExitRecorded`, `ResultOfRecorded`,
  `RestIsEveryOther`, `JoinNeedsNoLock`, `FirstExitKept`. The inductive invariant adds
  that handle i is thread i - 1 until `run()` removes one (so that an index is a
  thread), that threads not yet spawned are untouched, that an ended closure has an
  outcome, and that the join is reached only with an exit on record.
* `ServiceProofs`: `OneDiscardAtMost` (with: none while serving), `GracefulDrain`
  (with: nothing is cut while the process runs), `FateIsFinal`. `DaemonProofs` carries the
  three over to the daemon, through the refinement.
* `DaemonProofs`: the daemon implements `WorkGroup`, hence inherits the group's
  invariant; on top of it the inductive invariant says which thread owns what at
  which place (`HeldAtLocation`), that the acceptor ends only after its loop and never
  panics (`AcceptorLeft`, `OutcomeOfEnded`), that a worker returns only after the
  `Sender` is gone (`SenderGone`), that a shutdown noticed by the acceptor was caused by
  a panic (`ShutdownByPanic`), when the listener is open (`ListenerGone`), and what has
  been joined (`JoinedAreDone`). From these: `StreamHasOneOwner`, `GracefulCause`
  (the slot then names a thread that did not panic, which can only be one that ended
  after the acceptor), `ChannelClosedBeforeJoins`, and that the daemon implements
  `Service`. The last step needs most of it: `main` returns only when all threads are
  done, so no stream is open.
* `ReplyProofs`: whatever `handle_request` replies, a client that cuts it by the lengths in
  its header gets back exactly what the name service said (`RepliesDecode`), for strings and
  lists of any length; every lookup with a usable key that did not fail gets a reply that is
  not empty (`LookupsAreAnswered`); and exactly which group lists are refused
  (`GroupListsRefused`, the exact extent of what `stream_initgroups` finds). The argument: a
  reply is a header and a list of pieces of one width each. `Tiled` says that the pieces
  start where the client's running sum of their lengths (`Offset`) says; concatenation and
  `FlattenSeq` keep it, and cutting a tiled reply gives the pieces (`TiledIsCut`). What is
  left is that the client works out the right lengths, which for host lookups means
  finding the alias sizes behind a name whose length is in the header, and for `getaddrinfo`
  the families behind the addresses they describe. Two techniques: induction over the
  length of a list is the least counterexample of a set (`WFMin`, `InductUpTo`), because
  no prover here instantiates an induction theorem's predicate; and the recursive functions
  in `Offset` and `FlattenSeq` are first shown to exist (`OffsetExists`, `FlattenExists`), so
  that the CHOOSE behind them satisfies their equation.
* `HandleStreamProofs`: `parse` accepts exactly the complete requests, a prefix is never
  taken for a different request, and the exact inputs on which it panics. From these
  `RequestIsWhatWasSent`, with the invariant that the buffer is a prefix of the message and
  the request what `parse` makes of it. Then `ReplyDecodes` and `LookupIsAnswered`, with the
  invariant `ReplyOnItsWay`: what is written and delivered is what `handle_request` made
  of this request and an answer to it, and a connection that ended without a reply was
  not parsed, was refused, or lost its client.
* `HostLookupProofs`: `BufferIsExact`, which is inductive with type correctness: a buffer
  below the limit doubles to one below twice the limit, and ERANGE past the test means that
  the answer does not fit into a buffer of at least the limit. And that the reply is a
  function of the last call alone, from the invariant that the locals, once a call has
  returned, decode to what that call said. `ClientSeesLastAnswer` follows: a C array that
  ends has a first null pointer, `from_libc_hostent` reads up to it and makes a `Hostent` that
  the theorems of `ReplyProofs` apply to.
* `StartupProofs`: `ReadyMeansReachable`, and that a dead process has no connections. The
  inductive invariant says what `main` has done at each place: mode 777 before READY, no
  listener before bind, READY only from a process in `run()`.
* `ConfigProofs`: `ConfigIsExact`, `DaemonCanServe`, `IgnoredDatabaseIsSilent`. The
  inductive invariant says of the entries that the loop has passed that none is bad and that
  the types ignored are those of the databases that they set, and that the loop was
  finished before a number was read. That env::var finds an entry with its key rests on
  the well-foundedness of the naturals, a theorem of the library. `IgnoredDatabaseIsSilent`
  also needs that no type is in two databases.

Assumptions: `WorkGroupAssumption`, `DaemonAssumption` (at least one worker, which
`Config`'s `DaemonCanServe` provides), `ProtocolAssumption` (the integer is wide enough
for the request types), `HandleStreamAssumption` (message and buffer lengths fit the
integer, keys and answers are of the types the libraries return), `HostLookupAssumption`
(sizes are numbers, the first buffer is smaller than twice the limit, and glibc keeps its
contract: arrays of a supported hostent end with a null pointer, names are C strings and
addresses have `h_length` bytes), `StartupAssumption`, `ConfigAssumption` (an environment is a sequence of
entries; what parses, parses to a natural number). TLC evaluates them in each run.

Only model-checked: the liveness properties (there is no prover for fairness or ENABLED):
`ExitIsNoticed`, `BacklogDrains`, `IdleWorkersFinish`, `ShutdownCompletes`,
`EveryClientReleased`, `RetriesEnd`, `ServesAgain`, `WaitersAreReleased`. Every invariant and
every action property of a passing run is a theorem.

## Not modelled

* What glibc, nix and dns-lookup do inside a lookup.
* `disable_internal_nscd`: one call, no state. Where it has no effect, a lookup connects to
  nsncd itself; `Daemon` allows that, since a lookup may wait for anything and a client may
  be anyone, and `BacklogDrains` shows that the handoff timeout still ends the wait.
* A second nsncd started by hand beside the supervised one: it would unlink the socket of
  the first, which nothing in the code prevents.
* systemd's start rate limit and the invalid configurations that never get better.
* Logging, formatting, packaging, CI, tests.
* Time: a timeout may strike whenever a handoff is pending.
* A partial write: a client that stays gets the whole reply, one that leaves nothing.

## Plan

Modelled, checked and proved as described above: work group, daemon with its
refinements, protocol, handlers, connection handling, host lookups, configuration,
start-up. What is left:

1. Partial writes in `HandleStream`.
2. The safety half of the liveness arguments: the ranking of the retries in `HostLookup`
   (each ERANGE doubles the buffer) and of the joins in `Daemon`, as action properties.
