# bee-sync in TLA+

bee-sync sends one file to a server in chunks, over a control connection and
several data connections, and resumes after a failure. These modules model the
part of it that is hard to test: what survives on the server's disk, what the
client and the server tell each other and what they wait for, what the transfers
of one server share, how the server stops, and whether the two ends cut a file
alike.
TLC checks small instances; TLAPS proves the most important properties for
every instance. Source lines below are relative to the repository's root.

Reading order: `Delivery` (a page, what the server promises), `FileReceiver`
(how it does it), `ClientTransfer` (the client, and the conversation of the two
ends), `DataPorts`, `AcceptLoop`, `ChunkGeometry`, then the `...Proofs` modules;
`DeliveryProofs` continues `FileReceiverProofs`.

## 1. Inventory

| Component | State it keeps | Operations | Interacts with |
|---|---|---|---|
| **FileReceiver** `src/server/file_receiver.rs` | parameters of one transfer, `received_chunks`, `failed`, the metadata in memory; part files and final file on disk | `new`, `record_chunk`, `load_or_purge_metadata`, `assemble` | shared, under a mutex, by its control handler and its data connections; the disk is shared with every session of the same file name |
| **TransferMetadata** `metadata.rs` | `.bee-meta` and `.bee-meta.tmp` | `save`, `load`, `params_match`, `verify_part`, `purge` | called by FileReceiver |
| **Control handler** `handler/control.rs` | where the session is; its sockets | handshake, resume, allocate, respond, wait, assemble, final status, cleanup | client (control connection), FileReceiver, port pool, registry |
| **Data handler** `handler/data.rs` | the frame being processed | `handle_query`, `process_chunk`, `verify_and_write_chunk` | client worker (data connection), FileReceiver through the registry |
| **Port pool and registry** `server/mod.rs` | `PORT_POOL`, `ACTIVE_RECEIVERS`, accept tasks | reserve, release, register, look up, remove | every transfer of the server; other processes of the host |
| **Accept loop** `server/mod.rs` | connection permits, shutdown flag | accept, reject, spawn, stop | control handlers, Ctrl+C |
| **Client** `client/mod.rs`, `main.rs` | file size, chunk size, plan | chunk size, `setup_transfer`, `build_handshake`, outcome, exit status | server, source file |
| **Workers** `client/worker.rs` | chunk list, shutdown flag | query, send, await ACK, retry | data connections, source file |
| **Frames** `protocol.rs` | none | length prefix, limit, timeouts | everything |
| Hashing, command line, TLS, download, logging | none that outlives a call | | |

What is hard about it:

* *Crashes.* The disk holds part files, a metadata record, a temporary record
  and a final file; the server may end between any two writes of them.
* *Interleaving.* The data connections of a session share one FileReceiver and
  write parts outside its mutex; two sessions of one name share the files with
  no lock at all.
* *Ownership.* Permits, sockets, registry entries and accept tasks are four
  resources per data port, acquired together and given up separately; clients
  connect to a port when they like, also after its transfer is over.
* *Two computations of one cut.* The client looks at the file's size three
  times, cuts numbers to 32 bits in the handshake, and the server derives every
  chunk's length for itself.
* *Timeouts and retries.* An answer names no chunk, a NACK is retried and a
  timeout is not, a worker leaves the chunk it has just sent when the shutdown
  flag is set, and the flag has two meanings.
* *Ends that wait for each other*, with limits of 0 on either command line and
  a server without timeouts.

What makes each part correct:

* transfer state: an acknowledged chunk is not lost; a confirmed file is the
  file that was announced; a delivered file is not destroyed for a client that
  wants the same contents; running the client again converges;
* ports: a connection reaches the transfer of its client; what a client is told
  is served; the pool's count means something;
* geometry: the two ends agree, arithmetic does not wrap, parts tile the file;
* client: an ACK is for the chunk that was sent; success means delivered; both
  ends come to an end; without a fault the file arrives;
* accept loop: permits are not lost; everybody is answered; shutdown is noticed.

`PROJECT.json` lists the hazards by line, with the properties that watch them.

## 2. Modules

### Delivery

The abstract promise for one file name: a session *asks* for a content and is
told at once when it is there; a session may *overwrite* the file only while it
does not hold what that session wants; it *installs* its content in one step and
*confirms* only while the file holds it. Chunks, metadata and connections do not
occur. `FileReceiver!ServerPromise` is the refinement, checked by TLC in `serial`
and proved, step by step along this table, in `DeliveryProofs`:

| Delivery | FileReceiver |
|---|---|
| `file` | the digest of `final` when it is the image of an offer, otherwise `Broken` |
| `wants[s]` | the digest of the session's parameters |
| `verdict[s]` | `none` when free, the terminal state, otherwise `pending` |
| `Overwrite` | `CreateFinal` | 
| `Install` | the `CopyPart` that makes the file the image of the offer |
| `Confirm`, `Fail` | `FinishAssembly`, and each step to `err` |
| `Leave` | `Release` (one session), `Crash` (all) |

### FileReceiver

One file name: its part files (`part`), `.bee-meta` (`meta`), `.bee-meta.tmp`
(`tmp`) and the final file (`final`), and sessions that work on them. A session
is one run of `handle_control_connection` (`pc`), its FileReceiver (`offer`,
`hashes`, `failed`) and its data connections (`lane`, `buf`).

| `pc` | Where the handler is |
|---|---|
| `load` | handshake accepted, `load_or_purge_metadata` not yet called |
| `purge`, `clean` | inside it: removing parts one by one, saving the cleaned record |
| `ready` | `RESP_COMPLETE` or allocation of ports comes next |
| `waiting` | `wait_for_completion` |
| `create`, `copy`, `drop` | `assemble`: before `File::create`, before a part is copied, before it is removed |
| `exists`, `ok`, `err` | the answer is decided |

A lane is the data connection carrying one chunk: `idle`, `writing` (`fs::write`
has truncated the part), `written`, `saving` (`record_chunk` under the mutex, the
temporary record is written), `dead`. The mutex is derived (`LockFree`): it is
held while a lane is `saving` and from `copy` to the end of assembly.

Faults, at most `MaxFaults` of them: a failing write, save, rename, removal,
open or assembly; a refused or disconnected session; a crash of the process
between any two steps; a damaged part; a damaged record; a source file that no
longer holds the bytes that were hashed.

Two ghosts: `owed`, the acknowledged chunks that no assembly has started to
consume and no damage or change of parameters has voided since; and `faults`.

Abstractions:

* A chunk's bytes are `<<offer, index>>`, or one of three kinds of wrong bytes;
  a BLAKE3 hash *is* the bytes it was computed from.
* Chunk size, chunk count, file size and full hash are one value, an offer.
  Offers with different chunk counts and equal `Digest` are one file cut in two
  ways.
* The write of `.bee-meta.tmp` is one step and the rename another; the read and
  verification in `load_or_purge_metadata` is one step, and so are write and
  rename of the cleaned record (nothing is acknowledged in between, and the file
  that is replaced differs from the new one only by entries that are not valid).
* A failing `remove_file` whose result the code discards (in `purge`) is not
  modelled.
* Two sessions that write one part at the same time leave the bytes of the last
  to finish, not a mixture.
* `Overlap = FALSE` is an assumption about clients, not something the server
  enforces: it says that nobody starts a session while another one of the same
  name is open. `overlap.cfg` shows what happens without it.

### ClientTransfer

One run of the client against one session of the server, from the handshake to
the exit status, for one file of `NumChunks` chunks. An earlier run may have left
any set of chunks, or the file. `opts` is the command lines of both ends: Init
chooses `--parallel`, `--retries` and `--max-parallel`, and no step changes them.

| State | Code |
|---|---|
| `run`, `exit` | where `run_client` is, and how it has ended |
| `flag` | `shutdown_flag`, set by Ctrl+C and by a worker whose chunk has failed |
| `wst`, `todo`, `attempt`, `failList` | `worker` and the loop of `send_chunk` |
| `wire`, `reply`, `sst` | one data connection: a queue of frames in each direction, and the server's loop in `handle_data_connection` |
| `srv`, `resp`, `ports`, `final` | `handle_control_connection`, its response and its final status |
| `recorded`, `failed`, `held` | the FileReceiver, and whether the final file is the announced one |

A worker and its data connection are one number. The handler of a frame is one
step: the disk work inside it belongs to `FileReceiver`. The flag is read where
the code reads it, once before each chunk (`Stop`) and once between a send and
its ACK (`SkipAck`, which counts the chunk as sent); the pause before a retry
does not read it. `--retries 0` (`NoAttempt`) makes every chunk fail without
being sent, and `ports = 0` skips the workers.

A timeout is the action that ends the wait (`ResponseTimeout`, `QueryFails`,
`AckFails`, `NoFinal`) and may be taken whenever there is nothing to read. The
ghost `faulty` says that something has gone wrong that need not: a timeout while
the other end was about to answer, a lost connection, an error of the disk, a
crash, a signal, a hash mismatch on the last attempt. The ghost `signalled` is
Ctrl+C.

### DataPorts

All transfers of a server: `permits` (PORT_POOL), `listener` (who is bound to
each port), `registry` (ACTIVE_RECEIVERS), and per transfer the handler's
position, its sockets and the ports its client was told. A client connects to
any port it was told, at any time, as often as it likes (`Connect`); the kernel
queues it as soon as the port is bound; the accept task serves one connection
after another (`Accept`, `Hangup`), as the loop of `spawn_data_servers` does. An
accept task is not part of its transfer: `ReleasePorts` leaves it running.
Other processes bind and free ports of the range (`ForeignBind`). `CountWidth`
is 256 in the code. Faults: a response that cannot be sent (`RespondFails`),
which keeps its permits and its registry entries, and an error of `accept`
(`AcceptFails`), which ends the task and frees the port while the registry still
names the transfer. The ghost `abandoned` collects the ports of the second kind:
`RoutedToOwner` and `AdvertisedIsServed` are about all others (see 3, below).

### AcceptLoop

The loop of `run_server`: the backlog, the permits of `conn_semaphore`, the tasks
that hold them, the shutdown flag. `Accept`, `Reject`, `AcceptError` and `Wake`
are the arms of the `select!`. `Wake` is the one-second timer, the only place
where the flag is read; the arms start it anew, so its fairness is limited to
moments when nobody is in the backlog. A task (`TlsAccept`, `TlsFails`,
`HandlerEnds`) ends when it likes, or never: the TLS handshake has no timeout.
`run_server` returns without joining its tasks and `main` calls `process::exit`,
so `Wake` ends them.

### ChunkGeometry

One transfer from the command line to its last chunk, numbers only: `RunClient`
(with `BadArgument` and `ZeroChunk`, the ways it ends before), `SetupTransfer`,
`BuildHandshake`, `ParseHandshake`, `SendChunk`, and `EditSource` at any moment
between them. The chunk size is `--chunk-size` as a plain number, `--chunk-size`
with a suffix (`parse_chunk_size`: a decimal fraction, modelled as `arg` parts of
`Part`, times `Kilo`, cut down to an integer, with negative numbers going to 0
as the conversion of a float does), or comes from `--chunk-count`. `plan` is what
the workers go by, `offer` what the server goes by. A chunk is stored, or ends
the transfer: `dropped` (no answer), `closed` (frame too large), `skipped` (it
begins beyond the file; the code goes on to the next chunk, and no planned chunk
does so). `RESP_EXISTS`, resume and retries belong to the other modules. A read
returns all that was asked for, or what is left of the file. `Position` is where
`assemble`, which looks at no offset, puts a part: after all the parts before it.

## 3. Runs

| Run | Instance | Result |
|---|---|---|
| `serial` | 1 session at a time; offers f1 (2 chunks), f2 (other contents, 1 chunk), f3 (f1's contents, 1 chunk); 3 faults; fairness | TypeOK, AckedDurable, AcksSurvive, NoSpuriousFailure, ConfirmedDelivered, OnlyReplacedByOther, the refinement and EventuallyDelivered hold |
| `converge` | 2 sessions that overlap, f1 and f2, no fault, fairness | NoForeignChunk and EventuallyDelivered hold |
| `overlap` | 2 sessions that overlap, f1 only, no fault | ConfirmedDelivered **violated** |
| `purge` | 1 session, f1 and f2, 2 faults | PurgeRemovesAll **violated** |
| `client` | 2 chunks; `--parallel` 0, 1, 2; `--retries` 0, 2; `--max-parallel` 0, 2; any faults; fairness | TypeOK, AckAnswersChunk, AllSent, SuccessMeansHeld, BothEnd, DeliveredUnlessFaulty hold |
| `stale_flag`, `outrun` | 2 chunks, 2 workers, 2 attempts, 2 ports | InterruptedBySignal, FailureMeansFault **violated** |
| `ports` | transfers of 1, 1 and 2 sockets on 3 ports, 2 faults | TypeOK, RoutedToOwner, AdvertisedIsServed, PermitsConserved hold |
| `ports_leak` | 2 transfers, 2 ports, no fault | PermitMeansPort **violated** |
| `accept` | 4 clients, 2 permits, with and without TLS; fairness | TypeOK, RejectedOnlyWhenFull, EventuallyAnswered, StopsWhenQuiet hold |
| `shutdown` | 2 clients, 2 permits | ActiveComplete **violated** |
| `geometry` | sizes to 12, arguments from -1 to 18, a suffix of 6 in eighths, fields of 8 values, payload 6, 4 chunks, 2 edits | TypeOK, CutsAgree, NoUnderflow, PartsTile, ZeroOnlyIfAsked, CountIsLimit hold |

Why the bounds are enough. *FileReceiver*: two chunks are the least with which a
transfer can be half done, and an older transfer can have a part that a newer
one has not; three faults allow, for one transfer, an interrupted session, a
failure while it is resumed and damage to what is left. More of either repeats
the same steps; the theorems below hold for any number. *ClientTransfer*: with
two workers one can fail, finish or be late while the other is anywhere; with one
worker and two chunks a late answer to the first could meet the second; two
attempts make a first and a last one; the zeros are the degenerate command lines.
Faults are not bounded. A port count that wraps is not reached with two ports;
`ports = 0`, what it wraps to, is, and the theorems cover every width.
*DataPorts*: two transfers are needed to confuse one with the other, a third of
two sockets to exhaust the pool while single ports are free, and three ports let
the cursor skip a port in use. *AcceptLoop*: more clients than permits, two of
each kind. *ChunkGeometry*: the constants keep the order of the real ones
(payload limit and chunk limit below the width of a field, sizes above it), so
that every comparison of the code comes out both ways, `Kilo` and `Part` make
fractions that are exact, rounded and below one byte, and two edits separate the
three looks the client takes at the file.

Deadlock is checked in the FileReceiver runs, where a session can always begin.
A run of the client ends, the server of AcceptLoop stops, and the transfers of
DataPorts and the one of ChunkGeometry happen once: their configurations turn
the deadlock check off. That the client does not stop early is `BothEnd`.

Fairness. tokio runs every task that can run, and no module assumes more of the
code than that.

* *FileReceiver*: each handler and each data connection takes a step that stays
  possible (`ControlStep`, `DataStep`, weakly fair per session and per chunk). A
  connected client sends the chunks it was asked for (`ClientSends`), and its
  user runs it again until it succeeds (`ClientRuns`), as the log messages
  "re-run client to resume" ask. The faults are not fair, only bounded:
  `EventuallyDelivered` says what happens once they have stopped. Its premise
  `<>[]Settled(f)` says that from some time on only one client, with parameters
  f, is using the name; its conclusion is that the file is in place, and stays.
* *ClientTransfer*: `run_client`, each worker, each data connection and the
  control handler; a wait of the client ends by its timeout if by nothing else.
  Nothing is assumed of faults. The server's own waits end because the client
  does: it closes its connections.
* *AcceptLoop*: the backlog is a queue (`Answer`, per client), and the timer wins
  when nobody is in it. Nothing is assumed of clients or handlers, so
  `EventuallyAnswered` holds although handlers may hang for ever.
  `StopsWhenQuiet` needs its premise: connections that keep arriving less than a
  second apart keep a stopped server running.

### What the violated runs show

1. `overlap`. Session B creates (truncates) the final file after session A has
   copied its parts; A hashes what it copied, not the file, and answers RESP_OK.
2. `purge`. `purge` is called with the new transfer's chunk count.
   ConfirmedDelivered and EventuallyDelivered hold nevertheless: the parts that
   stay are never read.
3. `ports_leak`. Dropping a tokio `JoinHandle` detaches its task. The listeners
   stay bound for the life of the server, so that the range is used up after
   1001 data ports' worth of transfers while the pool is full. The mutant of
   RoutedToOwner shows that aborting the tasks is not a repair: a client that is
   late would reach the next transfer on the same port.
4. `stale_flag`. A worker whose chunk has failed for good sets the flag that
   means Ctrl+C, so the client logs "Transfer interrupted" and exits with status
   0. SuccessMeansHeld is about the message of success, not the exit status.
5. `outrun`. On resume, a worker whose chunks are all there still connects to
   ask. If another worker completes the file first, the receiver is gone, the
   connection is closed, and the client reports failed chunks of a file that is
   in place. Running it again gives `RESP_EXISTS`.
6. `shutdown`. Nothing waits for the tasks, so a transfer under way is cut off
   (and resumed, by `AcksSurvive`, when the server is back).

Disagreements that need no run, because a passing run or a line shows them:

* the registry outlives a listener that died of an error (control.rs:524), and
  the next transfer on that port inherits its clients, where server/mod.rs:101
  says "to the correct transfer": the reason for `abandoned`;
* permits are lost on two early returns (control.rs:197 and :307), where
  SECURITY.md:109 relies on the pool: the classes `unbound` and `lost` of
  `PermitsConserved`;
* the count byte of the response wraps at 256 sockets (control.rs:615);
* the client accepts any chunk size, while a frame over 16 MiB closes its
  connection (protocol.rs:100), so the `1G` of the help text (cli.rs:86) cannot
  be used: the second line of `CutsAgree`;
* `-s 4G` is announced as a chunk size of 0 (`chunk_size as u32`,
  client/mod.rs:242), although SECURITY.md:119 says that the client enforces a
  positive one: the premise of `CutsAgree`;
* `--chunk-count 8`, "exactly 8 chunks" in README.md:89, cuts 9 bytes into 5
  chunks (main.rs:142): `CountIsLimit` says what is true instead.

## 4. Proofs

| Theorem | Statement | Assumption |
|---|---|---|
| `FileReceiverProofs!TypeCorrect` | `Spec => []TypeOK` | |
| `AcknowledgedIsDurable` | `Spec => []AckedDurable` | `~Overlap` |
| `AcknowledgedIsResumed` | `Spec => []AcksSurvive` | `~Overlap` |
| `OkMeansDelivered` | `Spec => ConfirmedDelivered` | `~Overlap` |
| `ClientTransferProofs!TransferInvariant` | `Spec => []TransferInv` | |
| `TransferTypes` | `Spec => []TypeOK` | |
| `AckIsForChunk` | `Spec => []AckAnswersChunk` | |
| `SaysSentWhenSent` | `Spec => []AllSent` | |
| `SuccessIsDelivery` | `Spec => []SuccessMeansHeld` | |
| `DeliveryProofs!OwnBytesOnly` | `Spec => []NoForeignChunk` | |
| `FailureHasCause` | `Spec => []NoSpuriousFailure` | `~Overlap` |
| `DeliveredIsSafe` | `Spec => OnlyReplacedByOther` | `~Overlap` |
| `KeepsPromise` | `Spec => ServerPromise` | `~Overlap` |
| `DataPortsProofs!PortTypes` | `Spec => []TypeOK` | |
| `Routing` | `Spec => []RoutedToOwner` | |
| `Advertised` | `Spec => []AdvertisedIsServed` | |
| `PermitsAccounted` | `Spec => []PermitsConserved` | |
| `AcceptLoopProofs!LoopTypes` | `Spec => []TypeOK` | |
| `LimitIsReached` | `Spec => RejectedOnlyWhenFull` | |
| `ChunkGeometryProofs!Types` | `Spec => []TypeOK` | |
| `RemainderIsNatural` | `Spec => []NoUnderflow` | |
| `SameChunks` | `Spec => []CutsAgree` | |
| `PanicIsAskedFor` | `Spec => []ZeroOnlyIfAsked` | |
| `CountIsKept` | `Spec => []CountIsLimit` | |
| `StoredPartsTile` | `Spec => []PartsTile` | |

Besides these they assume only the named assumptions on the constants, which TLC
evaluates in every run. The assumption `~Overlap` is needed: without it the run
`overlap` refutes `ConfirmedDelivered`. What does not need it is
`OwnBytesOnly`.

*FileReceiver.* `TypeInv` adds to the types that an open session has an offer.
An acknowledgement is not inductive: it survives because no other lane of the
session can touch the chunk, the session that works on the files was started for
the same parameters, and every record it saves contains the chunk. `SerialInv`
says just that: one session is open (`OneOpen`); lanes are used only by sessions
that wait or have ended, and a lane in flight carries a chunk not yet received
(`LaneInv`); the bytes of a lane are where its state says they are (`WriteInv`);
and, in a session that has loaded the metadata, every owed chunk is one of its
own received chunks, with the hash the record has (`OwedInv`). `AcksSurvive`
follows from `OwedInv`. `OkMeansDelivered` needs a separate invariant of the
assembly loop, `CopyInv`: while `exact` holds, the final file is the image of
the offer up to `next`, and empty after it, whatever the parts contained.

*Delivery.* `DeliveryProofs` asks what bytes a session may meet. `SentInv`: every
hash in a receiver or in a metadata file is that of the announced bytes or, after
a fault, of a changed source, and so is what a data connection is writing. It is
inductive with `LaneOpen` (connections belong to receivers in use) and needs no
`~Overlap`: a record is trusted only if its parameters match, so it does not
matter whose it was. `NoSpuriousFailure` takes three more invariants of sessions
that do not overlap: assembly begins with every chunk received (`WholeInv`), a
received part that is not yet consumed holds the bytes of its hash unless the
disk has damaged it (`KeptInv`), so a part that is missing or wrong at its turn,
and every failure that follows, has a fault behind it (`CauseInv`).

`FileInv` is the invariant on the final file: a session that has yet to write it
does not find its own contents there (its client would have been told
`RESP_EXISTS`), and a session that writes it has put there exactly the parts
copied so far. So only `CreateFinal` can end a delivery, and of other contents
(`DeliveredIsSafe`); the file is nobody's image until the last copy
(`CopyUnfinished`), and only the session's own image after it (`FirstChunk`: the
first chunk tells whose file it is). With these each action of `FileReceiver` is
the action of `Delivery` that the table in 2 names, or a stutter (`PromiseStep`);
a crash between two copies leaves a file that is `Broken` on both levels.

*ClientTransfer.* An ACK names no chunk, so that it is read for the right one is
a fact about the whole connection: at most one frame is on its way, in one
direction, as long as its worker goes on, and it is about the worker's current
chunk (`Flights`). A worker may leave an answer behind it, but only when it has
set the flag, or has found it set, and then it sends no more; this is why
`Flights` says nothing of a worker in its loop once the flag is set. `AllSent`
follows from `Progress`: until the flag is set, each chunk of a worker is still
ahead of it, or recorded, or in its list of failures, where `Known` accounts for
the chunks that are skipped because the server said it had them.
`SuccessIsDelivery` is `GoodNews`: every message of success is sent while the
file is held, which nothing undoes within one session.

*DataPorts.* `RouteInv`: a port in a transfer's `socks` is bound as long as its
task lives, two transfers never have such a port in common, a port once told
stays bound until its task dies (the very leak of finding 3), and the registry
names the one transfer that has it, or nobody. So whoever is in a port's queue
was told of it by the transfer the registry names. For the pool, a permit is a
pair of a transfer and a number, so that `PermitsConserved` is the cardinality of
one set and not a sum: a transfer takes its whole share or nothing (`PoolTake`),
and gives back as many permits as it has sockets, which is its share up to the
moment of `release_ports` (`PoolInv`, `PoolReturn`). The bounds of `permits` in
`TypeOK` follow from it, not the other way round.

*AcceptLoop.* `LoopInv` adds to the types that, while the loop runs, permits and
tasks that hold one make `MaxConnections`; the work is in the cardinalities.

*ChunkGeometry.* All the arithmetic is in lemmas on `div_ceil`, on truncation to
a field and on the last chunk. `RemainderIsNatural` rests on: truncation only
makes numbers smaller, and `(num_chunks - 1) * chunk_size` never exceeds the size
it was computed with. `SameChunks` adds that without edits plan and handshake
were computed from one size (`OneSize`). `CountIsKept` is `RoundedTwice`: the
chunk size is rounded up, and so is the number of chunks of that size.

`StoredPartsTile` is about files whose lengths are checked part by part and whose
offsets nobody checks. `TileInv`: every stored part has the length the server
computes from the offer, and has come in one frame. If the chunk size fits its
field, these lengths tile the file. If it was truncated, the worker's offsets are
multiples of a number the server does not know, and the proof has to show that
not every part can be stored: the last one would be longer than a field can say,
so longer than a frame (`ChunkFits`). This is the use of `FrameAssumption`,
`MAX_PAYLOAD` below 2^32 (protocol.rs:43), and without it `PartsTile` is false:
with fields of 8 values and a payload of 12, a chunk size of 9 is announced as 1;
a source of 10 bytes at the handshake that shrinks for the first chunk and grows
to 18 for the second is stored as 1 + 9 bytes, the right total with the second
part at the wrong place. `Position` is a recursive function; that the multiples
of the chunk size satisfy its equation is `TilesSum`, and that nothing else does
is `SumsUnique`, by the least index at which two solutions differ.

## 5. Only model-checked

Liveness, which is beyond the prover: `EventuallyDelivered`, `BothEnd`,
`DeliveredUnlessFaulty`, `EventuallyAnswered`, `StopsWhenQuiet`. Every other
property of a passing run is a theorem.

## 6. Not modelled

* TLS, logging, progress bars, parsing of addresses, download of a URL: no state
  that a transfer depends on. That a TLS handshake fails or hangs is in
  `AcceptLoop`.
* File names: one FileReceiver instance is one sanitised name.
* Hash collisions: a hash is the bytes it was computed from.
* The byte layout of frames and records. A frame arrives whole or not at all; a
  record is one that `from_bytes` accepts or rejects.
* Timeouts as durations: a timeout appears as the failure it causes. So what
  depends on how long something takes, such as the 30 seconds a client gives the
  server to hash an existing file, is a nondeterministic choice.

`PROJECT.json` names the hazards that no property covers, with the reason.

## 7. Plan

1. **FileReceiver** with overlapping sessions: `OwnBytesOnly` is the first result
   without `~Overlap`. Next, what a confirmed transfer has read (it was assembled
   from bytes that have the announced hash, whatever became of the file).
2. **The safe half of liveness**: the invariants that make a wait end, such as
   that a client and a server of `ClientTransfer` never both wait for the other
   with nothing on its way.
