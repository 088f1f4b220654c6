# Fabric Epoch in TLA+

Fabric Epoch is a coordinator that decides which worker incarnations hold
authority. Every decision belongs to a *coordinator epoch*; a worker is known by
its participant, its boot and an incarnation sequence number; fencing, retirement
and epoch changes take authority away for good. The coordinator keeps its state
in one durable image and serves workers over TCP.

This directory models the coordinator's decisions, its durability, its file store,
its server threads, the client its workers use, and the bytes of its image and of
its wire protocol. TLC checks the models on small instances; TLAPS proves the
theorems of section 5 for every instance.

## 1. The system

| Part | State | Operations | Modelled by |
|---|---|---|---|
| Authority state and decisions (`src/src/runtime.cpp`, `durable.cpp`) | `DurableState`: epoch, generations, participants with their incarnations, fenced boots and idempotency records, recent fences, grants, epoch transitions | register, fence, advance, grant, revoke, retire, validate, durable validation | `AuthorityState` |
| Epoch runtime (`runtime.cpp`) | in-memory state behind a lock, session table, undo log | each operation with its save and rollback, `bind_session`, `close_session`, opening, `flush` | `EpochRuntime` |
| Durable store (`store.cpp`) | image file, watermark file, temporary files | `load`, `save` | `EpochStore`, `StoreContract` |
| Coordinator server (`server.cpp`, `socket.cpp`) and process (`coordinator_main.cpp`) | accept, session and main threads, `stop_now`, `shutdown_flag`, `session_threads`, `active_sessions` | accept, serve, reap, request shutdown, stop | `EpochServer` |
| Client (`client.cpp`), worker process (`worker_main.cpp`) | one socket behind a mutex, `hello_done`, `disconnect_wait_cancelled` | connect, close, hello, requests, `request_shutdown`, `wait_for_disconnect` | `EpochClient` |
| Wire protocol (`protocol.cpp`, `encoding.cpp`) | none; a connection has two byte streams | framing, header and digest checks, one encoder and one decoder per message | `ByteLayout`, `WireMessages`, `EpochWire` |
| Durable codec (`codec.cpp`), snapshots and views (`runtime.cpp`) | none | encode and decode the image; build and lay out snapshots and views | `ByteLayout`, `EpochImage` |
| SHA-256, identifiers, scope parsing, digests of state, explanation wording, command line | none of their own | conversions and read-only views | not modelled (section 8) |

How they interact. A session thread decodes a frame, calls one or two runtime
operations and writes the answer. A runtime operation takes the exclusive lock,
classifies the request, mutates the state, lets the store replace the whole image
and answers; when the save throws, an undo log is run. The store writes a
temporary file, renames it over the image, and only then raises the watermark,
which records the highest epoch ever saved. A coordinator that opens a store
establishes a new epoch on top of the image. When a session is lost, the runtime
fences the incarnation bound to it.

What is hard here:

- a crash or an exception between the image and the watermark, and between any
  two file operations;
- undoing an operation in memory after its save failed;
- bounded tables (recent fences, fenced boots, idempotency records, transitions)
  that forget what later decisions seem to need;
- retries answered from idempotency records long after the first answer;
- operations of other sessions between `register_participant`, `bind_session` and
  `close_session` of one session;
- a shutdown requested by one of the threads that the shutdown has to join;
- threads that share one client, one of which waits for the connection to end;
- an operator who restores the image, and two processes on one store;
- several registrations applied before one save, while an index is out of date;
- a connection that breaks at any byte, under a client that keeps a connection
  whose last answer it refused and never waits with a timeout;
- decoders with limits, ceilings and smallest record sizes of their own, which
  have to accept whatever the coordinator's history makes it write.

`PROJECT.json` lists these under "hazards" with the line where each one bites and
the properties that would catch it.

What makes each part correct:

- *authority*: a fenced incarnation is never current again, a sequence number is
  never issued twice, a delegated grant never exceeds or outlives its parent, a
  replayed answer speaks of something that happened;
- *runtime*: no epoch is shown that is not durable, epochs never fall and grow
  with every process, the state in the image always passes the next process's checks;
- *store*: the image is replaced whole and in order, what was acknowledged stays,
  a rolled-back image is detected, no temporary file is left by a failed save;
- *server*: every current worker has a session that will fence it, a lost worker is fenced, a shutdown completes, no thread outlives it;
- *client*: an answer goes to the call that asked, HELLO comes first on every
  connection, a waiting thread comes back;
- *wire*: nothing that was damaged on the way is acted on, nothing that was not is
  refused, and a call never waits for a frame that cannot come;
- *codec*: every image that is published is decoded by the next process, to the
  state that was saved; peers can decode every snapshot.

## 2. The modules

| Module | Role |
|---|---|
| `AuthorityState` | The durable state as records, and for each operation three operators: `XOutcome(s, r)`, the classification in the order of the code's early returns; `XTo(s, r)`, the new state; `XUndo(s, r)`, the state the undo log restores. `Valid` is `validate_durable_state`. No variables. |
| `EpochRuntime` | The process on its store. One action per public operation. |
| `RuntimeProperties` | The properties of the two modules above. |
| `RuntimeProofs` | Theorems about durability and epochs, under failing saves too. |
| `AuthorityProofs` | What every operation of `AuthorityState` keeps of a state, as lemmas. |
| `GrantProofs` | What every operation keeps of the tie between a grant and the incarnation it was given to, as lemmas. |
| `IncarnationProofs` | Theorems about incarnations, tokens, grants and idempotent answers, from those lemmas. |
| `FaultProofs` | The theorem about delegation under failing saves. |
| `MCRuntime` | Deployments, batches and the symmetry set for TLC. |
| `ByteLayout` | `ByteWriter` and `ByteReader`: byte strings as cells of real widths, layouts as sequences of fields, encoding and decoding by layout. No variables. |
| `EpochImage` | The layout of the durable image and of snapshots, for the states of `EpochRuntime`, and the properties about them. |
| `MCImage` | `EpochImage` with the deployments of `MCRuntime`. |
| `StoreContract` | What a coordinator relies on its store for. |
| `EpochStore` | The store, one file operation per action; `Contract` instantiates `StoreContract`. |
| `StoreProofs` | Theorems about the store, the refinement of `StoreContract` among them. |
| `EpochServer` | The server's threads and its peers, and the workers and sessions of the runtime. |
| `MCServer` | The workers that TLC's connections register. |
| `ServerProofs` | Theorems about the server. |
| `EpochClient` | A client shared by threads, and the coordinator as it sees it. |
| `ClientProofs` | Theorems about the client. |
| `WireMessages` | The messages of the protocol and the layout of each, on top of `ByteLayout`. No variables. |
| `EpochWire` | One connection, down to its bytes. |

Definitions whose comment begins "A fault of X" are variants of X with one
plausible mistake; no specification uses them. They are kept to show that each
property notices such a mistake when the variant takes the place of X
("mutants" in `PROJECT.json`).

### AuthorityState and EpochRuntime

A participant's `live` sequence is `active` followed by `extra_incarnations`.
`status = "unknown"` stands for a participant without a record. Identifiers are
values compared for equality; participants are numbers because the image is
sorted by participant and one undo depends on that order. Semantic digests are
records of the fields they are computed from. `value` of an idempotency record is
the result a replay repeats.

Every public operation holds the lock from its first check to its answer, so it
is one action. Its save ends in one of these ways (`Save`):

- `ok`: the image and the watermark are written; if `Valid` rejects the image,
  the undo runs;
- `crash`: the process dies once the image is replaced, before or after the
  watermark (a death at any other moment is `Crash`);
- `failed`: the save throws before the image is replaced, and the undo runs;
- `unmarked`: the image is replaced, the watermark write throws, the undo runs.

`Spec` has the first two, `FaultySpec` all four. `persist` sorts the tables and
rebuilds the indexes on every path, so tables are modelled without their indexes.
The one exception is `RegisterBatch` (`register_participants`), which applies all
its requests before the one save: `LookupFenceIn` follows the positions of the
table as it was when the batch began into the table as it is now.
`minted`, `issued` and `exposed` are history variables: grant identifiers
generated, tokens ever shown (or left in an image by a process that died), and
the highest epoch shown.

### EpochStore

An image is its epoch and a revision that tells saves apart; it is whole or
absent, because a temporary file is renamed in one step. `settled` is what a power
loss is sure to leave; a rename reaches it in the file system's own time
(`Settle`), because `atomic_replace` does not synchronise the directory. `Mishaps`
selects errors, power loss, an operator who restores a copy, and a lost image.

`died`, `acked`, `upheld` and `void` are history. `StoreContract` says what a
coordinator relies on: the image is replaced in order, the watermark follows it,
and only what is in place is acknowledged. It knows nothing of operators, so the
refinement mapping of `Contract` is `upheld`: the image, watermark and
acknowledgement as the coordinators of the store brought them about, without what
an operator did to the files in between. `void` says that the contract does not
apply any more: a power loss took a rename back, or a process found a watermark and no
image. The run follows a behaviour until then (`Followed`).

### EpochServer

`main`, `accept` and `pc[c]` are the program counters of the main thread, the
accept thread and the session threads. The registry mutex is visible through
`MutexFree`: the only place where it is held over two steps that others could
interleave is between the test of the predicate and the wait of the condition
variable. The runtime is abstracted to its current workers and its sessions. A
worker is a participant with a boot, and `Worker` says which one each connection
registers: several may register the same, again and again, or one boot under two
participants. `live` are the workers that are current, `sessions` the connections
that are bound, and `due` the session threads between a `register_participant` and
the `bind_session` of an incarnation that is current still. `bind_session` has its
three refusals: the incarnation is not current, the boot has a session (`SameBoot`),
the table is full. `close_session` fences the boot of its session, whichever
incarnation that has by then. An operation whose save throws is undone and ends its
session (`FailToSave`), with the undo of a first registration as it is in the code;
durable validation refuses a boot that is current for two participants (`Storable`),
so that saves also fail where `SaveMayFail` is false. `adrift` is history: workers
that were left current without a session, by a full table, by a boot that has a
session as another participant, or by a save that failed.

A peer may connect, send any frame of `Sent`,
stop in the middle of one, or leave, at any time. One frame per connection is
under way at a time: a peer that sends ahead only has its next frame read later.
With `AnswersRead = FALSE` a peer may also leave its answers unread, so that the
session thread blocks in `send_all` ("sending", or "refusing" for an error).

### EpochClient

`holder` is the thread that holds the mutex over several steps: from a request to
its answer, and during one bounded wait of `wait_for_disconnect`. `asked` and
`inbox` are the requests and frames under way on the current connection; they
carry the number of the call, which the client never looks at, so that the model
can tell whose answer a call took. The coordinator answers in order, refuses, or
hangs up, with or without an error frame that answers nothing. A worker process is
one thread that connects, says hello, registers and waits.

### ByteLayout, WireMessages and EpochImage

A byte string is a sequence of cells, one for each field the writer wrote, with its
width in bytes and a number for its contents. Widths are real, so that declared
lengths, sizes and the comparisons with what remains are exact. A layout is a
sequence of fields; a message or a record has one layout, from which both its
encoder and its decoder follow, and a field says where the two differ in the code:
the codes the writer's type can hold and the codes the reader takes, whether a
value without its flag is refused, the sizes the writer does not check (`Unchecked`), the largest count, the smallest row the reader
believes in, and whether rows must rise. A reader that is out of step with the
writer is refused; in the code it would read a number made of bytes of two fields,
which these layouts never cause on an undamaged input.

`EpochImage` writes the states `EpochRuntime` reaches: the image in place is
decoded with `decode_durable_payload`'s ceilings, and what is in memory is laid out
as snapshots and participant views and decoded as a peer with the same limits does.

### EpochWire

`stream` holds the bytes on their way in each direction. A digest is the number of
its frame, and `hashed` says what it was computed over: a digest matches exactly
when the bytes received are the ones it was computed over, which is what SHA-256 is
trusted for. The client calls, waits, reads or leaves; a frame is read with the
steps of `read_frame` and `receive`: the header, the declared length, the payload,
`decode_frame_header`, the digest, the decoder. Bytes that are not where a header
was written are read as a length that is too large, zero or one. The server's
session ends at the first frame it refuses, with an ERROR frame, and `Answers` is any
answer of the right type, so the properties hold whatever the runtime says. `Cut`
breaks the connection at a byte, `Alter` changes one field. `own` is a ghost that
says what failed at the coordinator itself: the runtime, the binding of a session, an
answer too large for a frame, or an explanation too long for its encoder. Requests and
the answer to HELLO also come with the sizes their encoders do not check (`Excessive`).

## 3. The runs

Eight runs pass.

| Run | Instance | What it shows |
|---|---|---|
| `MCIncarnations` | one participant of either policy on two boots, two attempts, two session identifiers, one grant, three epochs, six mutations, tables of one or two records (a ring of one fenced boot), single registrations and a batch of two | The type invariant; `FencedNotLive`, `NeverReissued`, `NoResurrection`: a fence is final although its records are pruned; `OneIncarnation`; `HistoryGrows`; `RestartAdvances`; `SavesAccepted`: the runtime never builds an image its own validation rejects; `AnswersAreTrue`: retained answers stay true; `GrantsFollowWhileRetained`: a grant serves its own incarnation as long as the ring has room (it does overflow here); `LostSessionIsFenced`. |
| `MCGrants` | two participants with a boot each, three grants over two scopes, two epochs, six mutations | `DelegationBounded`, `RevocationFinal`, `OldEpochsAreStale`, and `AnswersAreTrue` for grants. |
| `MCFaults` | two participants that present the same boot, two scopes, a grant, saves that fail in every way, processes that do and do not advance on open, four mutations, a provenance of 24 bytes | `RestartAdmitted` (whatever a save was interrupted in, the state in the image is valid and not below the watermark), `Durable`, `EpochMonotone` hold although the undo log is as it is (section 4). A shared boot makes `Valid` refuse images, so that path is taken too. `ImageLoads`: every image that was published is decoded to the state that was saved, with all tables at their limits. `ShownIsReadable`: a peer decodes every snapshot and view. |
| `MCStore` | one process at a time, three epochs, four saves, errors, crashes, power loss, restored and lost images | The store implements `StoreContract` (`KeepsContract`): images are replaced in order, and never one below the watermark, so that no process is locked out of its own image. It keeps what it acknowledged (`AckedSurvives`), leaves no temporary file behind (`NoDebris`); an image that was put back is detected (`EstablishesAboveMark`). |
| `MCWire` | three requests of any type, each plain, fullest or with one field changed; one break or alteration | `HeardWasAsked`: what the server acts on is what was asked, in order. `AnswersPair`: an answer is the one given to that call. `Blame`: why a session can end in a violation, which fences its worker; among the reasons are requests the client frames although the server's decoder refuses them (`Improper`). `NothingRefused`: no decoder of the client refuses an answer, but for a product version that is too long. `NobodyWaitsForNobody`: a call without a timeout always has something to wait for. |
| `MCServer` | two connections of one worker, which register, fence, advance, register the worker again while its earlier session is open, and query; room for two sessions, peers that may leave answers unread | `NoOrphans`: what is current has a session that will fence it, or is due one. The liveness property `LostWorkersAreFenced`. |
| `MCServerStop` | two connections that register one boot for two participants, advance, send unexpected frames and ask for a shutdown; room for one session, operations and fences that may fail to save | `ShutdownCompletes` (liveness), `StoppedClean`, and `NoOrphans` where each of its three exemptions occurs. |
| `MCClient` | two threads, two connections, six calls | `AnswersMatch`, `HelloFirst`, the discipline of the mutex (in `TypeOK`) and the liveness property `WaitEnds`. |

Four runs show where the code and its documentation disagree; each stops at a
counterexample (section 4): `MCLostParticipant`, `MCUntrueAnswer`, `MCBatch`,
`MCUnloadable`.

### Bounds

- `MaxGen` bounds mutations: every mutation raises the state generation, an
  opening too. Six let a participant be admitted, given a grant, fenced, admitted on
  its other boot, fenced, and admitted again on the first boot, which the tables of
  one record have forgotten; or be displaced in two mutations and lose an epoch.
- `MaxEpoch` is a parameter of the code (`UINT64_MAX`); a value of 2 or 3 also
  makes the exhaustion of the epoch reachable.
- Limits of one or two records make every bounded table overflow within the bound.
  Two attempts are enough for a table of one record to forget one of them and to
  meet it again.
- A batch has two requests, the least in which one can disturb the next; `Batched`
  names the pairs a run offers, of different participants or boots.
- `MaxMinted` and `MaxRev` number grants and saves. Three grants make a chain of
  two delegations; four saves are an opening, two mutations and a reopening.
- Two connections are two sessions that interleave; a third would be served by a
  thread like them. Two that register one worker make a boot whose earlier session is
  still open (`MCServer`); two participants of one boot make the session that belongs
  to the wrong one, and saves that validation refuses (`MCServerStop`). `Sent` is split over the two runs to keep them small; between
  them they contain every frame.
- `NameSize`, `NoteSize` and `ProvenanceSize` are the lengths of all texts of an
  instance. The shortest ones are the interesting ones: they make the smallest
  records.
- Three requests on a connection are a greeting, a request and another one after
  it that could take the wrong answer. Damage, further requests and varied answers
  are tried as long as every message so far is the plainest of its type
  (`AllPlain`): the checks on a frame do not depend on what its payload says, and
  the checks on a payload do not depend on earlier frames. A connection breaks at
  the first byte, the second, the end of a header, or the last byte; a field is
  altered to zero, to its successor or to more than the limit.
- Six calls of two threads are enough to connect, say hello, wait in one thread,
  and call, close and reconnect in the other; two connections let frames, flags and
  waiters of the first meet the second.

The runtime runs declare attempts and session identifiers symmetric: they are only
compared for equality, and all their properties are safety properties. The store,
the server, the client and the wire run without symmetry.

Deadlock is checked, except for the wire, whose client may have left, for the server, which may stop once its threads have
ended and its peers have left, and for the client, which may stop when its threads
make no more calls.

### Fairness

`EpochServer` assumes weak fairness of each thread: the accept thread, the main
thread, and every session thread. The code justifies it because every wait of a
thread is bounded or is ended by another thread: `accept_one` and `wait_readable`
poll with `io_wait`, a started frame has a receive budget, and the condition
variable is notified by `request_shutdown`. A send is the exception: it ends only
when the peer reads or leaves. `AnswersRead` says whether peers read;
`ShutdownCompletes` is checked with peers that do, `LostWorkersAreFenced` with
peers that need not. Nothing else is assumed of peers.

`EpochClient` assumes weak fairness of each thread (a call that has begun goes on
when it can) and of the coordinator's answers, which the server's loop justifies:
every frame it reads it answers or hangs up. The mutex is not assumed to be fair.
Calls are bounded by `MaxCalls`, so `WaitEnds` does not speak of a thread that is
starved by others calling without end.

`EpochWire` states no fairness. That a waiting call comes back is stated as the
invariant `NobodyWaitsForNobody`: there is always a step of the client or of the
server that reads something. (With the decoders in the enabling conditions TLC
cannot evaluate fairness of these actions in useful time.) No other module needs
fairness.

## 4. Where the code and its documentation disagree

Shown by runs (details and quotations in `PROJECT.json`, "findings"):

- `MCLostParticipant`: undoing a first registration pops the last participant of
  a table that was sorted since; another participant's record is lost.
- `MCUntrueAnswer`: `advance_epoch` leaves its idempotency record behind when its
  save fails; a retry is told the epoch advanced.
- `MCBatch`: in a batch, a registration that fences its incumbent may prune
  `recent_fences`, whose positions `fence_index` still holds as they were; a later
  registration of the batch then does not find the fence of its own boot, and a
  fenced boot is current while its fence is retained. `lookup_fence` misses it when
  the ring of the participant has also forgotten the boot.
- `MCUnloadable`: `decode_durable_payload` requires 65 bytes of remaining input for
  every transition, but one without provenance takes 61. A coordinator with the
  default options, no participants and two transitions writes an image that the
  next process refuses ("transition count exceeds remaining durable input").

Conditions under which a property of section 3 does *not* hold, as the models are
written from the code. They are the reason for the instances above:

- Under `FaultySpec`, `FencedNotLive` and `SavesAccepted` fail when a bounded table
  was full: the undo resizes it to its old length, which keeps the new record
  (`runtime.cpp:646`, `498`). After a failed advancement every later save is then
  refused. `RevocationFinal` fails because `restore_revocations` (`1600`) also
  revives grants an earlier request had revoked. `LostSessionIsFenced` fails
  because `close_session` erases the session before it saves the fence.
  `NeverReissued` and `OldEpochsAreStale` fail with a lost participant record
  (`928`), whose allocator starts again at one; `HistoryGrows` fails with the lost
  record, and with a floor that is undone after the image was replaced.
  `NoResurrection` fails when an advancement replaces the image, fails to raise the
  watermark and is undone: the next save puts the old epoch back.
- Under `FaultySpec`, `OneIncarnation` fails as well: when `record_fence` answers
  `AlreadyFenced` for the incumbent, `apply_registration` (`runtime.cpp:888`) goes on
  as if it were gone. An incumbent that is current and on record as fenced then
  stays, and a single-incarnation participant has two current incarnations, in
  memory and in the image, although `README.md:222` of the repository says "at most one
  current `WorkerBootId` per `ParticipantId`". It gets there by the lost record of
  `MCLostParticipant`: its fenced boot registers anew as the boot of an unknown
  participant, for which fences are not looked up. TLC finds it in eight states with
  `Deployment <- TwoBootsEach`, `ReplaceIncumbent = TRUE`, fence tables of two
  records and `MaxGen = 7`.
- `validate` (`runtime.cpp:1048`) compares the boot of a grant and not its
  incarnation, and nothing revokes a grant when its incarnation is fenced. When the
  fence of a boot is pruned and the boot registers again, the grant of the old
  incarnation validates for the new one, although `README.md:720` says that "no
  pruned *incarnation's* authority can ever become valid again, and re-registering a
  pruned identifier yields a brand-new incarnation that carries none of the old
  authority". TLC finds it in seven states of `MCIncarnations` (open, register the
  two boots in a batch, grant to one, fence it, fence the other, register the first again) once the conjunct
  `Complete` is taken out of `GrantsFollowWhileRetained`. With that conjunct, which
  confines it to participants whose ring has had room for every boot fenced, the
  property is checked in the same run and proved (section 5).
- With `"keep"` in `OpenModes` (`--no-advance-on-open`), `RestartAdvances` fails.
- `close_session` (`runtime.cpp:2223`) fences whatever incarnation the session's
  boot holds. After an epoch change and a new registration of that boot, a session
  of the old incarnation takes the new one away, although `README.md:321` says that
  losing a session "fences exactly that incarnation". `LostSessionIsFenced` says
  only that the closed session's incarnation is gone. The server depends on the
  wider fence: `bind_session` (`2178`) refuses a second session of the boot, so the
  new incarnation has none of its own, and `NoOrphans` would be false if the old
  session left it alone.
- `apply_grant` (`1401`) counts every grant ever made against
  `max_authority_grants`; nothing removes a grant.
- `load` (`store.cpp:298`) does not read the watermark when there is no image. A
  process that starts in that way works below the watermark, and its image is
  refused at the next load (`void` in `EpochStore`).
- On POSIX `atomic_replace` (`store.cpp:156`) does not synchronise the directory
  after the rename. A power loss after `save` has returned may bring the old image
  back, although `store.hpp:49` says that it "returns only after the replacement is
  durable". `EpochStore` has that step; `AckedSurvives` and the contract speak of
  stores it did not happen to.
- A session ends as a violation, and its worker is fenced, also when the fault is
  the coordinator's: a runtime exception, an answer larger than
  `max_frame_payload` (`server.cpp:170`, `370`), or an explanation with a detail longer
  than `max_string_size` (`protocol.cpp:117`). `Blame` lists these cases. With the
  default limits (64 KiB frames, 256 characters) the snapshot of some hundred
  participants is an answer of the first kind, and the acceptance of a registration
  whose scopes take more than 256 characters one of the second, since it names them
  all (`runtime.cpp:1000`): the worker is saved, bound, and fenced again.
- Encoders that do not check what their decoders do (`Unchecked` in `WireMessages`):
  `encode_hello` takes a role of more than 32 characters, which `decode_hello`
  (`protocol.cpp:371`) refuses; `encode_hello_ack` (`376`) a product version of more
  than 64; `encode_scope_set_canonical` (`codec.cpp:72`) more scopes than
  `max_scopes_per_grant`; `encode_participant` and scopes an empty name, that of a
  default `ParticipantId` or `AuthorityScope`. Such a request of an undamaged
  connection ends the session as a violation: `Improper`, one of the causes of `Blame`.
- A default `AuthorityScope`, whose subject is empty, also passes `apply_registration`
  (`runtime.cpp:778` looks at its kind only) when it is registered within the process.
  The decoders of the image and of snapshots refuse it. `EpochImage` gives every scope
  a name of `NameSize`, at least 1.
- When the peer of a violation is not told why (`server.cpp:374`, an exception that is
  no `EpochError`), no ERROR frame precedes the end (`EndUntold`).
- `query_participant` (`client.cpp:221`) takes any ERROR for an unknown participant,
  also the one with which a session ends in a violation; `AnswersPair` excepts it.
- A frame whose length was altered on the way shifts the stream: the client keeps
  the connection, and a later call may take an earlier answer, since request
  identifiers are not compared; or it waits for bytes nobody sends. `AnswersPair` and
  `NobodyWaitsForNobody` except it.
- An image written under larger limits loads, but its snapshots are refused by
  peers with the smaller ones; `ShownIsReadable` speaks of one set of limits.
- The ceilings of the image's decoder (`codec.cpp:29`: 64 scopes, 4096 bytes of
  text) are checked neither by `is_viable` nor for `options.provenance`.
- With two `Processes`, `KeepsContract` fails in `EpochStore`: `save`
  (`store.cpp:315`) does not compare the epoch it writes with the watermark, so a
  coordinator of an older epoch replaces the image of a newer one and acknowledges.
- With `AnswersRead = FALSE`, `ShutdownCompletes` fails: `send_all`
  (`socket.cpp:145`) has no timeout, and `stop` joins a session thread that waits
  for a peer to read.
- An incarnation stays current without a session that will fence it in three cases,
  which `NoOrphans` exempts (`adrift`): `bind_session` throws because the table is full,
  or refuses because the boot has a session of another participant (`server.cpp:257`);
  a save fails in `close_session`, which has erased the session (`runtime.cpp:2204`);
  or the undo of a first registration takes another record than its own away
  (`runtime.cpp:928`). `NoOrphans` says that there is no fourth.
- When the fence of `close_session` cannot be saved, the exception leaves `serve`
  before `active_sessions` is decremented (`server.cpp:387`): the count stays too high
  for as long as the server runs (`EndServe`). No property states it exact.
- `wait_for_disconnect` closes the socket in a second hold of the mutex
  (`client.cpp:279`). When another thread closes and reconnects in between, the
  waiter closes the new connection, although the old one is the one that ended
  (`EndWait` after `Connect` in `EpochClient`).

Beyond the models: the client has no receive timeout, so a coordinator that stops
in the middle of a frame blocks a call, and with it `close`, for as long as it
likes; and on POSIX `send` is called without `MSG_NOSIGNAL`, so that a second
write to a lost peer raises `SIGPIPE` instead of the exception the models throw.

## 5. What is proved

Every theorem holds for all values of the constants that satisfy the named
assumptions of its module (for the runtime `IdentifierAssumption`,
`LimitAssumption`, which is `is_viable(limits)`, and `RuntimeAssumption`), so for
any number of participants, boots, processes, threads, connections and records. A
theorem with a hypothesis says so; section 4 has the behaviour that makes each
hypothesis necessary.

### The runtime under failing saves (`RuntimeProofs`)

| Theorem | Statement |
|---|---|
| `TypeCorrect` | `FaultySpec => []TypeOK`: typed and bounded tables in memory and in the image |
| `RestartsAreAdmitted` | `FaultySpec => []RestartAdmitted`: what `load` checks of the state it has decoded |
| `ShownIsDurable` | `FaultySpec => []Durable` |
| `EpochNeverFalls` | `FaultySpec => EpochMonotone` |
| `RestartsAdvance` | `FaultySpec => RestartAdvances` when no process keeps the epoch on open |

`SpecIsFaulty` (`Spec => FaultySpec`) carries all of them over to `Spec`.

The argument. `RestartAdmitted` is not inductive: whether the image is admissible after a
crash depends on what the last save of a running process left. The inductive
invariant is `IInv == TypeOK /\ Durable`, where `Durable` says that the image
is admissible at every moment, that it is not behind any epoch shown, and that a running
process is at the highest epoch shown, which the watermark does not pass. One
lemma per operation (`RegisterType`, `FenceType`, `AdvanceType`, `GrantType`,
`RevokeType`, `RetireType`) shows that its result and its undo are well formed and
what they do to the epoch: only an advancement raises it, and every undo restores
it. `SaveInv` then treats the durability barrier once, for all operations and all
five endings of a save, and `StepInv` combines them. `AscentsExist` and
`SelectType` show that the selection of fenced incarnations in a retirement is
well defined, by induction on a finite set of positions.

### Incarnations, tokens, grants and answers (`AuthorityProofs`, `GrantProofs`, `IncarnationProofs`)

| Theorem | Statement, under `OneByOne` |
|---|---|
| `FencedIsNeverLive` | `Spec => []FencedNotLive` |
| `OneIncarnationAtATime` | `Spec => []OneIncarnation` |
| `SequencesAreUnique` | `Spec => []NeverReissued` |
| `EverySaveIsAccepted` | `Spec => []SavesAccepted` |
| `OldTokensAreStale` | `Spec => []OldEpochsAreStale` |
| `ReplaysAnswerTruly` | `Spec => []AnswersAreTrue` |
| `RetainedGrantsFollow` | `Spec => []GrantsFollowWhileRetained` |
| `DurableHistoryGrows` | `Spec => HistoryGrows` |
| `FencingIsFinal` | `Spec => NoResurrection` |
| `RevocationsAreFinal` | `Spec => RevocationFinal` |
| `LostSessionsAreFenced` | `Spec => LostSessionIsFenced` |

`OneByOne` says that registrations are calls of their own and that no boot is
presented for two participants. Without the first, `FencedNotLive` is false
(`MCBatch`); without the second, `SavesAccepted` is false, because durable
validation refuses a boot that is current for two participants. `Spec` is the
process whose saves return or die with it; with saves that throw, several of these
properties are false of the code (section 4, `MCUntrueAnswer`, `MCLostParticipant`).
Without `Complete`, `GrantsFollowWhileRetained` is false (section 4).

The argument. What `validate_durable_state` checks (`Valid`) is not inductive: an
image it accepts may have a current incarnation whose boot is on record as fenced,
two current incarnations of a single participant, or a child grant with more scopes
than its parent, and the operations go on from there. `Sound` is the strengthening
that every operation keeps. It adds that current incarnations are deployed boots
with distinct sequences below the allocator and appear in neither fence table, that
the floor is below the allocator, that a boot has at most one retained fence, that
a participant nobody registered has nothing, and `Delegated`. `SoundIsValid` and
`SoundIsFenced` derive durable validation and `FencedNotLive` from it.
`Follows(s, t)` says what a later state keeps of an earlier one: floors, allocators,
retirement, grants and revocations, and that an incarnation of `t` is one of `s` in
the same epoch or has a sequence the allocator had not passed. It is reflexive and
transitive. `RegisterSound`, `FenceSound`, `AdvanceSound`, `GrantSound`,
`RevokeSound` and `RetireSound` show both of each operation, and `RevokeSound` rests on
the cascade being closed under delegation.

`AInv`, the inductive invariant of the process, says that the image is sound, that
memory is the image, that grants have generated identifiers, and that the tokens
issued so far (`Issued`) are of sequences the allocators have passed, no two with
the same participant and sequence. `StepAuthority` shows, one step per action, that
a step keeps it and what it does to the image (`Keeps`); since durable validation
accepts a sound state, the undo log never runs under `Spec`. The theorems follow.

For `AnswersAreTrue` the invariant also has `Answers`: what each retained record
asserts, with the addition that a fenced sequence is below the allocator. Without
it "not current" could become false later. `AnswersLast` shows that what was
true of a state is true of every state that follows it, and `RegisterRecalls`,
`FenceRecalls` and the rest that an operation remembers only what it has done.

For `GrantsFollowWhileRetained`, which `validate` does not check as such, the
invariant has `Tied`: the incarnation of every grant of the current epoch is current,
or its participant is retired, or its boot is in the ring of its participant, or
that ring has been full and may have dropped the boot. It rests on two
facts: a boot leaves the ring only when the ring is full (`RingGrows`), and a boot in
the ring is never current, which `Sound` provides.
`Tracks(s, t)` says what an operation owes to the tie, `RegisterTracks`,
`FenceTracks` and the rest show it of each, and `TiedLasts` carries the tie over. A
new epoch drops every tie, because a grant of an older epoch is refused. `TiedIsFollowed`
concludes: a validation that succeeds finds the boot of the grant current, so the boot
is not in the ring, so as long as the ring is not full the current incarnation is
the one of the grant.

### Delegation under failing saves (`FaultProofs`)

| Theorem | Statement |
|---|---|
| `DelegationSurvivesFailures` | `FaultySpec => []DelegationBounded`, without `OneByOne` |

Of the promises about incarnations and grants this is the one that failing saves
do not break. Memory and the image part when a save throws, and a later save
replaces the image by memory, so the invariant `FInv` asks the same of both
(`Derived`): identifiers are unique and were generated, and every delegated grant is
within its parent and revoked with it. The interesting step is the undo of a
revocation (`RevokeUndoDerives`). It revives everything below the grant, whatever
was revoked before, so it must not revive a child of a revoked grant.
`DescentIsDerived` shows that it visits only grants whose parent it visits, by the
minimality of the visited set, and the root itself was not revoked, hence no grant
above it. All other undos leave the grants as they were (`UndosKeepGrants`), also
where they lose a participant's record.

### The store (`StoreProofs`)

| Theorem | Statement |
|---|---|
| `StoreTypeCorrect` | `Spec => []TypeOK` |
| `ThrownSavesLeaveNothing` | `Spec => []NoDebris`, with any number of processes |
| `AcknowledgedSurvives` | `Spec => []AckedSurvives`, under `SingleProcess` |
| `OpenedAboveMark` | `Spec => []EstablishesAboveMark`, under `SingleProcess` |
| `StoreImplementsContract` | `Spec => KeepsContract`, under `SingleProcess` |

`NoDebris` needs to know which temporary file a save has at each of its steps
(`TempsAccounted`). The others rest on `Upheld`: until the contract is void, the
recorded watermark and acknowledgement are the ones in place, revisions only grow,
and the process is where its program counter says it is in relation to the image and the
watermark (`Placed`). With two processes the refinement is false (section 4).

### The server (`ServerProofs`)

| Theorem | Statement |
|---|---|
| `ServerTypeCorrect` | `Spec => []TypeOK` |
| `StopsClean` | `Spec => []StoppedClean` |
| `OrphansAreAccounted` | `Spec => []NoOrphans`, for every assignment of workers to connections, every size of the table, and failing saves |
| `NoOrphanIncarnations` | `FenceOnSessionLoss` gives `Spec => []AllCovered`: every current worker has a session of its own or is due one, under `NothingGoesWrong` |

`NothingGoesWrong` excludes the three cases of section 4: a boot of two participants,
saves that fail, and more connections than the table has room for. It does not exclude
that connections register one worker again while its earlier session is open, which is
where `bind_session` refuses although nothing is wrong.

The invariant is `Counted`, which bounds the counter by the threads that have
incremented it, and `Accounted`, which relates the registry, the bound sessions and the
program counters. The counter's type alone is not inductive: that it is never
decremented below zero follows from `Counted`, by cardinalities of finite sets.
`NoOrphans` is inductive with them (`NoOrphansStep`): a session that ends takes with it
the worker it covered, whichever connection that worker was last admitted for, and a
`bind_session` that is refused leaves its worker to the session that made it refuse.

### The client (`ClientProofs`)

| Theorem | Statement |
|---|---|
| `ClientTypeCorrect` | `Spec => []TypeOK`, the discipline of the mutex included |
| `AnswersAreOwn` | `Spec => []AnswersMatch` |
| `HelloComesFirst` | `Spec => []HelloFirst` |

Request identifiers are never compared, so that an answer is the right one only
because nothing else can be under way. `OneExchange` says so: a thread that awaits
an answer has its request or its answer, and nothing else but a final error, on
the connection; when no thread awaits one, nothing of a call is under way.

## 6. What is only model-checked

- Liveness (`ShutdownCompletes`, `LostWorkersAreFenced`, `WaitEnds`), which is beyond the
  proof system's reach, as fairness and ENABLED are.
- What the decoders compute (`ImageLoads`, `ShownIsReadable` and all of `EpochWire`):
  `ByteLayout` is recursive, and what a recursive definition computes for every
  input is beyond the proof system. No module with a theorem uses it.
- The properties of `IncarnationProofs` for a runtime with batches of registrations
  (`MCIncarnations` offers a batch of one participant's two boots). Under failing
  saves they are false, but for delegation.

## 7. Plan

What is left, in this order:

1. *Batches.* A condition on `Batched` and the tables under which `FencedNotLive`
   survives a batch, and `Sound` under it.
2. *Server on runtime.* The server's sessions on the operations of `EpochRuntime`
   itself, and a client composed with them.
3. *Grants.* A condition weaker than `Complete`: the ring may overflow as long as the
   boot of the grant is not the one it drops.

## 8. What is not modelled

- SHA-256, as a computation: a digest matches exactly the bytes it was computed
  over. Digests of state are read-only and not looked at by any decision.
- The digest, magic and version of an image and damage to its bytes: an image is
  whole, absent or replaced by an older one.
- Identifier generation, parsing and formatting, and scope parsing: pure functions,
  represented by equality, order and length of the values they produce.
- The wording of explanations: on the wire they are a code and a number of details.
- Argument handling of the programs and the command line, which makes one request
  per invocation through the client and keeps no state.
- Secondary indexes other than the fence index within a batch: every other operation
  finds them rebuilt.
- Signals and receive timeouts of the operating system (section 4).

Smaller simplifications, which no property depends on:

- `BindSession` takes an identifier that is not in use; `bind_session`
  (`runtime.cpp:2185`) would overwrite the entry. The server generates an identifier
  for every connection.
- `RetireTo` looks all fences up in the tables as they were; `apply_retire` (`1672`)
  goes on through `fence_index`, whose positions a pruning (`707`) makes stale. The two
  differ only for a boot that two participants share, with the table full.
- The receive budget is that of one `recv` (`socket.cpp:132`, `166`): a peer that
  trickles bytes delays the end of a frame, up to its declared length, where
  `ReceiveEnds` has a single step.
- An encoder and its decoder share one layout, so that fields written in one order and
  read in another would not be noticed.
- `RestartAdmitted` says nothing of decoding: `Open` of `EpochRuntime` starts from the
  state that was saved. `ImageLoads` says that the bytes decode to it, in `MCFaults`
  together with `RestartAdmitted`; `MCUnloadable` has an image that does not decode.
