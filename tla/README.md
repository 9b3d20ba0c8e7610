# Verification of the class-group OLE programs

The repository implements batched oblivious linear evaluation (OLE) over
class-group encryption, the protocols built on it (OPE, OPA, OLE3, PSI, PSI2),
and variants in which two reverse firewalls sit between receiver and sender.
Each role is a program of its own; programs talk over TCP and compute in a
thread pool. This directory holds TLA+ models of the code, TLC configurations,
and TLAPS proofs. `PROJECT.json` maps every definition to its source lines.

## 1. Inventory

### Components, their state and operations

| Component | Source | State | Operations |
|---|---|---|---|
| Thread pool | `cg_thread_pool.hpp` | queue, stop flag, mutexes, condition variables; per call: claim counter, finished counter, first exception | constructor, destructor, `worker_loop`, `parallel_for` |
| Encryption and mauling | `third_party/cg_ahe/cg_ahe.hpp`, `cg_rf_common.hpp` | keys, ciphertexts | `encrypt`, `decrypt`, `add`, `cmult`, `maul_pk`, `maul_fwd_rerand`, `maul_inv_rerand` |
| Lane sharding | `cg_rf_ole_batch.hpp` | none | `rf_lane_range`, `rf_lane_range_intersection` |
| Lane setup and lane I/O | `cg_rf_ole_batch.hpp` | sockets per lane, a thread per lane, stored exception | `accept_rf_lanes`, `connect_rf_lanes`, `rf_parallel_io`, `send_ct_lanes_range`, `recv_ct_lanes_range` |
| Batched RF-OLE | `cg_rf_ole_batch.hpp`, `cg_rf_*_firewall_opa.cpp` | key, chunk position, buffers, outputs | key exchange, round 1, round 2 of four programs |
| Standalone RF-OLE | `cg_receiver.cpp`, `cg_rrf.cpp`, `cg_srf.cpp`, `cg_sender.cpp` | key, loop index, outputs, verdict | header, round 1, round 2, verdict |
| Direct batched OLE | `cg_ope_common.hpp` | chunk position, buffers, outputs | lock-step chunks, acknowledgement |
| Whole-batch direct OLE | `cg_batch_ole_*.cpp` | buffers, outputs | one transfer each way, no acknowledgement |
| Three-round OLE (OLE3) | `cg_ole3_*`, `cg_rf_ole3_*`, `cg_rf_*_firewall_ole3.cpp` | keys, blinds, masks, outputs | key and coefficients from the sender, masked answers back, plain results forward |
| Reveal through the firewalls | `cg_rf_psi2_reveal_*.cpp` | keys, slots, filter | key forward, bound check, encrypted slots back |
| OPE, OPA, PSI, PSI2 | `cg_ope_*`, `cg_opa*`, `cg_rf_opa*`, `cg_psi*`, `cg_rf_psi*` | inputs, polynomials, outputs | local algebra around OLE batches, direct reveal |
| Polynomial arithmetic | `cg_rf_common.hpp` | none | NTT, multiplication, product tree, evaluation, interpolation |
| TCP and encoding | `cg_network.hpp` | sockets | connect with retries, listen, accept, `send_all`, `recv_all`, integers, ciphertexts |
| Launch scripts | `run_*.sh`, `scripts/run_common.sh` | children, logs, deadlines | start in order, wait for "listening on", `cg_wait_all`, clean up |
| Checkers | `cg_check_*.cpp`, `*.py` | none | recompute outputs from dumps |
| Files | `cg_bench_io.hpp` | files | read, write |

### Interactions

Receiver, receiver's firewall (RRF), sender's firewall (SRF) and sender form a
chain; each neighbour pair shares one connection per lane. The public key
travels once along the chain, each firewall shifting it. Round 1 carries the
receiver's ciphertexts to the sender, round 2 carries the answers back.
Ciphertexts have no index: position on the lane is all that identifies them.
Inside a program, the main thread, the thread that encrypts `b`, and the lane
threads share the pool or the sockets. Failures travel as closed connections.
In OLE3 and the encrypted reveal the key belongs to the sender and the
directions alternate, with up to five kinds of messages on the same lanes. Each
party's launch script starts its two programs per phase, waits for them, and
goes on to the next phase on its own; the scripts do not talk to each other.

### What is hard here

- the lifetime of `parallel_for`'s locals against its last task, lost wakeups,
  exceptions while other tasks run, two callers on one queue;
- bounded socket buffers in both directions of a chain of four programs;
- programs that read lanes, counts, chunk sizes and validation each from
  their own environment;
- one lane of several failing while threads block on the others;
- a program that dies in the middle of a round;
- well-formed ciphertexts under the wrong key, or at the wrong index, which
  nothing on the wire reveals;
- algorithms selected by sizes and settings, with two kinds of public points,
  and programs that may be told different sizes;
- start-up: eight programs on two hosts, started in any order, where listeners
  give up earlier than connectors.

`PROJECT.json` lists these as hazards with the line where each one bites and
the property that would notice.

### What makes each component correct

- Thread pool: `parallel_for` runs every index exactly once, returns only when
  all have run, throws only what a task threw; no task touches the caller's
  frame afterwards; calls and shutdown end.
- Lanes: the ranges partition the batch; a batch arrives in place or the
  reader fails; a broken lane releases the others.
- RF-OLE: the receiver's outputs are `a x + b`; streams stay aligned whatever
  the chunk sizes; rounds do not overlap; everyone ends.
- Standalone: a program reports success only if all outputs are right.
- Direct OLE: both ends work on the same chunk; the sender closes last.
- OLE3: the output is the OLE of the sender's coefficients and both firewalls'
  blinds; the sender sees only masked results.
- Reveal: Party A gets Party B's values that it owns, or fails.
- Launch: a tolerable delay fails nothing; a script never succeeds without its
  programs and without the data they report on, and never leaves one running.
- Polynomials: whichever algorithm the settings select, the result is the
  product, the values or the interpolant; OPE's masks cancel.
- PSI: the receiver outputs the common elements (and roots of the mask); the
  reveal step of PSI2 tells the sender the same.

## 2. Modules

| Module | Models | State and actions |
|---|---|---|
| `ParallelFor` | abstract specification of `parallel_for` | which indexes ran or threw, and the outcome of the call |
| `ThreadPool` | `cg_thread_pool.hpp` | one action per step between lock operations: `SpawnWorker`, `SpawnFails`, `Destroy`, `NotifyStop`, `JoinWorkers`; `Call`, `Dispatch`, `NotifyWork`, `CheckDone`, `Return`, `RunInline`; `WorkerPop`, `TestException`, `Claim`, `RunFn`, `CatchException`, `LockDone`, `CountDone`, `UnlockDone`; spurious wakeups |
| `LaneRange` | lane sharding | operators only |
| `AHE` | encryption in the exponents | operators only: a ciphertext is `[r, m, e]` for `(h^r, f^m h^e)` |
| `LaneLink` | lane setup and `rf_parallel_io` between two programs | settings of each side, connections, lane threads; `Connect`, `Accept`, `AcceptorId`, `AcceptorMeta`, `ConnectorMeta`, `StartIo`, `LaneWrite`, `LaneRead`, `Caught`, `Join`, `Timeout`; `Stray`, `StraySends` and `StrayReads` for a process of another run |
| `RfOle` | batched RF-OLE, four programs | phase, step, chunk begin and lane positions per program; `LaneSend`, `LaneRecv`, one action per chunk computation, deaths |
| `StandaloneOle` | the four standalone programs | one action per message sent or received, verdicts, `Timeout`, `PeerGone` |
| `DirectOle` | direct batched OLE, chunked and whole-batch | like `RfOle`, two programs, plus `Setup` and acknowledgement; `Batch*` are the steps of the whole-batch programs (`whole`) |
| `RelayChain` | OLE3, direct and with firewalls; the encrypted reveal | each program is a script of sends, receives and relays, taken from its `main`; `Prepare`, `Received`, `CheckBound`, `Transform`, `Examine` (one turn of the loop over the revealed values), `Sent`, `LaneSend`, `LaneRecv`, deaths |
| `Launch` | the LAN scripts of two-way RF-PSI, `cg_wait_all`, retries and timeouts | where each script and program is, with timers; `Boot`, `FirstReady`, `SecondReady`, `NotReady`, `ChildFailed`, `ChildrenDone`; `Connect`, `GiveUp`, `Pass` (a program hands on the data of one direction), `EndProgram`, `Crash`; `Tick` |
| `Polynomial` | polynomial arithmetic of `cg_rf_common.hpp`, OPE's reduction | operators only; settings are the argument `env` |
| `PolynomialJobs` | the algorithms, run on chosen inputs | one action per kind of call: `Multiply`, `Evaluate`, `Reconstruct`, `Ope`, `Opa`; the offline checkers `CheckOpe`, `CheckOpa` |
| `Psi` | PSI without and with firewalls, direct PSI2 | `ReceiverPrepare`, `SenderPrepare`, `Reject`, the outcomes of the batch (`Exchange`, `ExchangeRefused`, `ExchangeShort`, `ExchangeLong`, `ChainBroken`), `Output`, `Connect`, `RevealSend`, `RevealRecv`, `RevealEnd`, `GiveUp` |
| `ArithmeticProofs` | the theorems about `LaneRange` and `AHE`, which the protocol proofs share | |
| `ThreadPoolProofs`, `RfOleProofs`, `DirectOleProofs`, `StandaloneOleProofs`, `RelayChainProofs`, `LaneLinkProofs`, `LaunchProofs` | the theorems about each component | |
| `MC*` | instances | inputs that differ at every index, so that misplaced data shows |

`RfOle`, `DirectOle` and `RelayChain` compose `AHE` and `LaneRange`; `LaneLink`
uses `LaneRange`. The lane threads of these three are the successful case of
`LaneLink`; a failing lane is there the death of its program. In `Launch` a
program hands on all the data of one direction in one step, which `RfOle` and
`RelayChain` detail; the hops are separate steps, between which programs die.
`Psi` uses `Polynomial`, and a batch of OLEs is one step in it: with equal counts
what `DirectOle` delivers, with unequal counts the outcomes that lock-step
chunks on one lane allow (both fail, the receiver gets all it asked for, or
the sender takes a ciphertext for the acknowledgement), and with validated
lanes the refusal of `LaneLink`.

Abstractions. A computation of the pool over a chunk is one step in the
protocol modules: that is what `ParallelFor` promises. A group element is its
exponents, with the exponent of `h` an unbounded integer, since its order is
unknown to the program; `Decrypt` of anything that is not an encryption under
the key is `Garbage`. A connection is a FIFO queue per direction with `Cap`
ciphertexts of room. Coins, keys and shifts are constants, distinct per use.
Timing output, profiling and file input are left out. Polynomials follow the
build without NTL; a call that throws returns `Thrown`. In `ThreadPool` the
variables `ran` and `thrown` are history, used by the refinement only.

## 3. Runs

| Run | Shows |
|---|---|
| `thread_pool` | pools of 0, 1, 2 workers, two callers: `ThreadPool` implements `ParallelFor`; every call returns; every shutdown ends |
| `thread_pool_shared` | two callers with two tasks each on two workers: `NoDanglingFrame` and the accounting invariant behind it |
| `prewarm` | (violation) `prewarm_pool` need not reach every worker |
| `rf_ole` | two lanes, each program with chunk size 1 or 2, three items, one program may die at any step: `StreamsAligned`, `PhaseSeparation`, `OutputsCorrect`, `EveryoneEnds` |
| `standalone_ole` | counts 1, 3 and 4, equal or not: `VerdictSound`, `FitsNeverStuck`, `EveryoneEnds` |
| `standalone_backpressure` | (violation) four items block all four standalone programs when a buffer holds one |
| `direct_ole` | chunked and whole-batch, equal and unequal chunks, with and without validation: `LockStep`, `SenderClosesLast`, `OutputsCorrect`, `Completes` |
| `lane_link` | lanes, counts and validation differ between the sides; up to two of: broken lanes, threads that cannot be created, a connection of another run, with equal or different metadata: `InPlace`, `NeverStuck`, `EveryoneEnds`, `Completes` |
| `polynomials` | twelve polynomials, three lists of points, six domains, 24 settings: `ProductsExact`, `EvaluationsExact`, `ReconstructionExact`, `SharesExact` |
| `relay_chain` | OLE3 with and without firewalls and the encrypted reveal, two lanes, chunk sizes 1 and 2 per firewall, one death: `InTurn`, `Ole3Exact`, `RevealExact`, `EveryoneEnds` |
| `launch` | both scripts and eight programs, started 0 to 12 ticks apart, one crash, in the middle of an exchange too: `InTime`, `Verdicts`, `BothEnd` |
| `psi` | one-way (with and without firewalls) and two-way, right and wrong sizes and counts, equal and unequal points, validated or not: `IntersectionExact`, `RevealExact`, `EveryoneEnds` |

### Bounds

- Two workers and two callers: every pairwise race of the pool (worker with
  worker, worker with caller, task of one call with task of another) needs no
  more. `Ranges` holds an empty range, one chunk of two indexes, and one chunk
  per worker.
- Three to five items on two or three lanes: the lanes do not divide the batch,
  ranges of different length occur, and a chunk ends inside a lane's range.
  Chunk sizes 1 and 2 (1 to 5 in `direct_ole`) put chunk ends of neighbours
  at different places.
- `Cap = 1` is the tightest buffer; a larger one only adds room. `standalone_ole`
  includes a count just inside and one just outside what the buffers hold.
- One death (`rf_ole`, `relay_chain`, `launch`) or two broken lanes
  (`lane_link`), on any side, so that both sides may cancel at once.
- The reveal has three slots and is given nothing, fewer values than slots, as
  many, and one too many, with values A does not own and with 0, the padding.
- A tick of `launch` is 90 s: the I/O timeout is 2 ticks, the retries 8, the
  wait for readiness 10 and for children 40, the defaults of the code. Twelve
  ticks of delay exceed the timeout and the retries. The scripts' own limits
  are longer than the programs can take and do not strike with these values.
  Programs may take a tick to end after they have handed on everything, so
  that the parties enter the second phase apart.
- `Params = {1}`: chunk size and digest can differ only for the connection of
  another run, where they may be equal too; a difference between the two
  programs is caught by the same comparison as a count that differs.
- Polynomials modulo 17, whose group has a power-of-two order like that of the
  real prime's transform domains, and modulo 13, where the transform is
  unavailable. The thresholds, 32 and more in the code, are set so low that
  four coefficients reach the fast algorithms, and so high that none is.
- PSI on sets of one and two elements with masks over {0, 1}: degree 0 to 4,
  3 to 9 points. The sets hold 0, the padding value, and 16, a root of
  `1 + x`, so that masks vanish on elements and false members occur. The
  programs are told a size of 1 to 3 for the other set, the receiver 7 too.
  `MaxItems` is 9: with two elements of its own the receiver then needs 10
  points, which is refused at once; with one it needs 9, which is refused only
  where it is rounded up to 16. Different sizes give the two programs of PSI2
  different numbers of slots.

### What `psi` says about configuration

With `CG_VALIDATE_LANES=1` one right size is enough: the counts of points are
compared, and the digest holds the setting that selects the kind of points.
Without it a wrong size or a different `CG_USE_NTT_POLY` can pass unnoticed
and the output is then arbitrary; `IntersectionExact` makes no claim there. If
both programs are told too small a size, equal counts do not help either. The
sender of PSI2 may output a zero that is not common; the code documents this,
and `RevealExact` shows that it is the only such value.

`CG_RF_EXPECTED_N` is a third opinion on the count. With validation any
difference fails on some link. Without it a difference always leaves the
receiver without all its answers, so that it fails; only the sender may end
normally although the receiver does not.

### What `launch` says about start-up

Party A may be started up to an I/O timeout (180 s) after Party B, because B's
firewall is then listening, and B up to all the retries (720 s) after A. Within
these limits nothing fails, in the second phase neither, although the scripts
enter it at different times. That is proved for all settings that leave room for
one another (`Ample`, section 4). Outside them programs give up, and a script
that fails leaves none behind.

Data go from program to program, and nobody acknowledges them: a program returns 0
after its last send. Success of a script therefore says something of the programs
before it, and nothing of those behind it. `Verdicts` tells what that amounts to:
whichever script reports success, the data of the one-way PSI have been with all
four programs of that phase; if it is Party A's, the revealed slots have arrived
too. Party B's success does not say that: A's programs may have died with the
slots on their way. `VALIDATION.md:52` notes the missing acknowledgement for the
timing of the two parties.

### What `lane_link` says about other runs

`CG_VALIDATE_LANES=1` compares lanes, count, chunk size and a digest
(`cg_rf_ole_batch.hpp:77`) that holds the group, the polynomial settings and
`CG_PROTOCOL_ID`, not `CG_SESSION_ID`. A second run of the same protocol with
the same settings passes. If one of its connections reaches the acceptor first,
the acceptor takes its items for those of the lane that it named. `InPlace` says
what remains: with validation all other lanes are in place, and a connector is
never misled.

### Fairness

Threads and processes keep running: weak fairness of each worker, each caller
and the owner in `ThreadPool`, of each process in `StandaloneOle`. In `RfOle`,
`LaneLink`, `DirectOle`, `RelayChain` and `Launch` the assumption is weaker,
`WF_vars(Progress)`: as long as someone can go on, someone does. That is enough
because every step leads on towards an end, and it is less than any scheduler
guarantees. Nothing is assumed about which index throws, about spurious
wakeups, deaths, strays, or which worker a notification reaches. Timeouts
(`SO_RCVTIMEO`, `SO_SNDTIMEO`, 180 s by default, on listeners too) do expire.
In `StandaloneOle` they may expire whenever a program is blocked; in
`DirectOle` and `LaneLink` only when nobody can move, that is, they are taken
to be longer than any delay of a live peer, so that `Completes` can be stated;
in `Launch` they have their length. In `Psi` local computations end
(`ComputationsEnd`, which is weak fairness written without `ENABLED`, because
TLC would evaluate the polynomials again), and the wait for the reveal
connection may time out at any moment.

### Two disagreements with the repository's words

- `prewarm`: the comment at `cg_rf_receiver_firewall_opa.cpp:16` says that all
  workers are forced to initialise. One worker can run all the indexes. The
  results are unaffected; only the timed phase can pay for the initialisation.
- `standalone_backpressure`: `cg_sender` answers while round 1 still flows.
  `cg_rf_ole_batch.hpp:386` explains why that can deadlock and why the batched
  sender waits; the standalone programs do not. `FitsNeverStuck` gives the
  batch size up to which this is harmless, `2 * Cap + 1` in the model, and
  `EveryoneEnds` shows that the timeouts end it.

## 4. Proofs

All for arbitrary constants: any number of workers and callers, any batch,
number of lanes, chunk sizes, buffers, keys, coins and inputs.

| Module | Theorem | States |
|---|---|---|
| `ThreadPoolProofs` | `Typing`, `TasksAccounted`, `FrameOutlivesTasks` | `[]TypeOK`, `[]TaskAccounting`, `[]NoDanglingFrame` |
| | `IndexesAccounted`, `PoolImplementsParallelFor` | `[]Accounting`, `Spec => AbsSpec` |
| `ArithmeticProofs` | `LanesCoverEnds`, `LanesPartition` | the lanes partition `0..n-1` |
| | `RoundTrip` | encrypted, mauled, evaluated, unmauled, decrypted: `a x + b mod q` |
| `RfOleProofs` | `FlowInvariant`, `RfOleTypes`, `StreamsStayAligned`, `RoundsSeparated`, `ReceiverOutputs` | `[](TypeOK /\ Flow)`, `[]TypeOK`, `[]StreamsAligned`, `[]PhaseSeparation`, `[]OutputsCorrect` |
| `DirectOleProofs` | `DirectFlow`, `DirectTypes`, `LockStepHolds`, `ClosesLast`, `DirectOutputs` | `[](TypeOK /\ Flow)`, `[]TypeOK`, `[]LockStep`, `[]SenderClosesLast`, `[]OutputsCorrect` |
| `StandaloneOleProofs` | `StandaloneFlow`, `StandaloneTypes`, `VerdictsSound`, `FittingBatchesFlow` | `[](TypeOK /\ Flow)`, `[]TypeOK`, `[]VerdictSound`, `[]FitsNeverStuck` |
| `RelayChainProofs` | `RelayFlow`, `RelayTypes`, `StaysInTurn`, `Ole3Outputs`, `RevealOutputs` | `[](TypeOK /\ Flow)`, `[]TypeOK`, `[]InTurn`, `[]Ole3Exact`, `[]RevealExact` |
| `LaneLinkProofs` | `LinkFlow`, `LinkTypes`, `ItemsInPlace`, `NobodyStuck` | `[](TypeOK /\ Flow)`, `[]TypeOK`, `[]InPlace`, `[]NeverStuck` |
| `LaunchProofs` | `ScriptsSupervise`, `VerdictsMean`, `RevealFollowsPsi` | `[](Typed /\ Supervision)`, `[]Verdicts`, no slot handed on before the data of the PSI have been with everybody |
| | `LaunchTypes`, `LateStartsTolerated` | `[]TypeOK`, `[]InTime` |

### Thread pool

`NoDanglingFrame` is not inductive. `TaskAccounting` says where each task
`<<c, k>>` of a call is: in the queue, in one worker, or counted, in exactly
one of these, with `finished` the number counted and `done_mu` held by exactly
the worker between its lock and its unlock. That no task is left when the
caller sees all of them finished needs the counting; that the last task
has left the frame needs the lock, which the caller takes to test the counter
and that task releases with its last access.

`Accounting` adds the indexes: each one has run, is claimed by exactly one
worker, lies ahead of the shared cursor, or was given up because an exception
is stored (`ClaimAccounting`, `IndexAccounting`, `CatchAccounting`,
`TaskEndAccounting`). The refinement rests on it: a `RunFn` is an abstract run
of an index that has not run, a `Return` happens when the abstract call may
end with the same outcome, and every other step is a stutter.

### Protocols

The four protocol proofs have the same plan. What is to be shown, that data
arrives at the right index under the right key, says nothing of the middle of a
transfer, so `Flow` describes it:

- `Placed`: which steps a program can be at, and how far its lanes are within
  its current chunk;
- alignment: on every connection whose ends are alive, what was written is
  what was read plus what is in flight, and the `j`-th item in flight is the
  message the reader expects there. A reader that has failed is exempt, a
  writer that has failed only ends the stream early;
- buffers: what was received and prepared up to the lane positions is the
  right ciphertext for its index;
- outputs: what was decrypted is `a x + b` at its index, which is `RoundTrip`
  and its lemmas applied to the buffers.

Frame lemmas say that a step of one program leaves the others' part of `Flow`
alone, and the lemma `Reached` of `ArithmeticProofs` that the positions reached at the end of
a chunk are where the next one starts. Beyond this plan:

- `RfOle`: `KeysChained` (each hop holds the key shifted by the firewalls
  before it) and `Relayed`: when the sender answers, both firewalls have
  forwarded all of round 1. `PhaseSeparation` needs it, and it has to hold even
  if a firewall has died by then, so it is stated from what the sender has got,
  not from where the firewalls are.
- `DirectOle`: `Sync` (with equal settings both loops are in the same chunk, or
  the sender is one ahead of or behind the receiver's transfer) and `Kept`
  (the results of earlier chunks, the whole-batch sender's `Enc(b)`, and that an
  acknowledgement means a receiver with all its results).
- `StandaloneOle`: the cursors `Given` and `Taken` of each link count the header
  and both rounds. `Agreed` says that only a sender with the receiver's
  count answers; it is stated over the answers in flight as well, so that it
  survives the sender's death. `FitsNeverStuck` is then arithmetic: four
  programs that all wait have cursors that only a batch of more than
  `2 * Cap + 1` items allows. The bound is sharp, as `standalone_backpressure` shows.
- `RelayChain`: a program is a script, so the cursors count messages as well as
  items: `Total` is what all earlier messages of the script put on a lane, and
  the item at a cursor is identified by message and index together. `InTurn` is
  then that both ends of a link agree on what the next item is. The blinds take
  a lemma of their own (`Unblind`): both firewalls' shares, added under
  encryption and once more to the plain result, leave `a x + b` of the blinded
  coefficients modulo `q`. `RevealExact` needs an invariant of the loop over the
  revealed values, which is why the model takes that loop one value at a time.

### Lane set-up and lane I/O

`InPlace` and `NeverStuck` relate where two processes are that may have been
given different settings, so `Flow` of `LaneLink` is about both and about each
connection between them:

- `Accepting`, `Connecting`: a connection is in the backlog, being examined or
  stored under the lane that it named, in exactly one of these, and none gets
  lost while the listener is open;
- `Compared`: a side that validates and has passed a connection of its peer
  knows that the other validates and that the metadata is equal;
- `Streams`: the `n`-th message on a connection is the lane id, the metadata or
  the ciphertext that its reader takes it for, with cursors as above, also for
  sides that disagree on whether metadata is sent;
- `Threads`, `Read`: a lane thread that is not finished runs or has been
  cancelled, and what it has stored are the writer's items from the start of
  the writer's range on;
- `Closing`: with equal settings nobody fails during set-up.

That a different number of lanes never goes unnoticed is a counting argument
(`FewerLanes`): an acceptor that fills all its lanes from a connector with
fewer of them would have two lanes with the same connection. `NotStuck`
goes through the pairs of places at which the two sides can be: each one has
a message on its way, a queued connection, or a cancelled lane. A process of
another run can take one lane of the acceptor, without validation or with equal
metadata, and go on sending and reading (`StraySends`, `StrayReads`). The rest of
`InPlace` survives that: `Streams` is about each connection by itself, and one
lane that belongs to the peer is enough for `Compared` to give equal counts
(`ComparedInPlace`, `UntakenInPlace`).

### Launch scripts

`Supervision` has two parts. `Supervised`: programs of a later phase are not
started, those of an earlier one have ended well, and none runs when the script
has failed. `Relayed`: a program ends well only after it has handed on both
directions, and whatever it has handed on has been handed on by everybody
between it and the origin of that direction. `Verdicts` follows: the one-way PSI ends at
B's receiver and the reveal at A's sender, so these two have had everybody
before them; and A's sender can have slots only from B's receiver of the second phase, which
is started after the first has ended well. Time is irrelevant to it: the proof
treats the guard of `Tick` as any condition, so it holds at whatever pace the
clock runs.

`InTime` is all about time. Its inductive invariant is `Tolerable => Timely`
(with the types and `Supervision`): while no program has died and the start
times are within the limits,

- `Chain`: the four programs of a phase come up in a fixed order, from the
  receiver to the sender, so that there are ten constellations before all have
  met, and nobody has handed on both directions in any of them;
- `InStep`, `Logged`: where a script is tells which of its programs run, and a
  readiness line is there exactly when the program has got past `listen_tcp`;
- `Punctual`: how long a program has waited is bounded by how late the other
  party is: by the clock before that party is started, and in the second phase
  by the timer of a program of the first phase that is about to end;
- `Patient`: a script has waited no longer than its programs.

The heart is `TickSpots`: a tick passes only when nothing can happen without
one, and in a phase that has begun this leaves two constellations, Party B's
firewall listening for a party A that has not begun, or A's firewall connecting
to a party B that has not begun: four programs that have met hand on the data until
all have them (`NobodyStuck`). `LateTick` bounds both. For this the
guard of `Tick` is spelled out (`Waiting`, the negation of the guards of all
instant steps) instead of `~ENABLED Instant`; TLC has compared the two on all
reachable states of the instance.

The proof needs the settings to leave room for one another, which `Ample` makes
explicit: a program ends within `MaxLag` after it has handed on all, less than the I/O
timeout and the retries; `wait_for_log` waits at least as long as the retries;
and `CG_CHILD_TIMEOUT_S` is at least the I/O timeout and `MaxLag` together. The
defaults satisfy it with a `MaxLag` of almost 180 s. Each of the
four conditions is needed: with one of them off by one tick, TLC
finds a start within the limits that fails.

### Assumptions

Only those on the constants: `CallersAssumption`, `RangesAssumption`,
`PoolSizesAssumption`, `MaxCallsAssumption`; `QAssumption`, at least one
lane; in `RfOle` `CountAssumption`, `LanesAssumption`, `ChunksAssumption`,
`CapAssumption`, `InputAssumption`, `KeyAssumption`, `CoinAssumption`,
`FailureAssumption`, `NoneAssumption`; `DirectConstants`, `DirectInputs`;
`StandaloneCounts`, `StandaloneCap`, `StandaloneInputs`; `ChainBounds`,
`ChainInputs`; `LinkSettings`, `LinkBounds`; `LaunchTimes`. They
type the inputs and exclude what `cg_config.hpp` rejects. `MaxCalls`,
`MaxFailures` and `MaxCrashes` may be any number, so the bounds on calls and
deaths are not restrictions.

### Only model-checked

- All liveness: the prover has no fairness and no `ENABLED`.
- `PolynomialJobs` and `Psi`: the algorithms of `Polynomial` are recursive and
  out of the prover's reach; they are compared with their definitions on
  bounded inputs. All other invariants that the runs check are theorems.

## 5. Plan

Done, in this order: `ThreadPool` with `ParallelFor`; `LaneRange`; `AHE`;
`RfOle`; `StandaloneOle`; `DirectOle`; `LaneLink`; `Polynomial`; `Psi`; the
first proofs; `RelayChain`; the whole-batch programs in `DirectOle`; PSI with
firewalls in `Psi`; OPA and the checkers in `PolynomialJobs`; `Launch`; the
proofs of index accounting and refinement, of the three OLE protocols, of the
launch scripts, of the relay chain, of the lane links and of the start-up
times. With these the plan is complete. What remains model-checked only is listed at the end of
section 4.

## 6. Not modelled

- BICYCL's arithmetic is third-party; `AHE` states what the programs rely on.
  Hiding and sanitisation, the cryptographic claims, are outside TLA+.
- The byte format of big integers (`send_mpz`, `recv_mpz`): a stateless codec;
  a connection carries whole items in the models.
- Parsing of configuration: the bounds that `cg_config.hpp` enforces appear as
  assumptions on the constants.
- Reading and writing of files, the sampling of benchmark inputs, logs, timing
  tables and the Python checkers: text processing, without state that the
  protocols share.
- The other launch scripts, which start fewer programs with the helpers that
  `Launch` models.
- `enc_b_worker` still joinable when receiving fails (`cg_rf_ole_batch.hpp:422`):
  `std::terminate` and an uncaught exception both end the process, and the
  peers see a closed connection either way.
