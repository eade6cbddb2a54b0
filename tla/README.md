# TLA+ models of `stgpipe`

`src/tst/stgpipe/stgpipe.c` is the WinSpd storage test client. It opens a
storage unit, either a storage-unit pipe (`\\.\pipe\Name\Target`) or a RAW
volume (`\\.\X:`). It then issues `OpCount` operations, cycling through the
kinds the `OpSet` argument names (Read, Write, Flush, Unmap), on batches of
blocks. It checks every answer against what it wrote:

- a Read that follows a Write of the same batch must return the Write's stamp
  (`HashMix64(address + 1)` in every 8-byte word);
- a Read that follows an Unmap of the same batch must return zeros.

The program does not trust the unit. Its job is to notice when the unit
misbehaves.

## Parts of the program and how they interact

| part | lines | model |
|---|---|---|
| logging (`warn`, `info`) | 27-54 | not modelled (output only) |
| handle tag (`IsPipeHandle`, ...) and dispatcher (`StgOpen`, `StgTransact`, `StgClose`) | 56-59, 421-456 | `Stg`: `StgOpen`, `PipeStep`, `RawStep`, `IsPipeHandle`; `StgClose` not modelled |
| completion wait (`WaitOverlappedResult`) | 67-77 | folded into the transact steps of both paths |
| pipe open (`StgOpenPipe`) | 79-149 | `StgPipe`: `Open`, `ValidGeometry` |
| pipe transact (`StgTransactPipe`) | 151-244 | `StgPipe`: `Issue`, `Post`, `TransactOk`, `Received`, `Deliver` |
| raw open (`StgOpenRaw`) | 246-351 | `StgRaw`: `RawOpen`, `Discovered`, `RawBlockCount`, `RawMaxTransferLength`, `BigEndian32`, `BigEndian64` |
| raw transact (`StgTransactRaw`) | 353-419 | `StgRaw`: `RawIssue`, `RawReceived`, `RawAccepted`, `RawAccept`, `RawReject` |
| content oracle (`HashMix64`, `FillOrTest`) | 458-493 | `StgPipe`: `Stamp`, `Stamped`, `Expected`, `BufferMatches` |
| PRNG (`GenRandomBytes`) | 495-505 | `StgRandom` |
| OpSet parsing in `run` | 550-571 | `StgArgs`: `ParseOpSet` |
| workload loop (`run`) | 507-690 | `StgPipe`: `SetUp`, `NextBatch`, `Issue`, `Accept`, `Reject`; `StgRaw`: `DivideByZero`, `Overrun`; abstracted by `StgWorkload` |
| command line (`usage`, `wmain`) | 692-772 | not modelled; its results are the CONSTANTS |

`run()` is a single thread. A transact writes the request message and then
blocks in `ReadFile` until the server answers (or, on a raw handle, blocks on
the positioned `WriteFile`/`ReadFile`). The only concurrency is therefore
between the client and the unit at the other end. The unit is not in this
repository. It is modelled as the
environment (`Serve`): a correct unit, plus the deviations that the constant
`ServerFaults` allows. Those are:

- a short handshake;
- a lost or corrupted Write;
- a lost Unmap;
- a bad SCSI status;
- a short Read payload;
- a response message sent twice.

A raw disk (`Disk`) is the same environment restricted to one completion per
I/O. It reports its geometry the way SBC-3 encodes it: the last LBA as 8
big-endian bytes, the block length as 4, and the Block Limits MAXIMUM TRANSFER
LENGTH, in blocks, as 4.

## Modules

- **`StgRandom`**: `GenRandomBytes`, the ucrt LCG, and the two draws of
  `run()`: an 8-byte address and a 4-byte count, each modulo a bound. The
  32-bit seed is kept as two 16-bit halves, so that no intermediate value
  leaves TLC's 32-bit integers. The 64-bit draw is folded byte by byte with
  the modulus applied at each step, which gives the same residue. The ucrt
  constants 214013 and 2531011 are split as 3·2^16+17405 and 38·2^16+40643.
- **`StgArgs`**: the OpSet loop. It scans at most 32 characters, maps
  `RrWwFfUu` to kinds, skips everything else, and falls back to Write Read.
  It uses `SelectSeq`; no recursion.
- **`StgPipe`**: the client and the server. Its state:
  - the program's locals, named after the code: `i`=`I`, `j`=`J`,
    `addr`=`BlockAddress`, `cnt`=`BlockCount`, `opcnt`=`OpBlockCount`,
    `testKind`=`TestOpKind`, `seed`=`*RandomSeed`, `buf`=`DataBuffer`,
    `req`=`Req`;
  - `pc`, where the loop is;
  - the unit's blocks `store`;
  - the two directions of the pipe, `reqQ` and `rspQ`;
  - a history flag `faulted`, set when the server deviates.

  Block contents are abstracted through the `HashMix64` bijection. 0 is a zero
  block, `b+1` is the stamp of block `b`, and `Garbage` (-1) is anything else.
  One loop iteration is two client steps:
  - `Issue`: the batch update when `J = 0`, the request, `FillOrTest` stamping
    a Write, the Unmap descriptor written over `DataBuffer`, and the request
    message (or the `NO_RESOURCES` exit of the transact);
  - then `Accept` or `Reject`: the response, the Hint frame check, the
    read-length bound, the zero-padded copy, the `CheckCondition`s, and the
    content test.

  `Open` has four outcomes:
  - cannot connect (including busy, wait, retry, fail);
  - handshake refused;
  - `DataBuffer` allocation failed;
  - ready.
- **`StgRaw`** (EXTENDS `StgPipe`): the raw path. It adds the variables
  `disk` and `handle`.
  - `RawOpen` has four outcomes: an OS error from `CreateFileW` or a
    command; a bad status, or a block count or length that decodes to 0
    (`ERROR_IO_DEVICE`); allocation failure; ready.
  - `Discovered` decodes the disk's bytes with the code's precedence.
    `RawBlockCount` is `LBA | 1` (line 293). `RawMaxTransferLength` is
    `((BlockLength*m0) mod 256)*2^24 + m1..m3` in 32 bits (line 324), with
    the 64 KiB default for 0.
  - `RawIssue` is `Issue` with `StgTransactRaw` in place of the pipe
    transact: Flush and Unmap end the run with `ERROR_INVALID_PARAMETER`,
    and a transfer larger than `DataBuffer` runs past its end (`Overrun`,
    the heap beyond it holding `Garbage`).
  - `RawReceived` overwrites `DataBuffer` with the bytes the disk returned
    and leaves the rest, since `BytesTransferred` is ignored.
    `RawAccepted` has only the content test: the response is synthesised.
  - `DivideByZero`: with a random count and `MaxBlockCount = 0`, the batch
    update faults (line 591). `pc` becomes `"crashed"`, a final state.
- **`Stg`** (EXTENDS `StgRaw`): the dispatcher and the composition. The
  constant `Targets` says whether the name is a pipe name or a raw name.
  `StgOpen` chooses the open by it, and a successful pipe open tags the
  handle `"pipe"`. `PipeStep` and `RawStep` route every loop step by
  `IsPipeHandle`, and `Unit` is the server or the disk behind the handle.
  Before a raw open, the geometry is the zeroed record of line 265.
- **`StgWorkload`**: the abstract specification of what `run()` promises its
  unit. After the open (`Start`, only on a unit with a block and room for
  one), `Issue` sends operation `n`: the `n`-th kind of the cycle, on
  `1..maxBlocks` blocks inside the unit. `Complete` accepts it, and the run
  passes after `OpCount` of them. `Fail` ends the run from any step.
  `StgPipe` maps onto it (`Workload`, `ImplementsWorkload`):
  - `phase` is `pc`, with done split into passed and failed by `err`;
  - `unit` is the announced geometry;
  - `n` is `I`;
  - `op` is the range of the request in flight (`InFlight`).
- **`MCStgPipe`**: the TLC instance. It has:
  - two valid units: 3 blocks with 3 per transfer, and 2 blocks with 2 per
    transfer;
  - a third unit with 8-byte blocks, which the handshake must refuse;
  - the OpSet `"rWxRuRF"`, which parses to Read Write Read Unmap Read Flush,
    with `x` skipped;
  - 7 operations, so that a second batch starts;
  - address arguments {0, 2, `*`} and count arguments {0, 5, `*`}. A count of
    0 is promoted to 1, and 5 is clamped. Address 2 with count 2 or 3 runs
    past the end of both units, so the cut at line 598 happens;
  - seeds {0, 7};
  - initial contents zero or garbage. The faulty run also allows block 1 to
    already hold its stamp.

- **`MCStg`**: the instance of `Stg`. It has the pipe units of `MCStgPipe`
  and five disks of 16-byte blocks, one per branch of the raw decoding:
  - `DiskEven`: 3 blocks (last LBA 2), decoded right. Its limit of 32 blocks
    is read as 32 bytes, so two blocks per transfer;
  - `DiskOdd`: 4 blocks (last LBA 3), announced as 3;
  - `DiskNoLimit`: limit 0, so the 64 KiB default, which is 4 blocks of
    16 KiB;
  - `DiskSmallLimit`: a limit of 8 blocks read as 8 bytes, so
    `MaxBlockCount = 0`;
  - `DiskZeroLength`: block length 0, which the open refuses.
- **Proof modules**: `StgPipeProofs` EXTENDS `StgRandomProofs`; the
  workload and oracle proofs EXTEND `StgPipeProofs`; `StgReadProofs`
  EXTENDS `StgOracleProofs`:
  - `StgRandomProofs`: the PRNG;
  - `StgPipeProofs`: `IInv`, types, request ranges;
  - `StgWorkloadProofs`: the refinement;
  - `StgOracleProofs`: `HonestInv`, `NoFalseAlarm`;
  - `StgReadProofs`: `HintInv`, `VerifiedReadsReflectStore`;
  - `StgProofs` (EXTENDS `Stg` and `StgPipeProofs`): `SInv`, `StgTypeOK`,
    `SuccessOnlyAfterAllOps`.
  They are described under "What is proved".

## Runs

| run | properties | result |
|---|---|---|
| `honest` (no faults, `FairSpec`) | `TypeOK`, `RequestWithinUnit`, `NoFalseAlarm`, `Termination`, `ImplementsWorkload` | pass, 13,520 states |
| `faulty` (every fault except short Read) | `VerifiedReadsReflectStore` | pass, 437,535 states |
| `shortread` (lost Unmap, short Read) | `VerifiedReadsReflectStore` | violated |
| `dispatch` (pipe and raw names; bad status; disks Even, Odd, NoLimit, ZeroLength; `StgFairSpec`) | `StgTypeOK`, `RequestWithinUnit`, `NoFalseAlarm`, `SuccessOnlyAfterAllOps`, `Termination` | pass, 61,244 states |
| `raw_faulty` (raw; lost or corrupted Write, bad status; disks Even, Odd, SmallLimit) | `VerifiedReadsReflectStore` | pass, 27,468 states |
| `raw_overrun` (DiskSmallLimit, fixed counts) | `RequestWithinUnit` | violated |
| `raw_divzero` (DiskSmallLimit, random count, `StgFairSpec`) | `Termination` | violated |
| `raw_capacity` (DiskOdd) | `UnitSizeAgreed` | violated |
| `raw_shortread` (DiskEven, lost Write, short Read) | `VerifiedReadsReflectStore` | violated |

The properties:

- **`RequestWithinUnit`**: every request covers 1..`MaxBlockCount` blocks
  inside the unit. This has to hold whether address and count are drawn or
  carried over. The carry adds the uncut `BlockCount` (line 585), then wraps,
  clamps and cuts.
- **`NoFalseAlarm`**: `ERROR_IO_DEVICE` is reported only if the server really
  deviated. In particular `TestOpKind` must be forgotten between batches.
- **`VerifiedReadsReflectStore`** (action property): whenever `run()` accepts
  a Read that it tests against a Write or an Unmap, the unit really holds the
  expected content. Duplicated responses, stale buffer content, lost or
  corrupted writes and lost unmaps are all caught.
- **`Termination`**: every run ends.
- **`ImplementsWorkload`**: `run()` implements `StgWorkload` under the
  mapping above.
- **`UnitSizeAgreed`** (`Stg`): once the loop runs, the block count it
  tests against is the number of blocks the unit has.
- **`SuccessOnlyAfterAllOps`** (`Stg`, action property): the step in which
  `run()` returns `ERROR_SUCCESS` is the acceptance of the last of its
  `OpCount` operations. Every other exit (of `StgOpen`, of `StgTransact`, of
  the loop's checks) must set an error before its `goto exit`, on either
  kind of name.

In `dispatch` the same properties hold over both paths. The exceptions are
disks whose decoded geometry breaks them, and those have their own violation
runs. `raw_faulty` includes `DiskSmallLimit`, so its runs overrun the buffer
and crash on the division; `VerifiedReadsReflectStore` still holds there,
because every read transfers all its bytes.

Each passing property has a mutant: a plausible bug in one mapped operator,
with which TLC finds the property violated. The mutants are:

- the batch cursor without its wrap;
- the count never cut at the end of the unit;
- `TestOpKind` kept across batches;
- the request never written;
- the test stopping one block short;
- for `ImplementsWorkload`, the count never cut at the end of the unit;
- in `dispatch`:
  - the cursor without its wrap;
  - the 64 KiB default dropped (so `DiskNoLimit` gets `MaxBlockCount = 0`);
  - every raw Read tested, whatever `TestOpKind` says;
  - the raw Kind check (line 371) leaving `Error` unset, so that a Flush
    or Unmap on a raw name ends the run with `ERROR_SUCCESS`;
  - the request never written;
- in `raw_faulty`, the read data dropped from `DataBuffer`.

**Finding (shortread).** `StgTransactPipe` zero-fills a short Read payload
(lines 227-231), and spec section 9 leaves open whether that is intended.
Consider a unit that loses an Unmap and then answers the Read with no data.
That Read passes the Unmap test while the unit still holds the old Write
stamp. TLC finds the trace: Write, verified Read, lost Unmap, empty Read
accepted.

**Findings (raw path).** Each is a counterexample TLC finds.

- `raw_overrun`, line 324. The limit of `DiskSmallLimit` (8 blocks) decodes
  to 8 bytes, and line 332 checks neither `MaxTransferLength % BlockLength
  = 0` nor `BlockLength >= 16`, both of which spec section 8 requires of
  discovery. `MaxBlockCount` is 0. The count is promoted to 1, and a one-block
  Write is stamped into the 8-byte `DataBuffer` (line 620).
- `raw_divzero`, line 591. On the same disk, a random count divides by zero
  at the first batch.
- `raw_capacity`, line 293. A 4-block disk is tested as 3 blocks, so the
  last block of any disk with an even block count is never exercised.
- `raw_shortread`, line 399. A lost Write followed by a Read that transfers
  nothing is accepted: `DataBuffer` still holds the Write's stamps. The pipe
  path zero-pads instead and catches this.

Fairness: `FairSpec` (and `StgFairSpec`) puts weak fairness on the client and on the server.

- The client is justified: `run()` is one thread that never waits on
  anything but the server.
- The server is an assumption: it answers every request it reads. The code
  has no timeout on the response `ReadFile` (line 208), so a hung server would
  block `run()` forever. That is outside what the program handles (spec
  section 5).

Deadlock is not checked, because `run()` returns and `pc = "done"` is final
(so is `"crashed"`).

## What is proved (TLAPS)

`StgRandomProofs`:

- the LCG step keeps a seed a pair of 16-bit halves;
- `RandomAddressRange` and `RandomCountRange`: for every seed and every
  nonzero modulus `m`, a draw lies in `0..m-1` and leaves a valid seed.

`StgPipeProofs` proves `Spec => []IInv` (`IInvInvariant`). From it follow
`TypeCorrect` (`Spec => []TypeOK`) and `RequestsStayInUnit`
(`Spec => []RequestWithinUnit`). These hold for every geometry set, argument
set, seed set, initial content and set of server faults that the `ASSUME`s
allow.

`IInv` strengthens `TypeOK`. The conjuncts, and why each is needed:

- every posted request is well formed (the server copies a Write's data into
  the store);
- `i = 0` while opening, and `J = 0` when `I = 0`;
- in the loop, the geometry is one the handshake accepted, `DataBuffer` has
  `MaxBlockCount` blocks, `I < OpCount`, and a `Star` argument implies its
  random flag. The batch update divides by `MaxBlockCount` and `BlockCount`,
  which must therefore be nonzero;
- `BatchOK`: after the first batch, or while waiting, the current address,
  count and `OpBlockCount` are in range, so a carried-over batch stays in
  range;
- while waiting, the range of the request in flight is `(addr, opcnt)`.

The proof has one lemma per action. The batch update rests on `NextBatchOK`,
which covers every branch of lines 580-599 and uses the PRNG range lemmas.
TLC checked `IInv` as an invariant of the honest and faulty runs before the
proof was written.

`StgWorkloadProofs` proves `Implementation`:
`Spec => ImplementsWorkload`. It follows the usual refinement argument:
- the initial states map to initial states;
- under `IInv /\ ErrOK`, each step maps to an abstract step or a stutter:
  - `Open` to `Start`;
  - `Issue` to `Issue` or `Fail`;
  - `Accept` to `Complete`;
  - `Reject` to `Fail`;
  - `Serve` to a stutter.

`IInv` supplies the facts for `Issue`: after the step, the request's range
is the batch, and the batch lies inside the unit within the limit.
`ErrOK` (`err` stays SUCCESS until `pc` is done, proved on its own) makes an
accepted answer a `Complete` and not a failure. `ValidGeometryBounds` gives
`Start` its nonzero unit.

`StgOracleProofs` proves `OracleSound`: `Spec => []NoFalseAlarm`. It holds
for every geometry, kind cycle, argument, seed, initial content and set of
server faults. `run()` reports `ERROR_IO_DEVICE` only after the server has
deviated (`faulted`). `NoFalseAlarm` is not inductive. A `Reject` step is
ruled out only by knowing three things: what is in the pipe, what the blocks
hold, and what the Write message carries. `HonestInv` (`HonestInvariant`)
states these facts for a run whose server has not deviated yet:

- `HonestPipe`: one message is in the pipe at a time. It is the request in
  flight, or the correct response to it (`HonestResponse`), computed from the
  blocks as they are now;
- `HonestRequest`: a Write or Unmap in flight is the `TestOpKind` it set, and
  a Write carries `Stamp` of each of its blocks (the `FillOrTest` fill at
  line 620);
- `HonestBlocks`: in the loop, the blocks of the batch hold what `FillOrTest`
  expects for `TestOpKind` (`OracleHolds`). The exception is while the Write
  or Unmap that set it is still unserved (`PendingUpdate`);
- outside the loop, `TestOpKind` is the reserved kind.

It has one lemma per action:

- `HonestAccepted`: the correct response passes every check of `run()`.
  `Reject` therefore needs a deviation;
- `ServeHonest`: a correct `Serve` applies the request (`AppliedInUnit`),
  which brings `OracleHolds` back.

`StgReadProofs` proves `VerifiedReadsSound`. It assumes `NoShortRead`, that
`ShortRead` is not among the server's faults. Under it, `Spec` implies
`VerifiedReadsReflectStore`, whatever other deviations the server makes. The
assumption is the one the `faulty` run makes; the `shortread` violation
shows it cannot be dropped. The action property rests on `HintInv`
(`HintInvariant`):

- the hints of `run()` are `I`, and `I` only grows;
- the request pipe holds at most the request in flight, with hint `I`;
- a response in the pipe has a hint of at most `I`. One whose hint is `I`
  answers the request in flight (`Answers`) from the blocks as they are now.

A duplicated response therefore carries an old hint, and the Hint check
rejects it. The blocks change only when a request is served, and the
response to the request in flight can exist only after that request has been
served. `VerifiedReadStep` takes it from there:

- the accepted response carries the unit's blocks;
- `Received` copies them into `DataBuffer` (`DOMAIN buf` and the
  `MaxBlockCount` bound come from `IInv`);
- the `FillOrTest` that passed compares exactly those blocks.

TLC checked `HonestInv` and `HintInv` as invariants before the proofs were
written:

- `HonestInv` on the honest configuration, on the faulty one, and with every
  fault kind;
- `HintInv` on the faulty configuration.

`StgProofs` proves two theorems about the composition `Stg`, on either
kind of name and for every disk, geometry, argument, seed and fault set the
`ASSUME`s allow:

- `StgTypeCorrect`: `StgSpec => []StgTypeOK`;
- `StgSuccessOnlyAfterAllOps`: `StgSpec => SuccessOnlyAfterAllOps`.

Both rest on the inductive invariant `SInv` (checked first by TLC as an
invariant of `dispatch`, `raw_faulty` and the four raw violation runs):

- `StgTypeOK`;
- while `run()` has not returned, `Error` is still `ERROR_SUCCESS`;
- in the loop, the handle is the one the open made for the kind of name.
  `PipeStep`, `RawStep` and `Unit` are dispatched on the handle alone, so
  this is what keeps a raw step from firing on a pipe name and the reverse;
- on a pipe name, `PipeInv`: no disk, and `IInv` of `StgPipeProofs`. The
  pipe steps are then those of `StgPipe` and reuse its lemmas;
- on a raw name, `RawInv`: the disk is one of `Disks`, the request queue is
  well formed, and in the loop the unit has blocks and a nonzero block length
  (the two checks of the open), `I < OpCount`, a `*` argument has set its
  random flag, and after the first batch the address and count are numbers.
  These are what the batch update needs to stay typed.

The decoding lemmas (`BigEndianBytesType`, `BigEndian32Type`,
`BigEndian64Type`, `DiscoveredType`) show that the geometry `StgOpenRaw`
stores from the disk's bytes is a geometry of naturals.
`RawNextBatchType` shows that the raw batch update keeps the address in the
unit and the count positive, even when the decoded geometry is wrong;
`OverrunType` and `RawReceivedType` type `DataBuffer` after an overrun.
`SuccessStep` splits on the action: `OpenExitFails` and `LoopExitSucceeds`
show that every exit sets an error except the last `Accept`, where
`I < OpCount` from `SInv` makes `I' = OpCount`. The decoding functions are
written without recursion (`BigEndianBytes` as a function of the shifts,
`BigEndian64` in Horner form), so the provers can expand them.

Only model-checked:

- `Termination`. It is a liveness property under fairness, which TLAPS does
  not check here.
- What `ParseOpSet` computes. It declares no `RECURSIVE` operator: it
  filters the scanned characters with `SelectSeq`. The standard definition
  of `SelectSeq` is a recursive function over the sequence, so what
  `ParseOpSet` returns for every argument would need induction over data.
- `RequestWithinUnit` and `UnitSizeAgreed` of `Stg`. They fail on the raw
  path for the disks of the findings (`raw_overrun`, `raw_capacity`), so a
  theorem would need a precondition on the disk.
- `NoFalseAlarm` of `Stg`. On the pipe path it is `OracleSound`; on the raw
  path it holds in `dispatch`, but its inductive invariant would have to
  relate the disk's blocks to `DataBuffer` through `RawReceived`, which is
  not written.

## Not modelled

- **Logging and the command line.** They are output formatting and argv
  handling. Their results are the model's constants (`AddressArgs`,
  `CountArgs`, `SeedArgs`, `OpCountArg`, `Targets`).
- **`StgClose`.** It releases the handle at exit, and nothing the test
  checks depends on it.
- **The two error codes of `WaitOverlappedResult`.** They are not told
  apart: a failed raw I/O is one `IO_DEVICE` outcome.
- **The value of an OS handle.** That it is never odd, which the tag bit
  relies on, is outside the model. The handle is its kind.
- **Still open:** the refinement of `StgWorkload` by `Stg`. It fails on the
  disks of the findings above (a crash is not a workload step), so it would
  need a precondition on the disk.
