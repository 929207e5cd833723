# vkzg in TLA+

vkzg computes the 128 KZG cell proofs of Ethereum blobs, and recovers missing
cells, on a GPU through Vulkan. This directory holds TLA+ modules translated
from its source, TLC runs over small instances of them, and theorems checked by
TLAPS. Paths below are relative to the repository; `vkzg.cpp` is
`src/vkzg.cpp`. `PROJECT.json` lists for every definition the lines it models.

## The system

| part | state | operations | what makes it correct |
|---|---|---|---|
| batch calls (`vkzg.cpp`) | mutex, staging and work buffers, error word, one command buffer, one fence, `lastStage` | `vkzg_compute_proofs_batch`, `vkzg_recover_cells_batch`, `profile_batch` | calls of several threads do not mix; every caller gets its own results in place; the code returned is true of the whole call; the mutex is given back |
| prover lifecycle (`vkzg.cpp`) | Vulkan objects and the members that refer to them | `vkzg_prover_new`, `vkzg_prover_free`, `~vkzg_prover` | a prover is handed out whole or not at all; objects are destroyed once, in order, not in use |
| stderr suppression (`vkzg.cpp`) | the descriptor table of the process | `ScopedStderrSuppress` | stderr is muted during the enumeration and back afterwards; nothing leaks; other files are untouched |
| table loading (`precomputed_tables.cpp`) | the tables | `load_precomputed_tables` | the first whole file wins, and nothing of another one stays |
| device selection (`vkzg.cpp`, `gpu_topology.cpp`) | none | `pickPhysicalDevice`, core count | the best suitable device |
| cell recovery (`vkzg.cpp`, 8 kernels) | 15 work buffers, 5 tables | 2 dispatches at setup, 22 per batch | all cells come out, for every recoverable set of missing ones |
| proof pipeline (`vkzg.cpp`, 12 kernels) | work buffers, tables | 15 dispatches | the proofs are those of the blob |
| kernels (`src/shaders/*.comp`) | shared memory of a workgroup, slots of storage buffers | transform, vanishing polynomial, phase A sort, bucket reduction, ladder, normalisation, ... | the result does not depend on the order the invocations run in |
| field and curve (`field.glsl.inc`) | none | limb arithmetic, Montgomery form, point addition | arithmetic modulo r and p, the group law |
| Java binding (`Vkzg.java`) | one static handle, the monitor of the class | `init`, `deinit`, two batch methods, two getters | no call on a freed handle, no prover lost, the monitor given back |

How they interact. Application threads call the C interface (directly or
through the Java binding). A call takes the prover's mutex and, chunk by chunk,
copies its input to a host-visible staging buffer, records a pass of dispatches
separated by pipeline barriers in the prover's only command buffer, submits it
with the prover's only fence, waits for the fence and copies the results out.
The device runs dispatches asynchronously; inside a dispatch workgroups run in
any order, and the invocations of one meet at `barrier()`. Creating a prover
points descriptor 2 of the whole process at `/dev/null` for a moment.

What is hard: two concurrent actors behind every call (the thread and the
device), shared scratch buffers whose content survives calls, failures at every
Vulkan call, wholesale reuse of buffers inside a pass, atomics and barriers in
the kernels, and index arithmetic (bit reversal, strides, signed digits) that is
right or wrong for whole classes of sizes. `PROJECT.json` lists the hazards at
their lines.

## Modules

    Prover -- implements --> ProverApi
    Limbs -> Curve ----------------> ProofPass \
    Digits ------------------------> ProofPass  > Passes
    Domain -> Dispatches -> ProofPass, Recovery /
    Digits -> PhaseASort -> Msm <- BucketReduce -> ProofPass
    Domain -> NttPass, VanishingPoly
    Tables, Devices -> Lifecycle -> JavaBinding
    StderrSuppress

    with proofs:  Prover <- ProverProofs            Passes <- PassesProofs
                  JavaBinding <- JavaProofs         StderrSuppress <- StderrProofs
                  Msm <- MsmProofs                  Domain <- DomainProofs
                  VanishingPoly, NttPass, Limbs, DomainProofs <- KernelProofs
                  DomainProofs <- PassesProofs
                  Arithmetic <- JavaProofs, MsmProofs, DomainProofs

The first three groups are three levels of one computation. `Prover` has calls,
chunks and faults, and a pass is two stages of it. `Passes` has the dispatches of
a pass and what each of them computes, on a small curve. `NttPass`,
`VanishingPoly`, `PhaseASort` and `Msm` have the invocations of single kernels,
and establish what `Passes` takes of them: `PassOf`, `CirculantAt`,
`Spread(Short(...))`, items in any order within a bucket, `Reduced`. `Lifecycle`
is the prover's birth and death, `JavaBinding` its caller.

An `MC` module gives a module's constants their small values.

A definition named `X_word` is `X` with a bug the code could have had (a reset
forgotten, a barrier dropped, an index unreversed). The specifications never use
them; they are there to check that each property notices.

**Prover.** `pc` follows a thread through an entry point. `Reject` and `Enter`
are the argument checks, `Lock` and `Return` the `lock_guard`, `StageBlobs`,
`StageCells` and `RejectCells` the first half of `computeBatch` and
`recoverBatch`, `Submit`, `SubmitFails`, `Wait`, `WaitFails`, `InvalidBlob` and
`CopyOut` the second, `FlushSubmit` and `FlushWait` the profiler's
`flushAndTime`, which looks at no result. `GpuRun` executes one stage of the
submission at the head of the queue, `GpuComplete` signals the fence,
`DeviceLost` empties the queue. Data is abstracted to provenance: an input is
the call, position and validity it came with, an output the input it was
computed from. The dispatches of a pass are grouped in the kernel that reads the
staging buffer and the work that ends in the readback buffer. A recovered slot
is right only if the cells and the list of missing ones come from the same
input. What the driver may do wrong is the constant `Faults`.

**ProverApi.** One call is served at a time; results appear in order, in whole
chunks, each computed from the caller's own valid input; OK means all of them.
The mapping: `serving` is the mutex, `phase` abstracts `pc`.

**Tables, Devices, Lifecycle.** `Tables` reads the candidate files, which may be
missing, foreign, of another version or cut off after any table, into the same
tables; `Devices` scores what is listed. `Lifecycle` has one action per Vulkan
object made or destroyed. `live` is what exists, `member` what the prover's
members refer to. Any creation may fail; a buffer may fail in part, and (as in
the code) does not keep the following ones from being made. Kernels and buffers
are lists of any length. The instance of a creation that gets no device is not
destroyed by the code (vkzg.cpp:350), and the file that is open when a vector
cannot be resized is not closed: `orphans` records both. The call for the two
pipelines of `k_bucket_reduce` may fail having made one, which the code drops
(vkzg.cpp:581): it stays in `live` as `Dropped`, and the properties name it as
their exception. So they do with a wait for the device that fails: `WaitIdle` goes
on all the same, as the code does (vkzg.cpp:351), and `unwaited` says so until the
deletion has ended.

**JavaBinding.** Threads in the static synchronized methods of `Vkzg`: a thread
waits for the monitor, is refused or calls the library, which then takes the
steps of `Lifecycle`, and leaves. A C++ exception has no handler above it and
ends the process (`ProcessEnds`): a new one starts with its own, empty, state.

**StderrSuppress.** One action per system call of constructor and destructor,
over a descriptor table with POSIX's lowest-free rule, with the rest of the
application opening and closing files. Any `open` may fail; `dup` fails when no
descriptor is free. `overlap` is a history variable: two creators have
suppressed at once.

**Limbs, Curve, Digits, BucketReduce.** `Limbs` is `fp_*` and `fr_*` of
`field.glsl.inc` limb by limb: carries, borrows, the masked addition, CIOS, entry
to and exit from Montgomery form. `Curve` has the formulas of the G1 functions
with their branches for points at infinity, equal and opposite ones. `Digits` is
the signed recoding, `BucketReduce` the team of lanes of `reduce_buckets`.

**Domain, Dispatches.** The scalar field as residues of a small prime, the
transforms' passes with their strides, the vanishing polynomial, circulants; a
dispatch names kernel, buffers and mode. The scalars in `Passes` enter and leave
Montgomery form through `Limbs` (`Fr!FromCanonical`, `Fr!ToCanonical`); in
between a residue stands for its form.

**ProofPass, Recovery, Passes.** `ProofPass` and `Recovery` give the sequences of
dispatches of `computeBatch` and `recoverBatch`, and what each kernel makes of
its inputs. `Passes` runs them call after call on one set of buffers, which at
first hold junk and then what the calls before left. A dispatch begins (reads)
and ends (writes) as separate steps, and begins only when `Separated` from those
before it by a barrier, so that a missing barrier is visible. The bytes of words
and proofs are abstracted to numbers: a word is what its bytes stand for, a
compressed proof its x and the sign of y. The tables are external, made by a
generator that is not in the repository: `ProofPass` gives them by what they must
be, from a setup with the secret `Tau`. What the proofs are compared with,
`ProofExponent`, is written from the definition of a KZG proof and shares nothing
with the pipeline.

**NttPass, VanishingPoly.** `NttPass` interleaves the invocations of a workgroup
through loading, stages and storing, of `k_ntt_pass` in either pass and of
`k_build_circulant`. `VanishingPoly` adds writes to storage that are performed
later than issued. The two are proved about together, over the algebra they share;
where both need a name, `VanishingPoly`'s begins with a Z.

**PhaseASort, Msm.** One workgroup of `k_phase_a_sort.comp`: every invocation
recodes its scalar's digits, counts with atomics, invocation 0 turns counts to
cursors and orders the buckets by load, all scatter. `Msm` goes on with the
threads of `k_phase_a.comp` and a team of `k_bucket_reduce.comp`, where a shuffle
past the team's end returns anything. Its points are free (vectors of multiples),
so that a lost or misplaced item cannot cancel out.

## Runs

| run | question | bounds |
|---|---|---|
| `prover_chunks` | own results, in place; truthful codes; implements `ProverApi` | one thread, 3 items in chunks of 2 (a full and a partial chunk), at most 1 invalid item, call numbers 0 and 1, so that a result of the previous call differs from the current one's |
| `prover_shared` | serialisation, the profiler's own times, `ProverApi`, the mutex is given back | 2 threads, 1 item; recover and profile, which between them use every host action |
| `prover_flush_hangs` | violation, see findings | as above, refused flushes only |
| `prover_wait_overlaps` | violation, see findings | 2 threads, compute, failing waits |
| `life` | creation, use and destruction from Java | 2 threads, 2 kernels, 2 + 2 buffers, 3 paths, files of 3 tables cut anywhere, 10 lists of up to 2 devices |
| `stderr_together` | what holds of the suppression, alone and with two creators | 2 creators, 2 files, 5 descriptors: fewer than both together need, so that they run out |
| `stderr_race` | violation, see findings | the same |
| `passes` | proofs open all cells; refused if and only if not canonical; every cell recovered; the divisor is never 0 | scalars modulo 97, the curve y^2 = x^3 + 5 modulo 103 of that order, 2 limbs of 4 bits, 8 cells of 2, batches of 1 and 2; three calls: a recovery, a refused batch, then one of 1031 |
| `ntt` | every interleaving gives the transform | domain of 16, prime 17, transforms of 16 (4x4) and 8 (4x2), both directions, 4 invocations; circulants of 8 cells, 8 invocations |
| `vanishing` | the polynomial that vanishes on the missing cells only | domain of 16 (8 cells of 2), 4 invocations, every set up to half |
| `vanishing_race` | violation, see findings | domain of 8 |
| `msm` | the output is the sum of scalars times points; each slot is filled once; ordered by load | every pair of 5-bit scalars, 2 digits, 4 buckets, teams of 2 and 4 lanes, two values a foreign lane may have |

Why the bounds are enough. The host layer's behaviours are those of one mutex
holder, the threads behind it, and what earlier calls left in the buffers: one
earlier and one waiting call show them, and the theorems lift safety to any
number. Transforms and recovery are linear in the data, so unit arrays and
monomials decide them, and the index arithmetic is generic in the logarithms of
the sizes; what small sizes do not show is overflow of addresses, which is not
modelled. In a kernel, barriers keep the invocations within one phase of each
other; 2 to 4 of them show every conflict between pairs.

In `passes` the field elements have two limbs, so that carries, borrows and the
final subtraction all occur, and `fp_mul` is evaluated for all pairs of elements.
The group is so small that equal, opposite and infinite points, which random
blobs never show in the real one, turn up in every kernel; the ladder's chunks of
5 and the proofs' of 3 do not divide the points there are. With a core count of 1
and a threshold of 3 a batch of one blob takes the pipeline with twice the lanes
and one of two blobs the other. The blobs are all monomials, zero and a
polynomial with all coefficients; the recoveries have every set of up to 4 of 8
cells missing, with another set missing from the second blob. A word is any number
that two limbs hold, up to 255. Those in the slots of missing cells are 97, 255, or
differ from slot to slot, half of them not canonical; for one set of missing cells
also 0 and 96. Those of the cells passed are canonical, or past the order by another
multiple of it in each slot, none, one or two where they fit.

In `life` two of each kind show a first, a last and an order; a third thread
would only wait where the second does.

Deadlock checking is off where a model ends when its work is done (`passes`,
`ntt`, `vanishing`, `msm`) and in the run about a hang.

Fairness. `FairSpec` has weak fairness of the device (a submission on a device
that is not lost is executed and completes) and of every thread inside the
library (the operating system runs it). Nothing is assumed of callers, of who
gets the mutex next (`std::mutex` promises no order), or of faults; so
`HolderReleases` says the mutex is given back, not that each caller gets it.
`JavaSpec` assumes the same of the library's steps, the device and the thread in
the monitor, and nothing of who enters it or calls; `MonitorReleased` is about
the thread that has entered. Here the device always completes: a lost device
completes everything, with an error.

### Findings

- `flushAndTime` (vkzg.cpp:886) ignores a refused `vkQueueSubmit` and then waits
  without a timeout for the fence it has just reset: `profile_batch` hangs with
  the mutex held.
- A failed `vkWaitForFences` on a device that was not lost (vkzg.cpp:1030)
  unlocks while the submission is executing; the next call overlaps it.
- Two threads in `vkzg_prover_new` may leave descriptor 2 at `/dev/null`.
- `k_vanishing_poly.comp:52`: `barrier()` orders shared memory only, but storage
  slots zeroed before it by one invocation are written after it by another.

Seen while modelling, with no run of their own: the instance left behind at
vkzg.cpp:350; the pipeline dropped at vkzg.cpp:581, under which the destructor then
destroys the device; the result of `vkDeviceWaitIdle` ignored at vkzg.cpp:351, so that
after a failed wait objects are destroyed in use; `std::bad_alloc` for a header with huge counts crosses the C
interface (precomputed_tables.cpp:30); "roughly 5.6 MiB" of GPU memory per blob
(vkzg.h, Vkzg.java:161) leaves out the 3.5 MiB of the recovery's buffers;
`load_precomputed_tables` returns the last path's code, so a
malformed file at `$VKZG_TABLES_PATH` with no installed copy gives
`VKZG_ERR_IO`; `VKZG_ERR_MALLOC` ("host allocation failed", vkzg.h:45) is what a
Vulkan buffer that cannot be made gives.

## Proofs

Every theorem is for all values of the constants that satisfy the assumptions of
the modules it is about; TLC evaluates those assumptions in each run. Each proof
is an inductive invariant, or rests on that of the theorem before it: TLC checked
the invariant first, then `Init => IInv` and `IInv /\ [Next]_vars => IInv'` are
proved step by step.

### Calls (`ProverProofs`)

| theorem | says | assumes, besides `ProverAssumption` |
|---|---|---|
| `TypeCorrect` | `Spec => []TypeOK` | |
| `CallsSerialised` | `Spec => []Serialised` | `"wait" \notin Faults` |
| `ResultsAreTheCallers` | `Spec => []OwnResults` | the same |
| `CodesAreTruthful` | `Spec => ReturnsMeanWhatTheySay` | the same |
| `ApiImplemented` | `Spec => ApiSpec` | the same |
| `ProfileIsItsOwn` | `Spec => ProfileReportsItself` | |

The assumption on `Faults` is needed: `prover_wait_overlaps` is the
counterexample without it.

`Serialised` and `OwnResults` are not inductive: that a readback copies the
caller's own results depends on what the device computed several steps before,
from what the thread staged before that. The inductive invariant `IInv` has, over
`TypeOK`, `Shape` (who is inside the library holds the mutex, and `done` and the
call's arguments agree), `OneJob` (at most one submission, the recorded one, of
the holder that waits), `Progress` (where in a pass thread and device are, what
the staging, intermediate and readback buffers then hold for each slot of the
chunk, and what the error word says of it) and `OwnResults`. Only one step
changes each buffer, so most of the work is in `StageBlobs`, `StageCells`,
`GpuRun` and `CopyOut`. Lemmas on `Chunk`, `Batch` and `Filled` do the
arithmetic once. A signalled fence implies a completed pass because the fence is
reset before every submission and only `GpuComplete` signals it.

`ApiImplemented` is the refinement, one lemma for each group of actions: entering,
serving, copying out, returning. The device's steps and the thread's on the
buffers leave what `ProverApi` sees unchanged (`PhaseStays`); `IInv` is what makes
`CopyOut` a delivery of results computed from the caller's valid input, and the
code returned a true one.

`ProfileIsItsOwn` needs no assumption on `Faults`: `Timed` says that from the end
of staging until the return the stage times the prover holds are those of the
caller's own pass. It rests on `Shape` alone, since only the holder of the mutex
writes the times (`OthersUnmoved`).

### Creation, use and destruction (`JavaProofs`)

For any threads, kernels, buffers, table files and lists of devices, under the
assumptions of `Tables`, `Lifecycle` and `JavaBinding`: the lists have no element
twice and are not empty, the devices listed are devices.

| theorem | says |
|---|---|
| `HandleFollowsProver` | `JavaSpec => []HandleIsProver` |
| `UsedOnlyWhileAlive` | `JavaSpec => []UsedWhileAlive` |
| `NothingDestroyedInUse` | `JavaSpec => BusyKeepsObjects` |
| `LifeTypeCorrect` | `JavaSpec => []JavaTypeOK` |
| `ChildrenGoFirst` | `JavaSpec => []ParentsOutliveChildren` |
| `EverythingFreed` | `JavaSpec => []NothingLeft` |
| `ProverIsWhole` | `JavaSpec => []HandedOutWhole` |
| `TablesFromOneFile` | `JavaSpec => []TablesOfOneFile` |
| `BestDeviceUsed` | `JavaSpec => []OnBestDevice` |

Between a call of the library and its return, handle and prover disagree. `JInv`
says how, for the method the thread in the library is in (`Agreement`), that there
is only one (`Monitor`), and where the library can be (`Life`): during `init` there
is no handle and the code is "OK" only once the prover is ready, during `deinit` it
is on its way to the end. What the thirty steps of the library do to it is stated
once, as `CreatingStep` and `DeletingStep` (`ProgressGoes`). The third theorem rests
on `Flying`: the device executes only during the wait for the coset tables, while
there is a prover, before vkDeviceWaitIdle, or after a vkDeviceWaitIdle that failed; in
the first two the prover has its device, so that deleting it comes to that wait first.
What the theorem says of the last is nothing (`~unwaited` is in the property): the code
ignores the failure.

`LInv` adds the objects. `Created` says for every place a creation can be at what it
has made by then, and for the loops over kernels and buffers how far they are;
`Deleted` says for every place of the destructor what is still there; `Held` that
whatever exists has a member that refers to it, but for the shader module while its
pipeline is made and for a dropped pipeline, which no member ever refers to. A failure leads from a state of `Created` to one of `Deleted`, and
that step is where a leak would show. A buffer that fails does not end the loop, which
is why `Created` speaks of whole buffers only while `ok`. `Filled` says which tables
have been read from which file, `Closed` that a file is open only during the search,
`Chosen` that there is a device once one has been looked for. `PickedIsBest` goes
through the loop over the devices.

### Stderr suppression (`StderrProofs`)

| theorem | says |
|---|---|
| `StderrTypeCorrect` | `Spec => []TypeOK` |
| `NoDescriptorLeaks` | `Spec => []NoFdLeak` |
| `OtherFilesKept` | `Spec => []AppFilesKept` |
| `StderrPutBack` | `Spec => []RestoredWhenAlone` |
| `StderrMuted` | `Spec => []MutedWhenAlone` |

For any number of creators, files and descriptors. `Owned` says that every open
descriptor but 2 has one holder, a file of the application or a creator's `devnull` or
`saved`, and nothing that is closed has one; it is inductive however creators overlap,
and gives the first three. `Alone` says what descriptor 2 and `saved` are while no two
creators have overlapped, which the last two need: `stderr_race` is the counterexample
without.

### Refusing a batch (`PassesProofs`)

`RefusedForItsOwnWords`: `Spec => []RefusedIffNotCanonical`, for any sequence of calls,
any sizes and prime, and whatever the curve. `OneAtATime`, the reason it is true, says
that the barriers let one dispatch run at a time, and that what it is about to store is
made of the buffers as they still are; `BlobsInPlace` that the staging buffer holds the
call's words throughout; `ErrorWord` that the error word is 0 until `blob_to_fr` has
ended and says afterwards whether a word of this call was not canonical. That no other
dispatch of the pass writes either buffer is a fact about `ProofCommands`, whose length
depends on the constants; `BeginWithBlobs` says it of each piece the sequence is
concatenated from.

### Cell recovery (`DomainProofs`, `PassesProofs`)

| theorem | says |
|---|---|
| `CellsRecovered` | `Spec => []AllCellsRecovered` |
| `NeverDividesByZero` | `Spec => []DivisorNeverZero` |
| `TypeInvariant` | `Spec => []TypeOK` |

For any field with a root of unity of the domain's order, any sizes, any sequence of
batches, any polynomials, at most half of the cells missing from each, any words in their
slots, each its own, and anything in the buffers at first. Assumed: `DomainAssumption`,
`RecoveryAssumption` (the coset's factor is no root of unity of the domain) and
`PassesAssumption`, which of the words asks only that those of the cells that are not
missing be the polynomial's values modulo the order (`Belong`). `Stageable` has just that
of a blob: the proofs know nothing else of what was staged.

The recovery is first written as what it computes, without buffers: `ZCoeff` to `Out` are
functions of the staged words and the missing cells, one for each value the code's
comments name, and `Made(k, w, m)` is what the k-th dispatch makes. `RInv`, the inductive
invariant next to `IInv`, says that the buffers hold these values while they are needed:
`InPlace` that after n dispatches the output of the k-th is where it was written until
its last reader has ended (`LastRead`: the values on the coset wait for the division, the
vanishing polynomial for both of its uses, everything else for the next dispatch or two);
`TablesAfter` that the setup's dispatches made the tables of the coset, which no other
writes; `FieldsIn` that no buffer holds anything but field elements, so that what an
earlier batch left has a type. It is needed because a batch works in buffers that are
used several times (`bufRecScratch` seven times, `bufRecShiftedA` twice): whether a
dispatch reads what was meant for it depends on all those between. `CommandsAre` shows
that none of the 22 writes over what is still to be read, `MakesNext` that each makes the
next value of those in place, `RecoverCommandsAre` that they are recorded in this order.
TLC checked the invariant on the instance of `passes` before it was proved.

That `Out` is the cells (`RecoversCells`) is the algebra. On the domain, the words are
the polynomial's values where Z is not zero, so that their product with Z is the product
of both everywhere (`EZIs`); that product has a degree below the domain's size
(`ProductExists`), so the inverse transform finds its coefficients (`DftInverted`, and
`BothPasses` for the transforms in two dispatches). On the coset its values divided by
those of Z, which are not zero there (`CosetAvoids`, `DivisorIs`), are those of the
polynomial (`OnCoset`), whose coefficients, unshifted, come out of the last inverse
transform.

### Phase A (`MsmProofs`)

| theorem | says |
|---|---|
| `SortTypeCorrect` | `Spec => []SortTypeOK` |
| `SlotsFilled` | `Spec => []SlotsFilledOnce` |
| `LoadOrder` | `Spec => []OrderedByLoad` |
| `MsmCorrect` | `Spec => []OutputIsMsm` |
| `MsmTypeCorrect` | `Spec => []TypeOK` |

For any number of terms, digits, buckets, load classes and lanes, any scalars below the
modulus, anything in shared memory at first and any result of a shuffle past the team's
end. Assumed: `DigitsAssumption`, `SortAssumption` and `MsmAssumption`, that is, an even
number of buckets with an invocation for each pair of them; a modulus of at most half of
what the digits can hold, or the last digit's carry would be lost ("Every scalar is
below r < 2^255", k_phase_a_sort.comp); lane counts that divide the buckets, where they and
the buckets each of them sums are powers of two ("per_lane is always a power of two",
field.glsl.inc).

`SInv` follows the sort: `Barriers` keeps the invocations within one phase of each
other; `Counted` says that a counter is the number of digits counted so far, a
cardinality, which is what makes the atomics' order immaterial; `Summed` that a start is
the number of digits below; `Cursors` that a cursor has passed as many slots as digits
have been scattered; `Written` that those slots, and no other, hold the items of just
those digits, each in one place (`Origin`, `Single`, `Passed`, `Ahead0`, `Rest`). The
order by load is that of a counting sort: the place of a bucket is the number of those
ahead of it (`Ahead`), which is an injection from a finite set to itself.

`MInv` adds the sums, one component of the points at a time. `Scattered`: the slots a
cursor has passed add up to what the digits scattered so far are worth to its bucket.
`Filled`: a bucket that has been added up has its share of the scalars. `Teamed`: at
each level of the tree, each lane that counts has the plain and the weighted sum of the
buckets it speaks for (`Heads`, `Speaks`), though other lanes may have anything. The
argument ends with `Shares` (buckets that hold their shares, each times its factor, weigh
what the digits do), `RecodingAddsUp` and `ScalarIsDigits` (the signed digits with
their carries make up the scalar, and nothing is left in the end).

### Vanishing polynomial (`DomainProofs`, `KernelProofs`)

| theorem | says | assumes, besides the assumptions of `Domain` and `VanishingPoly` |
|---|---|---|
| `VanishingTyped` | `ZSpec => []ZTypeOK` | |
| `ZVanishes` | `ZSpec => []OutputIsZ` | `BufferOrdered` |

For any field with a root of unity of the domain's order, any size of the cells and the
domain, any set of at most half of the cells, any workgroup. The assumption on the barrier
is needed: `vanishing_race` is the counterexample without it.

The invariant is short. `Zeroed`: until the barrier opens, a slot that its invocation
has zeroed is 0, or its 0 is still to be performed; `Built`: afterwards only invocation 0
has writes to perform, and every slot has its coefficient of `Z` or will have.

That `Z` is zero where it must be is the longer part. The laws of the field are
proved from the arithmetic of residues (`Remainder` to `Opposite`), with no zero
divisors because `DomainAssumption` has every element but 0 inverted; powers by squaring
are powers (`PowIs`, `PowAdds`), so that the powers of the root are distinct (`PwDistinct`).
A polynomial's value is followed coefficient by coefficient (`TotalNext`). Multiplying the short
polynomial by `x - r`, its leading coefficient left implicit, multiplies its values
(`TimesLinearIs`), and so it is zero at the listed roots only (`ShortIs`). Spread
over every `CellSize`-th slot, it takes at an element the value it has at its
`CellSize`-th power (`SpreadValue`), which depends on the element's cell alone
because bit reversal moves the low bits to the top (`BrevLow`, `BrevHigh`, `CellOf`).
Last, the list has each missing cell once, and no other (`MissingIs`).

### Transforms (`DomainProofs`, `KernelProofs`)

| theorem | says |
|---|---|
| `NttTypeCorrect` | `Spec => []TypeOK` |
| `GroupsTransformed` | `Spec => []PassesTransformGroups` |
| `PassesAreTransform` | `Spec => []TransformIsDft` |
| `CirculantsTransformed` | `Spec => []ColumnsTransformed` |

For any domain and field, any transform whose size is a part of the domain and whose
groups fit the workgroup, any input, anything in shared memory and the buffers at first,
and every order of the invocations. Assumed: `DomainAssumption` and `NttAssumption`,
which for the circulants asks for more than 2 cells.

`NttInv` is the inductive invariant, and it has to say what is in shared memory in the
middle of a stage, when some of the invocations are through with it and others are not.
`Barriers`: no invocation is a stage ahead of another. `Owner(s, i)` is the invocation
that writes slot i at stage s, the one that loads it for stage 0; every slot has one
and an invocation owns just the two slots it combines (`PairOwned`, `OwnerPair`). So how
far a slot is can be read off the phases of its owners (`At`), and `Tiled` says what it
then holds: an entry of the transform of its block of 2^s slots (`StageSum`). A butterfly
finds both of its slots at the stage before because the barrier has opened for it, and
nobody else writes them (`TiledButterfly`); with a barrier less, that is where the
proof fails. `Saved` says that what has been stored is the result of its group and
was not overwritten, because no two elements have one place (`PlacesAre`).

The algebra. `StageHalves` is decimation in time: a block's transform is made of those of
its halves, which hold the entries with even and odd indices once bit reversal has put
them there, and `Weights` are the laws of the tables of roots, of which half way round is
-1 (`PwHalf`). A table made for the whole domain serves a part of it at a stride
(`EntryIs`). `DftIs` then joins the passes: with j = t + N2 u and k = k1 + N1 k2 the
exponent jk falls in three (`ExponentIs`), the first pass's root, the twiddle and the
second pass's root, and a sum can be taken by columns (`TotalColumns`). `ColumnIs` drops
a circulant's zeros and turns the rest of its column round (`TotalReversed`).

### Field arithmetic (`KernelProofs`)

| theorem | says |
|---|---|
| `ArithmeticOfForms` | with `Form(x) == (x * Capacity) % Modulus`: `Add`, `Sub` and `Mul` of `Form(x)` and `Form(y)` are `Form(x + y)`, `Form(x - y)` and `Form(x * y)`, for all integers x and y |
| `FormsAreConverted` | for x below `Capacity`: `FromCanonical(x) = Form(x)` and `ToCanonical(FromCanonical(x)) = x % Modulus` |

For any word size, number of limbs and modulus. Assumed: `LimbsAssumption`, which is that
twice the modulus fits in the limbs ("p has room in the top limb") and that `N0` is
minus its inverse modulo a word. The runs have few and small limbs; the real ones, 12 or
8 of 32 bits, are too many for TLC to go through.

There is no state here, and the work is in the loops. `PartOf(l, n)` is the value of the
lowest n limbs. `Accounted` is what every loop with a carry comes to: if limb and carry in
are limb and carry out, the value in is the value out and the last carry's. `Carries`
shows the carry to stay below a word, since a limb times a limb, a limb and a carry fit in
two words (`WideEnough`, `Fits`), so that the 64-bit accumulator loses nothing.
`LowClears` is what `N0` is for: the low limb of the row becomes 0, and dropping it is a
division by `Word` (`ShiftIs`). The invariant of CIOS is that after n limbs of b the row t
satisfies t * Word^n = a * (the lowest n limbs of b) + Modulus * K for a K below Word^n
(`RowsAre`), and that t is below a + Modulus, so that the limb above never takes more than
a 1 (`ShiftedDownIs`). With b reduced that leaves less than twice the modulus, which is
the code's comment "The CIOS result is below 2p; subtract once when needed"
(`MulLeaves`); a need not be reduced, as the words of a cell may not be when
`fr_from_canonical` gets them. Residues that agree after multiplication by `Capacity` are
equal because `N0` gives `Word` an inverse (`Invertible`, `Cancels`).

### Induction

The library's induction theorems take an operator, which no installed prover can
instantiate. `Arithmetic` proves induction for sets of numbers from the library's
well-foundedness of `<`, and from it `Recursion` (there is a function that goes on from
each value to the next as a given one says) and `Agree` (there is only one), so that
what a loop computes, written as a recursive function in a `LET`, can be proved: the
recoding, the carries, the prefix sums, a thread's sum, a slice's sums, the devices, powers and sums
in the field, the bit reversal, the list of missing cells. Powers of two
are those the cardinalities of power sets are (`PowersOfTwo`): the provers know
nothing else of `^`.

### Model-checked only

- `HolderReleases` and `MonitorReleased`: liveness, which needs `ENABLED`.
- `ProofsOpenCells`: it needs that `g1_add`, `g1_madd` and `g1_dbl` are the operation of
  a group, and associativity of the curve's formulas is an identity of rational functions
  with hundreds of terms, which no installed prover finds.
- What `Curve` makes of field elements: TLC evaluates it for all pairs of points.

## Not modelled, and why

- The words of the compiled shaders (`src/shaders/shader_source.h`) and
  of the trusted setup (`setup_data.cpp`): nine tenths of the lines of the
  repository's C++ are hexadecimal data. The shaders are modelled from their
  sources, the tables by what they must be.
- `queryGpuTotalCores` (gpu_topology.cpp): an ioctl of one driver, whose answer
  selects one of two pipelines; both are run.
- The extraction of library and tables when `Vkzg` is loaded, and its checks of
  array lengths, but for their refusing a call (`Rejects`).
- A list of devices that shrinks between the two enumerations (vkzg.cpp:440): the
  code would then query a null device, which has no defined outcome.
- Exceptions other than that of the tables' vectors; a `dup2` of the stderr
  suppression that fails.
- The results of `vkResetCommandBuffer`, `vkBeginCommandBuffer`,
  `vkEndCommandBuffer` and `vkResetFences` (vkzg.cpp:907-910, 1023-1025,
  1166-1167), which the code ignores: what a driver does with a command buffer
  that was not recorded, or a fence that is still signalled, is undefined, and
  `Prover` takes the four not to fail.
- The tables of the split convolution, items with their offsets and the order of
  the buckets: `ProofPass` has the items by bucket, not where they lie.
- Addresses and their 32-bit arithmetic; visibility of device writes to the host
  after the fence.
- Workgroups of one dispatch run one after the other in `NttPass`: they write
  disjoint slots. A butterfly is one step: the pairs of a stage are disjoint, so
  no other invocation sees its halves.
- Benchmarks, build, tests: no logic of the library's own.

## Plan

1. The profiler's flushes inside `Passes`.
2. Proofs: the pipeline between the points, over an abstract group of order P, so that
   `ProofsOpenCells` is left with the group law alone.
