# mlxPDLP in TLA+

A verification project for mlxPDLP, a primal-dual hybrid gradient (PDHG) solver
for linear programs on Apple GPUs. It models the control of the solver - which
point is evaluated, kept, recovered, restarted from, audited and returned - and
the schedules that control has to respect on the GPU. The arithmetic inside a
kernel is abstracted to "some point, with some measurements". Beside the solver
it models how a problem gets in - the MPS reader, the Python call around it, the
transposed storage - and the units its scaling leaves everything in.

Source references are to `src/src/solver.cpp` unless another file is named.

## 1. The system

| Component | State it keeps | Operations | What makes it correct |
|---|---|---|---|
| Solve loop (`MlxPdlpSolver::solve`, `initialize_solve`, `finish_solve`, `mlx_check_termination`, `mlx_should_adaptive_restart`, `mlx_perform_restart`, `mlx_recover_numerical_failure`) | iterate in place, published residuals, `total_count`/`inner_count`, restart controller, sticky invalid flag, handoff checkpoint, termination reason | run a block, evaluate, recover, check termination, restart, finish | residuals describe the point in place; limits return useful work; restarts keep their cadence; the loop ends |
| Best-iterate safeguard (`mlx_save_best_iterate`, `mlx_restore_best_iterate`; `improves_checkpoint` in `host_double_polish.cpp`) | checkpoint and its reading | offer, restore | the best informative reading is kept |
| Float64 feedback (`mlx_host_double_feedback`) | audited incumbent, active flag, last audit iteration | audit the point in place, swap in the incumbent | OPTIMAL rests on an audit; the incumbent never degrades |
| Iteration block (middle of the loop, `mlx_compute_*`, `fused_eval_batch_size`) | iterates and snapshots, MLX's lazy graph | first, minor, batched and last iteration | every Halpern index used once; errors compare one iteration; the lazy graph is bounded |
| Native minor batches (`metal_minor_batch.cpp`) | public outputs and scratch arrays of a batch | encode two kernels per iteration; the GPU overlaps them | no kernel sees a buffer another one is using; outputs hold the last iteration |
| Shared-matrix batch solver (`batch_solver.cpp`) | lanes of several LPs over one matrix, their due distances, a plan with a timed mutex | admit, run shared blocks, finish members | every input gets one result; a lane decides exactly where its solo solve would |
| Float64 continuation (`host_double_polish.cpp`) | host copy, phases, iteration and time budgets | correct, polish, repair bounds | never returns less than it was given; stays within its budget |
| Feasibility polishing (`mlx_primal/dual_feasibility_polish`) | temporary objective and bounds | primal phase, dual phase, undo | the original problem and the point are restored on every path |
| Presolve adapter (`presolve_adapter.cpp`) | reduced problem, postsolve record | presolve, postsolve | the status belongs to the original model |
| Scaling, step size, operator norm (`mlx_*_scaling`, `apply_sparse_scaling`, `publish_sparse_rescaling`) | scaled matrix, vectors and factors, global scales; what lanes of a batch share of them | the passes, bound/objective scaling, adopting a prepared matrix, unscaling | all arrays in matching units; everything reported in the model's own |
| Sparse kernels, row scheduling (`metal_spmm.h`, `metal_spmv.h`, `cpu_sparse_matrix.h`) | row work lists | pack rows, multiply | every row is scheduled once |
| MPS parser and loader (`mps_parser.c`, `mps_loader.c`) | reader, section, name tables, growing arrays, ownership of each block | read a line, parse a record, build, hand over, free | the model loaded is the one the file states; failures leave nothing behind |
| Shared matrix storage (`shared_matrix.cpp`, `capture_sparse_matrix`) | CSR arrays, transpose with source indices, factors | capture, scale, prepare for a backend | A^T holds each entry of A once |
| Python package (`solve_mps`, bindings) | a copy of the model | load, negate a maximization, solve, negate back | the result is in the file's own sense |
| Parameter validation, build and benchmarks | none | - | - |

How they interact: the solve loop is one host thread. It builds a lazy graph of
kernels (the iteration block), forces it at evaluations and reads back scalars;
on the sparse-Metal path the middle of a block is handed to a native minor
batch. Every accepted evaluation passes through the float64 feedback, then
through the safeguard, then through the termination test. Afterwards the result
is restored, audited, optionally continued in float64, and audited again. The
batch solver drives several `MlxPdlpSolver` objects through the same functions,
but with its own loop.

Hard behaviours: the clock advances between any two statements and is read
twice within one termination test; a breakdown may appear at any evaluation and
rewinds half of the state; early evaluations cut blocks short without being
regular checkpoints; two precisions disagree about one point; the GPU overlaps
dispatched kernels; in a batch, lanes with different cadences share a block;
an MPS record can be read in more than one way, and a reader that stops early
looks like one that is finished.
`hazards` in `PROJECT.json` lists them one by one, with their lines.

## 2. The modules

| Module | Models | Checked by | Proofs |
|---|---|---|---|
| `Metrics` | comparisons of readings, with the saturation rule | (used by the others) | lemmas in `PdhgSolveProofs` and `HostPolishProofs` |
| `Checkpoint` | the safeguard as an abstract specification | `ImplementsSafeguard` of `solve` | `PdhgSolveProofs` |
| `Cadence` | the stride of early evaluations, in both of the code's versions | (used by `SharedLanes` and by the runs of `PdhgSolve`) | - |
| `PdhgSolve` | the solve loop, feedback, recovery, restarts, result | `solve`, `deadline` | `PdhgSolveProofs` |
| `IterationBlock` | one block in detail: PdhgSolve's `RunBlock` | `native_blocks` | `NativeBlocksProofs` |
| `MinorBatch` | the buffers of one native batch: IterationBlock's `MinorBatch` | `native_blocks` | `NativeBlocksProofs` |
| `NativeBlocks` | the two composed: blocks that dispatch batches and collect their outputs | `native_blocks` | `NativeBlocksProofs` |
| `MemberResults` | what a batch promises for each member, as an abstract specification | (implemented by the next two) | - |
| `SharedLanes` | a shared group: `run_shared`, `finish_member` | `shared_lanes`, `shared_stale` | `SharedLanesProofs` |
| `BatchPlan` | concurrent calls of one plan: `BatchDriver::solve` | `batch_plan` | `BatchPlanProofs` |
| `HostPolish` | `extract_result`: both float64 continuations, postsolve's choice, the audits | `host_polish` | `HostPolishProofs` |
| `FeasPolish` | `finish_solve` with its primal and dual polishing phases | `feas_polish`, `polish_optimal` | `FeasPolishProofs` |
| `MpsModel` | what the lines of an MPS file mean, as a reference definition | (used by the next two) | - |
| `MpsParser` | `read_mps_file` and the loader: lines to arrays, and who owns them | `solve_mps`, `mps_truncated` | `SolveMpsProofs` |
| `MpsText` | the ways in which a file may spell its meaning, and what it promises then | `solve_mps` | `SolveMpsProofs` |
| `SolveMps` | `solve_mps` of the Python package, around the parser and an abstract solver | `solve_mps`, `mps_truncated` | `SolveMpsProofs` |
| `Scaling` | `initialize_solve` as changes of units, for a solver and the lanes of a batch | `scaling` | `ScalingProofs` |

Each `MC...` module only supplies values for the constants, and two of them evaluate
a theorem's hypothesis on them. In the modules,
definitions named `DEV_...` are deviations a plausible bug would introduce. No
specification uses them; put in the place of the definition after them, each
breaks the property `PROJECT.json` pairs it with.

### Metrics and Checkpoint

A reading is the triple of relative primal residual, dual residual and gap, as
naturals, or `NonFinite`. `BetterCheckpoint` is the code's comparison: a smaller
KKT error wins, except that two readings in the saturated region (gap at least
0.99) within 1e-6 of each other tie and the better feasibility wins. `Metrics`
keeps the floor and the tie width as constants. `Checkpoint` has one action,
`Offer`, and the set of everything offered as history.

### PdhgSolve

A *point* stands for an iterate `(x, y, z)` and carries what measuring it gives:
`dev` (device reading), `aud` (float64 audit) and `orig` (does it pass the
original-model audit). Kernels choose points freely from a finite set.

| Action | Code |
|---|---|
| `InitializeSolve` | end of `initialize_solve`: evaluate, audit, offer the start point |
| `RunBlock` | 4537-4600: block length, iterations, fixed-point errors, residuals |
| `Recover`, `GiveUp` | 4602-4614 with all of `mlx_recover_numerical_failure` |
| `Accept` | 4615-4629: feedback, then safeguard |
| `CheckOptimal`, `CheckCertificates`, `CheckLimits` | `mlx_check_termination`, split where the clock is read |
| `Decide` | admissibility of early evaluations, restart test, `mlx_perform_restart` |
| `LeaveLoop`, `FinishSolve`, `ExtractResult` | end of `solve`, `finish_solve`, `extract_result` |
| `ClockExpires` | the deadline passes, between any two actions |

The parameters that change control are one record per instance (`IsInstance`),
so one run covers several configurations. One of them is the stride of early
evaluations at each count: the theorems hold for any positive one, and the runs
take `Cadence`'s, with decades short enough to be crossed.

Abstractions. Primal weights and step sizes are not modelled; a reduced step
size is either usable or not (`stepUsable`). HPR's best gap only feeds weights
and is left out. Certificate tests answer nondeterministically when they are
due. Feasibility polishing, off by default, is left to `FeasPolish`, and the
presolve branch is not taken. Exceptions (for example from a non-finite
operator norm during initialisation) end the call without a result and are not
modelled. The clock is one flag, which may rise in any state.

### IterationBlock, MinorBatch and NativeBlocks

`IterationBlock` names every iterate by the iteration that wrote it, counts what
is in the lazy graph, and records the Halpern index of each iteration since the
restart. Block lengths are arbitrary members of `Blocks`, and whether a restart
or recovery is pending after an evaluation is arbitrary too, so it
covers every way the solve loop can call it.

`MinorBatch` models one batch command: encoding inserts the barriers that MLX's
encoder derives from declared inputs and outputs, and then kernels start and
finish in any order the barriers allow. A kernel that reads a buffer while it is
being written gets `Garbage`. The encoder and the GPU are not in the repository;
`Clash`, `Barrier`, `Start` and `Finish` model them from how the code uses them
and are marked external.

`NativeBlocks` extends both and puts the batch where the block calls it: `Dispatch`
builds the primitive, the GPU encodes, starts and finishes kernels, and `Collect`
takes the public outputs as the block's iterates. The content of a buffer is the
number of iterations since the batch began, or `Garbage`, so an iterate the
block goes on with is wrong when any buffer was. `ImplementsBlock` says that this
is `IterationBlock` with a batch as one step.

### MemberResults, SharedLanes and BatchPlan

The batch solver promises that "every input gets a result in input order"
(`docs/batch_solver.md`). `MemberResults` states the part of it every layer
shares: members start without a result, and a step may only give results to
members that have none. Both detailed modules implement it (`ImplementsMembers`
in each, with its own refinement mapping).

`SharedLanes` is the loop of `run_shared`, from `batch_solver.cpp:301` to 517,
and what its caller does after it. The lanes are the members of one group; the
padding lanes of the last tile are masked in the code and left out. A lane's
due distance uses the batch's own version of the stride (`LaneStride`), what
`JudgedLikeSolo` expects the solver's. (They agree below 10^9 iterations. From
there on a solve stays at a stride of 10^7 and a lane goes on to 10^8;
`docs/architecture.md:774-779` describes the lane's. The instances stay below
that.)

| Action | Code (`batch_solver.cpp`) |
|---|---|
| `DropExpired` | 310-319: lanes past their deadline leave and are finished |
| `PlanBlock` | 320-343: due distances, the nearest one, a zero distance leaves the loop |
| `MeasureBaselines`, `MinorIterations`, `LastIteration` | 356-402: first iteration with baselines, native or single minor ones, the major one; each may end the block at a deadline |
| `Gather` | 405-441: lanes take their columns of the workspace |
| `CountLane` | 442-461: count, pass over, publish |
| `Recover`, `GiveUp`, `Accept`, `Test`, `RestartTest`, `CloseLane` | 462-511, for the lane being judged |
| `LeaveLoop` | 515-517 and the caller's `finish_member` calls, 629-631 |

An iterate is named by the iteration that wrote it, so that the model can say
which iterate a published reading belongs to; what a reading says is free.
Left out: step sizes, primal weights and Halpern indices (data here), the
audited incumbent (modelled in `PdhgSolve`), problems without rows or columns,
and the difference between the two infeasibility reasons, which are tested and
audited alike.

`BatchPlan` is `BatchDriver::solve` for any number of callers: validation as one
outcome, the budget arithmetic, the wait for the timed mutex, groups, admission
up to the deadline, results. The run of a shared group and the solve of an
independent member are one step each: `SharedLanes` and `PdhgSolve` are their
bodies. A device exception (`Fail`) unwinds the call and releases the mutex.

### HostPolish

`HostPolish` opens the step that `PdhgSolve` calls `ExtractResult`: what happens
between the last device iterate and the returned result. With presolve the
float64 continuation runs on the reduced (`"working"`) model, postsolve rebuilds
an original point, and the continuation runs again between two audits of that
model; without presolve only the second part runs. Lines are those of
`host_double_polish.cpp`.

| Action | Code |
|---|---|
| `Audit` | `recompute_original_certificate`, including its choice of reduced costs (`Refined`) |
| `Skip`, `Refuse`, `Begin` | 141-236 and the setup: the shared budget, the bound repair that happens even when the point is then refused, the gates |
| `NeutralIteration`, `EndNeutral` | 704-902: descent on the rows that moves `x` alone |
| `SkipCertificate`, `BeginCertificate`, `CertificateBlock`, `HandOff` | 913-1255: the dual certificate at a fixed `x` |
| `JointBlock` | 1302-1445: joint PDHG, one block |
| `Leave` | 1447-1469: budget accounting, write-back |
| `ApplyPostsolve` | `apply_postsolve`: two replays, two audits, the choice |
| `ClockAdvances` | the time budget, or the share of it a phase has, runs out |

Points are pairs of a primal and a dual vector, and `Measure` gives a reading for
each pair. A dual vector stands for `y` together with the reduced costs, after
the projection onto their signs that every audit applies first. Three functions
say the rest: `Exact` (same `y`, reduced costs `c - A'y`), `Clamped` (bounds
repaired) and the residuals the first two phases descend on. Since scaling is
exact up to rounding, `evaluate` in scaled coordinates and the audit in original
ones read the same `Measure`; this takes the L2 norm, the default. The reduced
and the original model share names but not meaning: postsolve maps anything to
anything. Line searches, step sizes and primal weights are data; the restart
test is free where the code compares fixed-point errors.

### FeasPolish

`FeasPolish` opens the step that `PdhgSolve` calls `FinishSolve`, for solves with
`feasibility_polishing`. It starts in any state the loop can leave and ends where
`extract_result` begins.

| Action | Code |
|---|---|
| `Finish` | 4476-4484: restore after a limit, evaluate, forced feedback |
| `SkipPrimal`, `StartPrimal` | 2641-2724: the reasons to return at once; saving the solve's state, installing the surrogate |
| `PrimalBlock`, `LeavePrimal` | 2751-2803: iterations, row residual, best `x`, restart; limit and deadline |
| `BlendPrimal` | 2805-2885: everything back, the 64 trials, accept or reject |
| `SkipDual` .. `BlendDual` | 2887-3160, the same with zero bounds and the dual vector |
| `FinalFeedback` | 4487 |
| `Expire` | the deadline passes, between any two actions |

What a phase borrows is two variables: `problem` (whose objective and bounds) and
`controller` (whose weights, steps and errors); its own counters are `total` and
`inner`, as in the code, and `base` is what it saved. A reading is given for each
pair of a primal and a dual vector and has components that may be `NaN`, since the
phases use `std::max`, whose result then depends on the order. Reductions of the
fixed-point error are free. What the reading of the code brought up besides the finding:
each phase has a full `iteration_limit` of its own (2698-2701 says so, and of the
time budget too, which 2664-2668 and the code contradict); a phase whose baseline
residual is `NaN` can improve on nothing and spends that whole limit; with
an evaluation frequency of one a block still runs a first and a last iteration
and counts one; the dual phase does not bound its primal weight (2966) as the
primal one does (2716).

### MpsModel, MpsParser, MpsText and SolveMps

A line is given twice, as the reader sees it - its whitespace tokens, and the six
classic fields when it begins with a blank (with `stray`, which columns outside
them are not blank where the reader looks) - and as what its author `means`.
`MpsModel` computes from the meanings alone what the model is (`Meaning`):
objective row, intervals, coefficients, bounds. `MpsParser` never looks at them.
Tokens are opaque, except for a table of the numeric ones.

| Action | Code (`mps_parser.c`) |
|---|---|
| `Open`, `OpenFails`, `CloseReader` | `fast_reader_open`, `fast_reader_close` |
| `SkipLine`, `HeaderLine`, `RecordLine` | 683-793: one line, with `finalize_rows` at the end of ROWS, the choice between free and fixed, and the section's parser |
| `Reject`, `Build` | 795-843: give everything back, or convert to CSR and take over the arrays |
| `Wrap`, `WrapFails`, `FreeProblem` | `mps_loader.c`: the handle, its failed allocation, the end |

Every line the reader can deliver may be the last: `breaksAt` stands for a read
error and for a line longer than the buffer, which both end the loop like the
end of the file. `heap` is the set of live blocks and `holds` what each owner
points to. Left out: growth of arrays and tables (`safe_malloc` exits the process),
the second hash of names, and numbers other than small integers.

`MpsText` says which files spell what they mean (`Understood`): each section once
and in the order of the format, and each line in free form or in fixed columns,
with or without a name for its vector, continuing the column before or beginning
one. Fixed columns are the reader's (`InColumns`, 552-561, 572, 614): a row's type stands
in column 2, nothing stands in columns 3 and 4 or behind its name, and a record of
pairs has nothing before column 5. A row with its type in column 3, a name longer than
its field or a remark is read as words; one with a blank in its name (`  E MY ROW`)
then loads as another row, and is outside. What else is left outside are files that
no reader could take for the one meaning rather than another, or that the format forbids: a vector or bound set named like a row or
column that follows it, a right-hand side of a dropped free row without a
vector name, fields that make sense as words with another meaning (`Clear`), two rows of
one name or two right-hand sides of one row, sections that come back, more than
six tokens. Nothing is claimed of what those are loaded as; that their memory, tables
and transpose are right is claimed of every file.

`SolveMps` is the Python function: `Raise`, `CopyModel`, `Construct` (with
`capture_sparse_matrix` of `src/src/solver.cpp`, 294-348), `Solve`, `Return`. The
solver in the middle is any minimizer of what it is given: `PdhgSolve` is its body.

### Scaling

A stored number is the model's number times factors. `Scaling` keeps only the
logarithm of what it has been multiplied by, for every array, so that 0 is the
model's own unit; two arrays that are combined must agree.

| Action | Code |
|---|---|
| `MeasureNorms` | 4277-4288, before anything is scaled |
| `GeometricMean`, `CurtisReid`, `PockChambolle` | the passes that publish at once (`Pass`), or change nothing |
| `RuizIteration`, `RuizEnd` | 1917-1968: the published factors, and the dense transpose, follow at the end |
| `Enter`, `Adopt` | a lane of a batch takes the factors of the solver that prepared its matrix, 4293-4302 |
| `BoundObjective` | `mlx_bound_objective_scaling`, for each lane its own |
| `PrepareBackend`, `StepSize` | 813-862: the sparse backend takes the coefficients; 4364-4440 |
| `CopyCertificate` | 3922-3950 and its cached factors |

Which factors a pass finds is free, so the checks hold for any numerical method.
A sparse matrix keeps its coefficients in `matrix.host` and is shared; a dense
one is an array of its solver, and lanes of a dense batch exist only where
neither Metal nor Accelerate is available. Rays are audited only for lanes that
run in lockstep, which a dense batch does not. Left out: the infinity masks,
primal weights and the warm-start balance.

## 3. The runs

| Run | Distinct states | What it shows |
|---|---|---|
| `solve` | about 328,000 | nine properties of the loop, the refinement `ImplementsSafeguard`, and `Termination` |
| `deadline` (violation) | - | `TimeLimitAfterCertificates` fails: the clock is read twice |
| `native_blocks` | about 450,000 | `HalpernConsecutive`, `SnapshotsCoherent`, `EveryKernelIntact`, and `ImplementsBlock`: overlapped batches do what sequential iterations do |
| `shared_lanes` | about 2.9 million | each lane is judged where it would be alone (`JudgedLikeSolo`), with its own baseline (`LaneBaselines`), for its own limits (`OwnLimits`), no lane runs on for more than a batch after its deadline (`LateWithinBatch`), and the group ends (`GroupTermination`) |
| `shared_stale` (violation) | - | `BestFullyEvaluated` fails: an iterate saved under older readings |
| `batch_plan` | about 96,000 | `AnsweredInOrder` and `ImplementsMembers` for four concurrent calls; `CallsReturn` under `WF_vars(Step(c))` for each caller |
| `host_polish` | about 204,000 | one budget for two continuations (`SharedBudget`), a retained point that never loses (`RetainedNoWorse`); the certificate holds its `x` (`HeldPrimalIsIncumbent`); the result is described by its residuals (`ReportedDescribesResult`); no early resignation (`GivesUpOnlySpent`); `ExtractionReturns` under `WF_vars(Step)` |
| `feas_polish` | about 641,000 | a phase returns what it borrows (`RestoredAtRest`), the merit never rises (`NeverWorse`), OPTIMAL stays true (`OptimalMeetsTolerances`), limits hold (`PhaseBudget`) |
| `polish_optimal` (violation) | - | `OptimalMeetsTolerances` fails when the gap tolerance is the smaller one |
| `solve_mps` | about 30,000 | 809 files: what is loaded is what was meant or the file is refused (`LoadsWhatTheFileSays`), every block is freed once (`HeapExact`), the transpose is exact with repeated coordinates (`TransposeExact`), results come back in the file's sense (`SenseRestored`) |
| `mps_truncated` (violation) | - | `FailureReturnsNull` fails: a file that cannot be read on is loaded as far as it was read |
| `scaling` | about 563,000 | arrays that meet are in matching units at every stage (`UnitsAgree`), and what is reported is in the caller's (`ReportsInOriginalUnits`) |

**Bounds.** `MCPdhgSolve` has nine
instances, each aimed at one mechanism: `Checkpointing` (all kinds of device
readings, early evaluations, two recoveries), `PidRestarts` (errors that
separate the three PID tests), `HprRestarts` (long enough for the artificial
restart not to hold trivially), `Audited` (device and audit disagree both
ways), `AuditedOnly` (audits started by near-optimal readings alone),
`Stagnating` (a handoff window fits twice, sparse Metal), `StagnatingAudited`
(the same with audits: the merit kept for a handoff may be the audit's, while
the device reading is published), `NoIterations` and `Unrecoverable`. A decade of early evaluations is a factor of two there, and
begins at 6. Iteration limits of 8 to 14 with a cadence of 2 or 3 give at
least four regular checkpoints: first block, restart, recovery and a further
checkpoint. `MCNativeBlocks`: blocks of 1 to 11 iterations, shorter than, equal
to and longer than a batch and not multiples of it, up to 16 iterations in all;
problem sizes that make every batch length from 1 to 6, both parities, with
kernels in every order the barriers leave. (The code's limit of 16 only repeats
the alternation; the theorem holds for any length.)
`MCSharedLanes` has two lanes, which is enough for a lane and "the others": what a
lane sees of them is the block length, the first iteration being major and an
early break. Its configurations are `NativeBlocks` (blocks longer than a native
batch, which is cut both by its own capacity and where time is checked),
`Recoveries` (early checks of one lane while the other recovers),
`RegularRecoveries` (a lane recovers at a regular check where the other neither
restarts nor recovers), `Audited`
(audits replace readings), `Decades` (the stride grows between two early checks)
and `NoIterations`; every lane's deadline may pass at
any moment, so every order of deadlines, checks and breaks occurs. `MCBatchPlan`
has four callers of different kinds: five members in three groups under a budget
that holds three lanes but only one tile of two; an unbounded shared call;
independent execution without a deadline; a budget below one tile, which is
rejected. `MCHostPolish` has four primal vectors (optimal, within tolerance, off by an fp32
floor and out of bounds, far off) and four dual ones (exact, raw reduced costs,
damaged by postsolve, not finite), so that every gate has a point on each side,
every phase can start, improve, stall and fail, and two readings are saturated
and tied. Eight iterations with a cadence of three let a continuation go through
all three phases and end in a partial block, and leave something for the second
one; the caps (misses, halvings, neutral iterations) are small enough to be
reached. `MCFeasPolish` has five primal vectors (feasible but dear, closer, loose but cheap,
far off, broken) and four dual ones, whose readings and audits disagree on both
sides of the tolerances; segments have one inner point and an end, so that the
best trial may be either, or none. Iteration limit 5 and blocks of 2 give three blocks a phase: a
first restart, a free one, and the overrun past the limit. Which vector a block
leaves is free, so a surrogate may improve, stall or break.
`MCSolveMps` enumerates families of files: every row type with right-hand
sides and ranges, named or not; continued, repeated and marker records under up
to two bounds of nine kinds; fixed columns with blanks in names and with remarks; lines that fields could be cut
out of but that are not in fixed columns; an index limit
of 4 (the code's is INT32_MAX) met exactly and exceeded by rows, columns and
nonzeros; disorderly files, and files cut short at each of their lines.
`MCScaling` has two rows and two columns, so that factors differ between
neighbours, factors 0 and 1 (global ones 0 and -1), up to two Ruiz iterations,
so that the first one's factors are not yet published, and one lane. Only `Limit`
(IterationBlock) bounds a counter; in `PdhgSolve` and `SharedLanes` the code's
iteration limit does, and the passes and files are finite by themselves.

**Deadlock** is checked in every run. `Returned`, `AllEnded`, `Rests` and `Stopped` are the only
stuttering actions and stand for a finished call (and for the exploration bound).

**Fairness.** `FairSpec == Spec /\ WF_vars(Step)` in `SharedLanes` and
`HostPolish` (where `ClockAdvances` is left out, like `ClockExpires`);
one `WF_vars(Step(c))` for each caller in `BatchPlan`. `PdhgSolve` states the
same as `WF_pc(Moves)`: the thread leaves every location but the last. Each
`Step` does, and from each location one is enabled whether or not the deadline
has passed (no guard requires it to have passed; that no state is stuck is
TLC's deadlock check), so this is weak fairness of `Step`, in a form whose
`ENABLED` needs no enumeration of points. It lets termination be checked on all
nine instances and not only on small ones. `solve()` is a
single thread that takes no lock and waits for nothing but the device, so an
enabled step is eventually taken. `ClockExpires` is not fair: the deadline may
never pass, and the solve must end anyway. `run_shared` runs on the one thread
that holds the plan's mutex. A caller of `BatchPlan` may wait for the mutex;
weak fairness suffices because each caller takes it once and every holder gives
it back, so after finitely many steps of the others it stays free until the
last waiting caller takes it. `Fail` is not fair either.

**Violations.** Each is a disagreement between a comment and the code:

- `TimeLimitAfterCertificates`: the comment at 3385 says a limit block is always
  checked for certificates first. The clock is read at 3394 and again at 3493; a
  deadline between the two ends in TIME_LIMIT with certificates skipped. For
  the iteration limit the sentence holds (`IterationLimitAfterCertificates`).
- `BestFullyEvaluated`: the comments at `batch_solver.cpp:450` and
  `solver.cpp:4617` say that an early check leaves the best certificate of a
  lane alone that is not due, and that the best *evaluated* point is kept. After a block that was cut
  short a lane may be judged without new readings (453) and still be offered to
  the safeguard (468), with the iterate just gathered. If the readings it shows
  had been renewed without an offer - by a recovery or an audit - the iterate is
  saved under readings that are not its own. The final audit still reports the
  returned vectors honestly; it is the choice between them that is affected.
- `OptimalMeetsTolerances`: the comment at 2821-2825 says the search for the best
  merit protects objective quality. The merit weighs residuals and gap on one
  scale; when `eps_optimal_relative` is the smaller tolerance, a phase accepts a
  point with a smaller residual whose gap misses its tolerance, keeps the status
  OPTIMAL (2816, 2865-2869), and the final audit turns it into UNSPECIFIED. With
  equal tolerances, the default, the property is checked to hold.
- `FailureReturnsNull`: `mps_loader.h:44` promises NULL on I/O or parse failure.
  `fast_reader_gets` returns NULL at a read error (`mps_parser.c:221-223`) and at a
  line longer than its buffer (248-251) as it does at the end of the file, and
  ENDATA is not required: the lines read so far are returned as a model.

## 4. What is proved

TLAPS proves the theorems in `PROJECT.json` for all values of the constants,
under the assumptions `MetricsAssumption`, `SolveAssumption`,
`MinorBatchAssumption`, `BlockAssumption`, `NativeAssumption`, `PlanAssumption`,
`PolishAssumption`, `FeasPolishAssumption`, `LanesAssumption`,
`ScalingAssumption`, `MpsAssumption` (a line has a sequence of tokens and six
fixed fields or none, and of the columns outside them only those the reader looks at
are told apart; numerals have integer values; the limit is a natural number), `TokensAssumption`
(a blank and `'MARKER'` are no numbers, and `N`, `L`, `E` and `G` are their own first
letters) and `SolveMpsAssumption` (coordinates have integer values), which only say what the parameters are (and, for
`PdhgSolve`, that `Inf` lies above five times every fixed-point error).
Three more assumptions are facts of what was left out. `ExactIsNearest`:
projecting `c - A'y` onto the allowed signs gives the reduced costs with the
least dual residual, and the primal residual does not depend on them.
`SeparateResiduals`: row residuals do not depend on the dual vector, nor dual
residuals on `x`. `StridesAssumption`: a stride of early evaluations is a
positive number.

Some theorems have a hypothesis of their own, which a run evaluates:

- `OptimalPassesAudit`: the tolerance is at most the saturation floor.
  `PolishKeepsOptimal` (`OneTolerance`): both tolerances are one, at most that
  floor; the run `polish_optimal` shows what happens otherwise.
- `PolishKeepsOptimal` (`SegmentsWhole`): between two vectors whose readings have
  no NaN lies none that has one. The phases search such segments.
- `LanesJudgedLikeSolo` (`StridesMatch`): the batch's copy of the stride rule and
  the solver's agree on the counts of every configuration. They are written
  separately in the code and do differ from 10^9 iterations on (section 2), so
  the theorem says precisely what the copy must satisfy. Both rules are
  recursive definitions, which the provers cannot unfold.

- **Metrics** (lemmas of `PdhgSolveProofs`). `Kkt` and `Feas` of a finite reading are naturals;
  `BetterCheckpoint` is irreflexive and, below the floor, agrees with `Kkt`. A
  reading that passes tolerances up to the floor is only replaced by one that
  passes them too (`PassingAuditStays`).
- **Checkpoint.** `InformativeMinimum` is not inductive: a tie may raise the KKT
  error. The invariant adds that the retained reading is within the saturated
  region as long as only saturated readings were seen, and that one informative
  reading brings the checkpoint below the floor for good (`CheckpointMinimum`,
  `CheckpointGains`, stated of the checkpoint of `PdhgSolve`).
- **PdhgSolve.** `PublishedNow` strengthens `PublishedDescribesPoint` to all
  states between an exchange of the point and its republication.
  `LimitReturnsMinimum` needs the Checkpoint invariant - obtained through
  the refinement `ImplementsSafeguard`, proved step by step - and
  that after `FinishSolve` a limit shows the checkpoint's own reading
  (`LimitShowsCheckpoint`). `LateInv` says the loop is only re-entered before
  the deadline or with it newly passed, and yields `OneLateBlock`. `BaselineInv`
  relates a missing baseline to a pending restart, and yields `BaselineMeasured`.
  `LimitInv` carries from the first clock reading to the second that a block at
  the limit had its certificates tested (`CertificatesBeforeLimit`). `EndInv`
  says that an incumbent is finite, that a reading near the tolerances is an
  audit's when feedback is on, and what each way out leaves published
  (`ReturnsFinite`). `OptimalPassesAudit` adds that a point that passes stays in
  place through the final feedback; it has the hypothesis `OptTol <= SatFloor`,
  since above the floor a saturated incumbent could win a tie against it.
  `CadenceInv` and arithmetic on remainders (no block length crosses a multiple
  of the cadence) yield `RestartsKeepCadence`; `HandoffInv` (what is kept for a
  handoff is younger than the last recovery, and its merit was measured on it)
  yields `RecoveryStartsOver`.
- **MinorBatch.** `MbInv` says, for each encoded iteration, what its input and
  output buffers hold before, during and after each of its kernels, using the
  order the barriers enforce. From it follow `EveryKernelIntact` and
  `OutputsComplete` (a finished batch left its last iteration in the public
  outputs), for every batch size of either parity.
- **IterationBlock.** `IbInv` is `Place` (how far the block is), `Progress` (how
  many Halpern indices were used), `Coherent` (which iterates are current) and
  `Pending` (how much of a batch is lazy, as a remainder). The remainders need
  arithmetic lemmas about division by a variable, proved first.
- **NativeBlocks.** `NativeImplementsBlock`: no batch is in flight (`Idle`), or the
  one in flight is that of the block's next iterations and satisfies `MbInv`
  (`InFlight`). Dispatching and the kernels are stutters of the block, and
  collecting is its `MinorBatch` step: the outputs hold the batch's last
  iteration (`CollectedAreLast`), and they are exactly what a minor iteration
  writes, since batches are only built with fused kernels. The block's own
  theorems carry over to runs with native batches.
- **BatchPlan.** `PlanInv` says of each call how far it is (`Progress`: the
  admitted members are `0 .. next-1`, and the resident solvers are the last of
  them), which members have a result by then (`Answered`), and that a call
  inside the plan holds its mutex and stream (`Owned`). A step of one call
  leaves the others' part alone (`OthersKeep`), so each action is only examined
  for the call that takes it. `GroupFits` is the budget arithmetic: the width
  is positive, and padded to whole tiles it fits. `AnsweredInOrder`, `PlanOwned`,
  `WithinBudget` and the refinement `ImplementsMembers` follow, for any number
  of callers, members and bytes.
- **HostPolish.** `Shares` says how the certificate's share divides into spent
  and unspent iterations, from which `SharedBudget` and `JointReserved` follow.
  `Incumbent` ties the retained point to its metrics, to the target flag and to
  the result, and `KeptSinceEntry` compares it with the continuation's first
  reading: a saturated tie may raise the KKT error, but only if that reading was
  saturated already. (One exception stands in the property: the joint phase
  installs any point that meets every target without comparing it, 1380-1389,
  although `docs/architecture.md:570` says every route compares.) They give `IncumbentMeasured`, `RetainedNoWorse` and
  `GivesUpOnlySpent`, and with `RefinedNoWorse` (what the last audit's choice of
  reduced costs can lose) `ReportedDescribesResult`. `Held` shows that the two
  checkpoints of the neutral phase, kept by different comparisons, agree below
  saturation, which is `HeldPrimalIsIncumbent`.
- **FeasPolish.** `PhaseLocals` types what a phase saved and found.
  `PolishRestores` needs that a running phase holds the counters it found and,
  in `base`, the point, and that everything in between is borrowed.
  `PolishWithinLimits` bounds each phase by where it is; restarts reset `inner`,
  never `total`. `PolishNeverWorsens` carries the merit of `entry` through both
  baselines, where `BestTrialFacts` says that whatever is chosen is the baseline
  or below it; since a merit may not be a number, "not worse" is `~Below`, which
  composes only through `BelowChain`. With feedback it is the audited incumbent
  that is carried instead.

  `PolishKeepsOptimal` needs `OptimalKept`: under a phase lies a baseline that
  passes, and the vector the phase takes for its best has a residual that is a
  number, although surrogate blocks may leave anything. With one tolerance a
  point whose merit is below one that passes also passes (`LowerMeritPasses`).
  With feedback it is the incumbent that passes, and what the audits prefer to
  it does too (`UnbeatenAuditPasses`: the merits are products there).
- **SharedLanes.** While a block is iterated and its lanes are judged one after
  the other, a lane is waiting, in hand or settled. `BlockInv` says that the block
  is no longer than the due distance of any lane that waits. `LimitInv` adds
  that lanes leave with a reason and that settled ones are below their limit
  (`LanesOwnLimits`); `LateInv` that late iterations belong to expired lanes, to
  this block and to the native batch in progress (`LanesLate`); `BaselineInv`
  that a lane without a baseline is one whose restart is pending, or that has
  not come to its first checkpoint (`LanesHaveBaselines`); and `SoloInv` that the
  next check of a lane, as a solve of its own would choose it from where it was
  last judged, is still where its due distance points, whatever cut the blocks
  in between (`LanesJudgedLikeSolo`). The refinement of `MemberResults` follows
  (`LanesImplementMembers`), and that all members have results at the end
  (`LanesAllFinish`). Any number of lanes, any cadence and batch length.
- **Scaling.** `UnitsAgree` compares arrays only where the code combines them;
  `ScalingInv` fixes the units of all of them everywhere: what each stage has
  done to the matrix (`MatrixInv`), and to the vectors, factors and adjoint of
  the solver and of each lane (`SolverInv`, `LaneInv`), as sums of the factors
  published so far and, inside a Ruiz loop, those not yet published. Whether
  a lane owns its coefficients or shares them decides which matrix it is
  compared with. Any number of rows, columns and lanes, and any factors.
- **MPS.** `HeapInv` says at each point of the loader which owner holds which
  blocks and that nothing else is live; between `Build` and `Wrap` the five
  arrays have one owner because the parser's pointers are nulled. For the
  transpose, the counting sort of entries by key is shown to be a permutation:
  places are in range (`PlaceFacts`) and distinct (`PlacesApart`), so every place
  has its source (`SourceOf`), and the places between two pointers are those
  of one bucket (`BucketOfPlace`). `TransposeOfAnyMatrix` states the result for
  any matrix, `ConvertedIsCsr` that the parser's own counting sort yields one the
  solver accepts, and `MpsTransposeExact` puts both together with `ModelInv` (the
  arrays reach the solver as they were converted). That every coordinate kept has
  indices is the parser's doing: `StateInv` says the reader stays within its file
  and that the parser state is well formed (`Parsed`: each coordinate has a known
  row and column, every known column an objective coefficient, no name has two
  indices and no table outgrows the index limit: `MpsTablesExact`), also when an
  insertion fails in the middle of a record, and `StateStep` that each line keeps
  it so. A record is a fold over its pairs, `finalize_rows` one over the buffered
  rows, the value of an objective a sum over its columns. Library folds are
  functions of the subsets of their positions; `FoldExists` shows that the
  function they choose exists and obeys its equation, `Passes` that the state
  passes through the positions one at a time, both by `Induction`, which is about
  a set of numbers and follows from there being no least exception
  (`LeastNumber`). Lemmas cannot take an operator as a parameter, so `FoldStep`
  lists the steps of the folds there are. `DotFacts`, by the same induction, says
  that a negated objective has the opposite value; with it `MpsSenseRestored`
  carries a minimum of the turned model (`Minimal`) to an optimum of the file's
  (`TurnedBack`). `MpsCoordinatesHeld` says what the converted arrays hold: the
  place of each coordinate in the counting sort is a bijection, and at its place
  are its value, its column and, between the pointers, its row.

  `MpsLoadsWhatTheFileSays` compares the reader, which goes through the lines
  once and keeps tables, with `MpsModel`, which never looks at how a line is
  written and defines the model by sets and sums over all lines at once, for any
  number of lines, names and records. Its invariant is `TextInv`: before line `k`
  the reader holds exactly what the lines before `k` mean (`TextSo`), first as
  buffered rows (`Follows`), then, from the end of ROWS, as the tables built
  from them (`Built`). It needs the stage of the file (`Stage`: sections come in order),
  since what a word is taken for depends on the names known so far: the tables
  list the declared names, so the reader's choice between free and fixed form, and its
  guesses about omitted names, are those of `MpsText` (`Clear`). Each kind of record then has
  a lemma that one more line keeps it so; its pairs are gone through by the same
  folds as above. An index is a rank - the number of declaring lines up to this one -
  and the tables' order is that of ranks (`InOrder`). Sums are moved along
  bijections: from the places between two row pointers to the coordinates
  (`MpsCoordinatesHeld`), and from there to the pairs of the file. A file
  of more rows, columns or nonzeros than the limit is the only one refused,
  and it is refused: a table never outgrows the limit, and each insertion that
  fails proves that the file asks for one index more.

**Step bounds.** Of each loop that must end, a theorem counts the steps it has
left as a number that every step of the specification lowers:

| Theorem | At most | What could have kept it going |
|---|---|---|
| `SolveStepsBounded` | `5 * IterLimit + 9` | restarts and recoveries, which reset `inner_count` but not `total_count` (`WithinLimit`) |
| `ExtractionStepsBounded` | `Limit + 28` | phases that hand iterations to each other, and a second continuation from the same budget (`Route`) |
| `LanesStepsBounded` | `(5n + 5)(limit + 1) + n + 1` for `n` lanes | lanes that are passed over, set back and restarted apart, yet share one count (`Lockstep`), and blocks without lanes (`Occupied`) |
| `PlanStepsBounded` | `3n + 6` for a call of `n` members | groups cut by deadline and budget (each takes a member), other calls |

So no run of these specifications is infinite except by stuttering. What the
runs add is that every state before the end has a step (their deadlock check)
and, for `BatchPlan`, that the mutex comes to every caller.

Only model-checked: `Termination`, `GroupTermination`, `CallsReturn` and
`ExtractionReturns` (liveness: `ENABLED` and fairness are out of the prover's
reach; what of them is safety is proved, as the step bounds above). Every other
property of a passing run is stated by a theorem.
The other way round, type correctness, `InformativeMinimum`, `ReplacementGains`,
`IncumbentMeasured`, the refinement of `MemberResults` by `SharedLanes`, and the
resource and ownership bounds `LazyGraphBounded`, `OutputsComplete`,
`PlanOwned`, `WithinBudget` and `JointReserved`, and the parser's tables and
coordinates (`MpsTablesExact`, `MpsCoordinatesHeld`), are proved and need no
run.

## 5. What is not modelled, and the plan

In this order:

1. `RowWork` - a pure algorithm: the row packing of `metal_spmm.h` and how
   threads share a row, against a reference definition.
2. `PresolveFlow` - the statuses the presolver can answer with, and what an
   empty reduced problem returns.

Left out for good: kernel arithmetic, the choice of scaling factors and the power
method (floating point without control state), parameter validation (stateless
range tests, which appear here as assumptions on the constants), conversion of
Python arguments, and build and benchmark tooling. One hazard stays without a
property: `solve_called_`, a flag no lock guards and no promise covers.
