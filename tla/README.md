# TLA+ models of the artifact dependency resolver

The repository is a Go service that registers software artifacts, their semantic versions and
the dependencies between them, and resolves a root artifact to a conflict-free set of versions.
This directory holds TLA+ models of it, the TLC runs that check them, and proofs that TLAPS
checks. Paths such as `resolver/resolver.go:199` are relative to `src/internal/`.

    tlc -config MCResolver.cfg MCResolver      check one run (see "Runs")
    tlapm ResolverProofs.tla                   check the proofs of one module

## 1. The system

| Part | Code | State | Operations |
|---|---|---|---|
| resolver | `resolver/resolver.go`, `diagnostics.go` | per call: assigned, depth, order, fail, trace, the recursion of `search` | `NewIndex`, `Resolve` |
| cycle detection | `resolver/cycle.go` | per call: adjacency lists, colours, path | `DetectCycle` |
| semver, constraint | `semver/`, `constraint/` | none | `Parse`, `Compare`, `Matches` |
| registration | `service/service.go` | tables artifacts, artifact_versions, dependencies, change_records | `CreateArtifact`, `CreateVersion`, `ReplaceDependencies` |
| history | `service/service.go`, `query.go`, `lockfile.go`, `rerun.go` | tables resolutions, resolution_items, lockfiles, lockfile_entries, change_records | `Resolve`, `RerunResolution`, `Rollback`, `CreateLockfile`, `ResolveWithLockfile` |
| queries | `service/query.go`, `readiness.go`, `diff.go`, `health.go` | none of their own | `DependencyGraph`, `CheckReadiness`, `DiffDependencies`, `Dependencies` |
| store | `store/` | one SQLite file behind a pool of one connection | one function per statement or transaction, `LoadGraph`, `NextID`, `migrate` |
| HTTP | `httpapi/`, `errcode/` | none | routes, decoding, the status of an error |
| process | `cmd/server/main.go`, `config/` | the listener | start, shutdown within 5 seconds |

How they interact. net/http runs one goroutine per request. A handler calls one service
operation, which makes a *sequence of store calls*; each store call takes the only connection,
commits and gives it back. So store calls do not overlap, but the calls of two handlers
interleave in any way, and an operation as a whole is not atomic. Transactions exist only inside
`ReplaceDependencies`, `SaveResolution` and `SaveLockfile`; one keeps the connection from its
begin to its commit or rollback. A resolution first reads the whole
catalogue (`LoadGraph`, many calls), then runs in memory, then stores its result and a change
record in two more calls. Nothing is retried, nothing runs in the background, and nothing is ever
deleted except by the replacement of a version's dependencies.

What is hard here:

- the recursion of `search` over state that all its calls share, where a failed branch has to
  leave no trace and the answer must be neither unsound nor incomplete;
- the depth-first searches with early returns (`detectCycle`, `collectGraph`);
- check-then-act sequences of two store calls (names, versions, request references);
- store calls that fail half-way through an operation, whose errors are at places discarded or
  taken for "not found", and crashes between two calls;
- results computed from what was read several calls earlier, while others wrote;
- the parser of constraints, which cuts at the first dash, blank or comma it finds, and the
  bounds of `^` and `~`, a number plus one on a machine integer;
- a migration of many statements without a transaction, run by every process that opens the file;
- one connection for all handlers, and a shutdown that waits for them for a bounded time.

PROJECT.json lists each of these as a hazard at its line, with the properties that cover it.

What makes each part correct: the resolver is sound, complete, prefers higher versions, explains
its failures truthfully and ends; the cycle search answers "cycle" exactly when there is one and
names a real one; registrations are unique under any interleaving, of the PUTs of a version the last one that
committed stands whole, refusals are without effect, successes recorded; copies in the history are faithful to a source that
succeeded, and a verification reports the drift of the resolution it stored. Precedence is a total
preorder, a constraint is parsed as what it says and matches an interval of it; what a reader
returns was true, and misses nothing that was there when it began; only a complete schema is
served, and a request that was accepted ends.

## 2. Modules

| Module | Models | State and actions |
|---|---|---|
| `DepGraph` | vocabulary: reachability and cycles, without recursion so that proofs can use it | |
| `CycleDetect` | `detectCycle` | one action per branch of `dfs`: `BackEdge`, `Descend`, `PassOver`, `Finish`; the recursion is the path |
| `Catalogue` | `Index`, `NewIndex`, what the resolver needs of semver and constraint; selections and solutions | |
| `ResolverSpec` | the promise of `Resolve`: one answer | `Succeed`, `FailMissing`, `FailCycle`, `FailUnsolvable` |
| `Resolver` | `Resolve`, `assign`, `unassign`, `search`, the trace | one action per branch; a call of `search` is a frame of `stack` |
| `Registry` | `CreateArtifact`, `CreateVersion`, `ReplaceDependencies` for several clients | one action per statement; the transaction of a PUT is `Begin`, `DeleteRows`, one `InsertRow` for each input, `Commit` or `Rollback` |
| `History` | `Resolve`, `RerunResolution`, `Rollback`, `CreateLockfile`, `ResolveWithLockfile` for several clients | one action per store call |
| `GraphQuery` | `DependencyGraph`, `collectGraph` | `PassOver`, `Follow`, `Leave`; a call is a frame of `stack` |
| `Semver` | `Compare`, `comparePrerelease`, `cmpInt` on machine integers | operators only |
| `Constraint` | `constraint.Parse`, `parseSub`, the bounds, `Matches` | `TakeRange`, `TakeAtom`, `Reject`, `Finish`: one action per clause |
| `GraphLoad` | `LoadGraph` for `CheckReadiness`, `DiffDependencies`, `Dependencies`, against writers | one action per store call of the reader, `RegisterArtifact`, `RegisterVersion`, `PutDependencies` for the others |
| `Server` | `main`, `Open`, the pragmas, `migrate`, the pool of one connection, `Shutdown` | one action per statement of the migration, per store call of a request, per step of `main`; `Kill` |
| `*Proofs` | theorems about the module they are named after | |
| `MC*` | instances for TLC: catalogues, graphs, requests, texts, seeds | |

How they compose. `ResolverSpec` is the abstract specification that `Resolver` implements
(`Implements`, with the mapping at the end of `Resolver`), and `GraphLoad` runs the resolver by
that specification on the graph it has loaded. `Resolver` uses cycle detection as the predicate
`HasCycle`, which `CycleDetect` shows and `CycleDetectProofs` proves to be what `detectCycle`
decides; `GraphQuery` does so too. `Catalogue` sees a version as a rank and a constraint as a set
of ranks, which `OrderIsTotal` and `AcceptsAnInterval` of `Constraint` justify. `GraphLoad` takes
each write of others as one commit: nobody else has the connection while a transaction is open,
and `LastPutStands` of `Registry` says what is committed. `History` takes the resolver's
answers as a constant, one per catalogue and input. `Server` has the requests of the other modules
as a number of store calls.

### Abstractions

- A version is a *rank*, its place in the order of `Compare`; versions that differ only in build
  metadata share one. A constraint is the set of ranks it matches.
- In `Semver` and `Constraint` a version has its fields. The int of the program is a parameter
  `MaxInt`, so that the wrap and the clamp of `Atoi` happen within small instances. A text is a
  sequence of tokens: operators, dashes, blanks, commas and words, which are identifiers joined by
  dots. Bounds: no identifier has a dash inside; build metadata and a leading `v` are not written
  in constraints.
- In `Resolver` a version is an index into the artifact's list, highest first, and 0 stands for
  "no key in the map". A step of the walk over a dependency that is already met changes nothing
  and is not a step of the model. The trace is a set.
- The Go loops over `order` run over copies (`orderedIDs`); the copy is `snap` of a frame.
- The sorting of an answer by depth and name, wording of reasons, and JSON are left out.
- In `Registry` the statements of a PUT's transaction change the table `deps` in place. What keeps
  that safe is modelled: `Begin` takes the connection, so that all other store calls wait (`Free`,
  the guard of `Works` and `Fails`; a refusal that makes no call does not wait), and `undo` keeps
  the table of the `Begin`, which the deferred rollback and a crash restore. SQLite, which is
  external, is taken to restore it in full, also when COMMIT itself fails. `History` and
  `GraphLoad` take a transaction as one step.
- In `Registry` and `History` a store call whose error the code cannot tell from "no rows" or a
  violated key (`ErrorIf`) covers both. A handler's reads that its answer does not depend on
  (`GetVersion` for root_version_id, the names of locked artifacts in `CreateLockfile`) are
  folded into the call next to them. Ids are places in the table; nothing is deleted, so
  AUTOINCREMENT and MAX(id)+1 agree with that.
- In `History` a lockfile name that a client chooses and the default "lock-" and a request_ref are
  different names. Bound: no client spells out a default name.
- `History` represents the registrations of other clients as steps through a sequence of
  catalogues (`Register`); LoadGraph is one step there, and many in `GraphLoad`.
- `GraphLoad` has one reader against any writers: readers do not disturb each other. Its tables
  are sets, since LoadGraph builds maps. The order in which it reads the versions of an artifact
  is left open. Before a diff or a direct listing the version is looked up by name; versions are
  never deleted, so that the lookups are one step with the check that answers 404.
- In `Server` the rows of schema_version are the set of their values: `LIMIT 1` names no order, so
  any of them may be read. Each statement commits by itself (autocommit, WAL). A statement of
  `migrate` that fails is fatal. The five seconds of `Shutdown` end at any time (`Timeout`).
- Variables marked `history` (answers, wrote, asked, ever, the field `by` of a row) are written and never
  read by the actions; only properties use them.

Definitions whose comment starts with "Mutant" are deliberate bugs. No specification uses them;
PROJECT.json says which definition each can replace and which property then fails.

## 3. Runs

Passing:

| Run | Bounds | What it shows |
|---|---|---|
| `MCCycleDetect` | every family of adjacency lists over 3 nodes, every root, every part outside the index | the search ends, decides cycles, its witness is real and loses no name |
| `MCResolver` | four families of catalogues over up to 4 artifacts with 2 versions (`Triangles`, `Tangles`, `Diamonds`, `Oddities`), any requested rank | bookkeeping, completeness, preference, diagnosis, refinement, termination |
| `MCRegistry` | 2 clients, 3 of 9 requests, PUTs of one and of two inputs, 1 failing statement, 1 crash, from an empty and a filled database | uniqueness, the last committed PUT and no part of another, refusals, records |
| `MCHistory` | 2 clients, 2 requests, 2 failing calls, 1 crash, 3 catalogues, from an empty history, one with a lockfile and one with a rollback | faithful copies, one lockfile per name, drift, records |
| `MCGraphQuery` | 6144 graphs over 4 artifacts, cyclic too, depth absent or 1 to 3 | completeness without a depth, no duplicates, meaning of depth, termination |
| `MCConstraint` | MaxInt 2; every documented form with one or two clauses and three separators, and every text of up to 4 tokens of a small alphabet; all releases and 13 prereleases and builds to match | what is parsed is what was written; a total preorder, and intervals of it; parsing uses up text |
| `MCGraphLoad` | 3 artifacts, 2 versions of each, 2 writes and 1 failing call during a request; four seeds, one artifact unregistered in two of them | what was read was true and nothing is missed; a positive report holds; a diff is one of maps that were there |
| `MCServer` | 2 processes, 3 starts, 2 requests of up to 2 store calls, 2 statements in the migration, 1 failing statement, kills at any time | only a complete schema is served; no request is cut off before the 5 seconds; every accepted request ends |

Why these bounds are enough to be interesting. Three nodes have self-loops, two- and three-cycles,
and diamonds of paths. The resolver's families contain the shapes its search can do wrong on: a
clash found in a branch that began two choices earlier (`Diamonds`), a dependency that both the
root and an intermediate artifact constrain (`Triangles`), cycles through unused versions,
self-dependencies and targets outside the index (`Tangles`), equal ranks, no versions, no
artifact (`Oddities`). The smallest violation of each registry and history property found with a
mutant takes two requests; the third request of `MCRegistry` lets one client rewrite what two
others interleave on. One failing statement or one crash is enough to cut a transaction off at each
of its statements; a PUT of two inputs has a place between its INSERTs. Two failing calls are needed for a rerun whose second record fails after a
discarded error. The history with a rollback has the reference that the next rollback of that
resolution takes, so that a refusal without any twin among the requests happens too. With MaxInt 2 each number of a version can be zero, in between, and the largest;
prerelease numbers go beyond it to 4. Two writes are what it takes for a dependency to point
outside a loaded graph (an artifact, then a PUT), and for both sides of a diff to change. Two
statements, two processes and three starts have every interleaving of a migration that was killed,
one that repeats it and one beside it; two requests of two calls wait for each other's connection
and for their own. Every action and every disjunct of the next-state relations is taken in these
runs.

Violations: each run checks one statement of a document or comment that the code does not keep.

| Run | Statement | What the code does |
|---|---|---|
| `MCRegistryAudit` | a write and its change record commit together (PROJECT_SPEC.md:50) | two transactions (`service.go:41`, `:78`, `:144`) |
| `MCHistoryRollback` | rollback answers 200 or 404 (PROJECT_SPEC.md:45) | the second rollback to one resolution is answered 500 (`query.go:122`) |
| `MCHistoryLock` | a different result is reported as drifted (`lockfile.go:102`) | a resolution that fails is in sync (`lockfile.go:134`) |
| `MCGraphDepth` | the graph has direct and transitive dependencies (PROJECT_SPEC.md:41) | with a depth, some within it are missing (`query.go:83`) |

Met while modelling and kept in the models without a run of their own:

- Registration: of two clients that create the same artifact, the loser can be told 500 instead of
  409 (`service.go:34`). The errors of reads before and after a PUT are discarded (`service.go:122`,
  `:143`).
- Resolution: a cycle among versions that no solution uses fails the request (`resolver.go:94`), as
  the comment there says. A requested version that is not registered falls back to all versions
  (`resolver.go:116`), so the readiness of a version nobody registered can be reported as ready.
  `FailureHasAReason` shows that the messages "no version of root satisfies all constraints" and
  "all candidate versions lead to downstream conflict" can never be an answer.
- History: two requests can read the same MAX(id)+1 for their reference and the second is answered
  500 (`store_impl.go:6`; `RefusalHasATwin` shows that this takes such a twin). NextID's error is
  discarded, which makes the reference `direct-0` (`service.go:279`). A pin that cannot be read is
  dropped (`lockfile.go:116`).
- Constraints: `1.2.3-2.0.0` is a valid version with a prerelease and is parsed as a range, since
  the first dash is taken for that of a range. A prerelease as the lower end of a range is rejected.
  `^1.2.3-rc` does not match 1.2.3-rc, since its lower bound drops the prerelease. Up to two commas
  between clauses are accepted. Next to the largest int the upper bound of `^` and `~` wraps and
  nothing matches (`AtTheTop`).
- Diffs: a read that fails turns into an empty side and an answer 200 (`diff.go:73`); a diff of a
  version with itself can be non-empty under a concurrent PUT; the dependencies of a name that is
  not found are answered 200 and null.
- Store: the pragma for WAL runs before that for busy_timeout (`store.go:93`), so that two
  processes that start at once can fail on the lock instead of waiting for it.

### Fairness

`CycleDetect`, `Resolver` and `GraphQuery` are single calls of loops without blocking operations:
weak fairness of their step says only that a running function goes on. `Registry` and `History`
assume it of each client's handler: the Go scheduler runs every goroutine, and SQLite's busy_timeout
turns a lock into an error, so a store call that has the connection ends. database/sql promises
waiters no order, but a released connection goes to one of them; the requests of a behaviour are
finitely many and each makes finitely many calls, so that a waiter gets it some time. In `History`,
the only one of the two with a liveness property, no step keeps the connection. `Server` does not take that for granted
but has the connection as a variable: it assumes weak fairness of each handler (`Handle`), of a
process that opens the file (`Open`) and of one that stops (`Stop`: the timer fires, main goes on).
A handler's call is disabled while another has the connection; that it gets it in the end is
what `EveryRequestEnds` shows. Nothing is assumed of clients, signals, registrations, faults or
crashes. `Constraint` and `GraphLoad` state safety only; that parsing ends is the action property
`UsesUpText`.

## 4. Proofs

All theorems hold for every value of the constants that satisfies the named assumptions of the
modules:

- `GraphsAssumption`: graphs are functions from nodes to sequences of nodes;
- `CatalogueAssumption`, `ResolverAssumption`: ids and ranks are positive, every given index is one
  `NewIndex` can build;
- `RegistryAssumption`, and `SeedsAssumption` of `History`: seeds are tables the service can have
  written (a source is an earlier row, a copy is faithful, references and names are unique);
- `AnswersAssumption` of `History`: the resolver succeeds, fails without a selection, or knows no
  root, and a root that is registered stays so;
- `GraphQueryAssumption`: finitely many artifacts, no more than 2^20;
- `SeedsAssumption` and `RequestsAssumption` of `GraphLoad`: version ids run from 1 to their number
  and have their artifact and dependencies, a diff is of two versions, a listing of one;
- `ServerAssumption`: the bounds are numbers;
- `SemverAssumption`, `ConstraintAssumption`: the largest int is a number; samples are versions
  without negative numbers, texts are sequences of tokens, and where a text comes with the clauses
  it is meant to say, its tokens are those of the clauses with a separator between two.

TLC evaluates these assumptions in the runs.

`CycleDetectProofs`. The inductive invariant joins `TypeOK` and `PathIsGray` with three facts:
what a call has scanned of its list is gray or black, all coloured nodes are reachable, and
every set of black nodes is free of knots (a knot is a nonempty set in which every node keeps a
successor). The last is what completeness needs: when a node turns black all its successors are
black already, so no knot can contain it. At the end the root is black, every reachable node is
black, and a cycle would be a black knot. `CycleSound` follows from the edges of the path. An
artifact outside the index has no list (`ListsOfKnown`), so that an edge back to a gray node never
leads out of the index, and the names that `detectCycle` looks up are all there. Theorems:
`TypeCorrect`, `GrayIsThePath`, `CycleSound`, `CycleComplete`, `NamesTheCycle`.

`ResolverProofs`. The inductive invariant `IInv` consists of `TypeOK`; `Calls` (shape of the stack
in each phase); `Searching`; `Distinct` and `Listed` (order lists exactly the assigned artifacts,
each once); `Fresh` (what a call may assign is unassigned); and `Sound`, the heart: everything a
call has passed, and after a `true` everything at all, is met by the selection. It is needed
because soundness of the answer rests on the innermost call that finds nothing unmet, and is
carried outwards through the returns only if no caller can change the selection any more.
Three more layers rest on it.

- `Walk` says where each call is: its copy of the order is a prefix of the order, its dependency is
  of a listed artifact on one that is not listed there, its candidate is next in the order. So
  taking back a candidate removes the last artifact and nothing else, and the order goes through
  the artifacts level by level (`Layers`), which makes a depth a distance.
- `Complete` says what is ruled out, of every viable selection: none agrees with what a call lists
  and has a candidate the call has passed (`CallsPassed`), none agrees with all that a failing call
  leaves (`DeadEnd`), none has a root candidate that failed (`RootsPassed`). A call can only fail
  after it has passed all candidates, or at a dependency that the selection breaks; so the
  statement for a caller follows from that for the call it made.
- `Reasons` and `Backed` follow the diagnosis: a call that returns false leaves one, never one of
  the two general ones, and what it says of versions is in the trace.

The safety part of the refinement then is a step lemma: an answer of `Resolver` is one that
`ResolverSpec` allows, by soundness when it succeeds and by completeness when it does not, and
every other step changes nothing there. Theorems: `TypeCorrect`; `FoundSettles`, that after a
`true` nothing is assigned, taken back or refused; `Soundness`, that a request that succeeds has a
legal and consistent selection; `TrailExact`, `DepthsAreDistances`; `NothingSkipped`,
`HighestWins`; `FailuresHaveReasons`, `DiagnosesAreBacked`; `AnswersAsSpecified`.

`RegistryProofs`. Beside the types, the invariant relates each handler to the tables: `Jobs` (a
handler works on an issued and unanswered number, no two on the same one), `Books` (answers,
writes and records belong to issued numbers, and only answered requests are recorded), `Progress`
(what a handler has done, told from where it is: before its write it has written nothing),
`Claims` (two successes for one entity are one, and a handler that has inserted is the only one
that can claim it: the UNIQUE index, carried from the insert over the change record to the answer)
and `Checked` (the inputs a PUT has passed have different targets, which exist; they still do when
its transaction starts, because nothing is deleted). `Transaction` is what `LastPutStands` needs:
without an open transaction the table is what the last committed PUTs asked for; with one, exactly
one handler is inside it, the rows of all other versions are untouched, and what a rollback
restores is what those PUTs asked for. `Progress` adds that between DELETE and COMMIT the rows of
the version are the inputs inserted so far, so that at the COMMIT they are all of them. A record is written in the step that answers,
so that a success and its record cannot come apart. Theorems: `TypeCorrect`, `Uniqueness`,
`Recording`, `Refusal`, `LastPut`, `ChecksHold`.

`HistoryProofs`. The invariant ties each handler, and each answer a client was given, to tables that
only grow. `Jobs` is as in `Registry`. `Rows`, `Locks` and `Log` are what the stored rows say of each
other: a source is an earlier row, whose input a rerun repeats and whose selection a rollback
does, pins are those of a resolution, a record belongs to a row. `Progress` tells from where a handler is what it has done:
what it holds in memory is a row that is still there (`Copying`, `Pinned`), it has stored and
recorded nothing too early (`Storing`, `Recording`), the number of its reference was above all rows
of the start (`NumberIsNew`) and its name was free (`NameWasFree`). The last two are what
`RefusalHasATwin` needs: whatever now has the reference or name was stored since, and by another.
`Told` keeps of an answer what it promised: the rows it is about are never changed, so it stays
true. Theorems: `Inductive`, `TypeCorrect`, `FaithfulCopies`, `OneLockfile`, `RefusedForATwin`,
`SuccessIsRecorded`, `DriftIsReported`.

`GraphQueryProofs`. `Calls` (the frames are visited artifacts, each once), `Listed` (a call has
listed nothing beyond the target where it is), `Called` (every call but the first is that of a
target listed one level above) and `NothingLost` (without a depth, what is not listed of a visited
artifact is ahead of a call that still runs). Completeness then is closure: at the end everything
of every visited artifact is listed, so the visited set is closed under dependencies. Without a
depth the code takes 2^20, so completeness needs the assumption that there are no more artifacts;
the calls, being those of different artifacts, then never reach it. Theorems: `TypeCorrect`,
`NoDuplicates`, `DepthsArePaths`, `Complete`.

`GraphLoadProofs`. What was there at the start and not changed by a PUT is, at each moment of the
load, loaded or still to be read. `Tabled` has the keys of the tables, and that a version of the
start is still there, perhaps with other dependencies. On it rests `Direct`, that a map which was
read is one the version had at a moment of the request; a difference of two maps leads from one to
the other by its definition. For readiness, `Loading` says of every loaded row that its version is
registered, and that the row is that of now unless the version was PUT. The index has one place for
each loaded row, so what the resolver selected in the index is a selection of versions in the
tables of now, and solves them: rows of other versions can only be missing from the index, and the
artifacts and matches of the selected rows are the same. Theorems: `ReadsTrue`, `MissesNothing`,
`DirectReads`, `ReadyIsReady`.

`ServerProofs`. A process at statement n of the migration has executed those before it (`Prefix`),
and tables are never dropped; so the first stamp, and every process past the version check, comes
after the last table. For the requests: a request in progress is with a process that serves,
drains, or has closed after its five seconds (`Attended`), and the connection of a process is held
by the one request that makes a call (`OneConnection`); so a store is closed under a request only
out of time. Theorems: `Migrated`, `Stamped`, `NotCutShort`, `Serialized`.

`ConstraintProofs`. An identifier has a number as its key, alphanumeric ones after all that fit
an int, and prereleases are compared by their keys: one precedes the other at the first place
where the keys differ, or they agree as far as both go. That these exclude each other rests on the
least such place, and transitivity on the lesser of two. `Compare` then is lexicographic. For
`AcceptsAnInterval` the invariant says that what the parser cuts out is a sequence of tokens and
what it keeps are nodes with versions; a version that fails one of them is below its lower end or
above its upper end, and so on one side of all that is accepted. `Ends` compares the lengths of
texts: `Trim` and `SkipComma` lengthen nothing, a range takes more than its dash, and a comparison
takes at least its version. For `GrammarIsUnderstood` the proof has two halves. The meaning of a
clause is compared with its node number by number (`NodeMeansClause`); there `^` and `~` need that
their last kept number is not the largest int. The reading is followed through the text
(`ReadSoFar`): after k clauses the nodes are those of the first k clauses, and the rest is the text
from the place of the next one, where neither a blank nor a comma stands. That a range is never
taken for a comparison, nor a comparison for a range, rests on where the first dash is: behind a
version and a blank in the one, and behind an operator, which is no version, in the other. Theorems:
`Total`, `Convex`, `Ends`, `GrammarUnderstood`.

TLC checked each inductive invariant on the instance of the module's run (but for the conjuncts of
`Registry` and `History` that are not sets TLC can enumerate) before it was proved.

Every invariant and every action property of the passing runs is stated by a theorem. The type
invariants of `CycleDetect`, `Resolver`, `Registry` and `GraphQuery` are proved and not checked by
a run; that of `History` is both.

Only model-checked: what depends on fairness, which is out of the prover's reach (`Terminates` of
three modules, `Answered`, `EveryRequestEnds`, and that the resolver answers at all, which is the
liveness half of `Implements`), and the violations of section 3, which are traces.

## 5. Not modelled

- Routing, JSON decoding and encoding, and the paged read-only lists of `httpapi`: they pass on
  what the modelled operations return. The statuses of the errors of the modelled operations are
  in the models.
- The spelling of names, versions and constraints: which characters an identifier may have, blanks
  inside words. `ValidArtifactName` is a bit of a request.
- `Ping` changes nothing. Configuration reads three environment variables. Scripts and images hold
  no logic.

PROJECT.json lists these with the components they belong to.

## 6. Plan

What is left, in order:

1. The safety argument behind termination, so that only fairness is left to TLC: a measure of the
   search of `Resolver`, of `detectCycle` and of `collectGraph` that every step lowers, as an action
   property like `UsesUpText`.
2. The abstractions that modules make of each other, as theorems where both sides are operators:
   that the ranks `Catalogue` sees are those `Compare` gives (`SameRank`), and that `HasCycle`,
   which `Resolver` asks, is what `CycleDetect` answers on the graph of an index.
3. `Registry` as an implementation of an abstract table of names, with one atomic step for each
   request, so that its uniqueness is a refinement too.
