# ShelterSim in TLA+

TLA+ specifications of [ShelterSim](../src/README.md), the TLC runs that check them and TLAPS proofs
about most of its components. ShelterSim predicts the temperature of a passive-solar shelter. A pure engine
(`packages/engine`) computes; two servers, three browser clients, a worker pool, several caches, a
weather pipeline and an optimiser decide which request is computed, by whom, from which inputs, and who
receives the answer. These decisions are what is specified here, together with the parts of the engine
that can be checked exactly: the control of its time loop, its linear solvers and its heat balance.

Line numbers below and in the modules refer to the repository. `PROJECT.json` maps each definition to
its lines and lists runs, mutants, findings, hazards and theorems.

## 1. The system

| Component | State it keeps | Interacts with | What makes it correct |
|---|---|---|---|
| **Worker pool** `apps/web/lib/pool.ts`, `sim.node.worker.mjs` | slots, a FIFO queue, promises, `destroyed` | threads (messages both ways), AbortSignals, the optimiser | every promise settles once with its own answer; nothing waits beside an idle slot; a death costs one task and one replacement |
| **Browser client** `apps/web/lib/workerClient.ts`, `sim.worker.ts` | current id, abort controllers, pending promises, one worker, `online` | the route, a web worker, the store | only the latest run resolves; every promise settles |
| **Route and run cache** `app/api/simulate/route.ts`, `lib/repo/runs.ts`, `lib/db.ts` | the table `SimulationRun`, the engine version of the process | the database, other versions' processes | whatever the cache holds or loses, the answer is that of the running engine |
| **Web form** `lib/store.ts`, `components/inputs`, `components/advanced` | one request, its debounced result, drafts, what the form captured | uploads, the materials route, the engine | the result shown is that of the request shown; a setter changes what it says and nothing else |
| **Share links** `lib/repo/designs.ts`, `ExportPanel.tsx` | snapshots by id | the database | a link opens the design it was given for |
| **Web weather** `app/api/weather/route.ts`, `lib/repo/weather.ts` | a table with two lifetimes | two sources, the database | an answer is of the place, source and days asked for |
| **Offline shell** `public/sw.js` | caches of pages and chunks | the network, deployments | a page is of one build, the live one if it can be reached |
| **Studio server** `apps/studio-server` | users, designs, simulations in MongoDB; a weather cache | MongoDB (an await per call), weather sources, the engine | accounts unique, designs private, concurrent changes do not undo each other, a snapshot matches its result |
| **Studio client** `apps/studio` | the edited design, the page's own ids and labels, a preview, a list, columns | the studio server | what is edited, saved, run, previewed and drawn is what the page says |
| **Classic client and server** `apps/client`, `apps/server` | the wizard, `localStorage` | each other | a design walked through the steps is accepted |
| **Data** `packages/data` | catalogue, presets; the weather pipeline; scenarios | the sources | no value is made up; a day is what it was chosen for |
| **Optimiser** `packages/optimise/src/sweep.ts` | the expansion, a spin-up cache, results | a runner (the pool), an AbortSignal | the expansion is the product in order; a seed fits its mesh; the best is feasible |
| **Engine** `packages/engine` | temperatures, frozen coefficients, spin-up, records | – | each step uses the data of its time; spin-up ends periodic; heat is conserved |

What is hard in it: the pool's main thread learns of a thread's death only by events still on their
way, behind replies already posted; the client awaits three times per run while newer runs supersede
it; processes of two engine versions share one table; every studio handler reads a document, awaits, and
writes it back; the studio page navigates because of a save that has not yet answered; the same wall is
derived by a server, a viewer and a form, each with its own copy of the rules; caches are keyed by less
than what they hold; the sweep reuses a state computed for another variant; the engine freezes
coefficients per hour and writes the same coefficient in three places. `PROJECT.json` lists the lines
under `hazards`.

## 2. The modules

| Module | Models |
|---|---|
| `WorkerPool`, `PoolContract` | `pool.ts` with its threads, and the abstract `Pool` interface (35–45) |
| `RunCache`, `SimulateService` | the route with its table, and the same answers with no cache at all |
| `WorkerClient`, `LatestWins` | `workerClient.ts`, and "only the latest resolves" |
| `SimulateStack` | `WorkerClient` composed with `RunCache` |
| `StudioServer` | every route of accounts, designs, ANSYS runs and simulations |
| `StudioWeather` | `weather/resolve.ts` and `cache.ts` |
| `StudioSession` | `Studio.tsx` with its store, its router and the server behind it |
| `DebouncedRequest` | `useDebouncedRequest.ts`: the live preview and the place search |
| `Dashboard`, `Compare` | the list of designs; designs side by side |
| `RequestOps` | the catalogue and its presets, and the pure setters of `requestOps.ts` over them |
| `Assembly` | a studio design, or a classic one, becomes a request |
| `DesignPanel` | the studio's controls over `Assembly`, and what the viewer derives from a design |
| `WebForm` | the web form: its store, the expert panel, the page |
| `WeatherPipeline` | parsing, gaps, shifting, resampling, validation; the two readers of a logger's file |
| `WebWeather` | `POST /api/weather` and its cache |
| `ShareLinks`, `OfflineShell` | share links; the service worker |
| `ClassicClient` | the wizard with the server it posts to |
| `Sweep` | `expandVariants`, and `runSweep` over it |
| `Integrator` | the loops of `integrate()` and the indices its results are read with |
| `LinearSolver`, `HeatBalance` | the solvers; mesh, coefficients, right-hand side, flows and energy balance |
| `Scenarios` | the days a design is tried on, cut from a record |
| `WorkerPoolProofs`, `StudioServerProofs`, `StudioSessionProofs` | theorems about the module each is named after; the last also about `ClassicClient` |
| `ClientProofs` | theorems about `WorkerClient` and `DesignPanel` |
| `SweepProofs`, `EngineProofs` | theorems about `Sweep` and about `Integrator`; the second uses the lemmas on numbers and folds of the first |
| `BrowserProofs`, `CacheProofs` | theorems about the systems of `MCBrowserPages` (`DebouncedRequest`, `Dashboard`, `Compare`, `WebForm`) and of `MCCaches` (`RunCache`, both weather services, `ShareLinks`, `OfflineShell`) |
| `MC…` | instances for TLC. Four put systems that share nothing into one run: a variable says which of them moves. `SimulateStack.cfg` needs none |

Correspondence:

**WorkerPool.** Node runs a handler to completion, so a handler is one action, with the `pump()` it ends
in as an operator that is part of it. A slot is identified with the thread spawned with it; `slot.busy`
and `slot.task` are assigned together, so busy is `holding[w] # None`. A thread is `up`, told to stop,
dying with an `error` event to come or only an `exit`, or `gone`. Replies posted before a death are still
delivered before `exit`. `runMany` starts all its runs in one turn. A promise's first settlement counts.

**RunCache.** A row is described by the engine version that computed each of its parts. `Release` is a
release or a rollback: new POSTs belong to the new version, earlier ones finish in their own process.
Every query may fail (`withDb`).

**WorkerClient, SimulateStack.** A run goes through `probing`, `fetching`, `local` and `settled`. An error
event may come from any worker ever created. In the composition one fetch is one POST, and the answer's
shape decides whether `resultFromJson` accepts it.

**StudioServer.** A handler is what it does up to its first await (`LoadDesign`, `RegisterUser`, `Login`)
and after each. `Save` is mongoose's `save()`: an update of exactly the paths that changed, which fails
when the document is gone. What a list showed is kept in `handler.shown`, to be compared later. A token is
a user id that was once signed: the server keeps no sessions, so a cookie is good until it expires.

**StudioSession.** The server's copy, the store (which outlives the page), the page's own state (which
dies with it) and the clicks, each with what it captured and where it stands. A save may be lost before or
after it was taken. `calm` says that the person has waited for each answer before the next click.

**RequestOps, DesignPanel, Assembly.** Lengths are in dm (0.1 mm for layers), ratios in
thousandths, areas of round buildings in units of π/72, so that every comparison is exact. Surfaces, windows and
storage elements are sets: each carries an id, no id is used twice, and nothing depends on their order but which
is the first wall of a side (the box has one) and the first window's glazing (all have the same). A number typed
into a field is a draft until it is committed, as in `NumberInput.tsx`.

**WebForm.** The store outlives the page; what the form captured when it was mounted (`fullYear`) does not.
The simulation runs on the page's own thread, so `TimerFires` is one step. An upload keeps the request it
was chosen under, and the form it was chosen on, until its text is read. `Refused` is what `simulate()` throws
for of all a form can ask, in `validateRequest` and after it (`buildModel`, the weather's end), but for numbers
that diverge (`SOLVER_DIVERGED`), which section 7 leaves out.

**WeatherPipeline.** Temperatures are in sixtieths of a kelvin so that gaps of one or two samples and the
lapse of a kilometre come out whole. What the engine derives from other columns is named, not computed.

**Integrator, HeatBalance, LinearSolver.** `Integrator` keeps time in ticks and takes one step's solution
as a constant operator: which weather, which hour's coefficients and which state each step is given is what
it decides. `HeatBalance` is that step. Its numbers are residues modulo a prime: the solvers and balances
compute rational expressions, and an identity between rational expressions that holds of the reals holds of
the residues, whereas a wrong factor shows at once. Rounding is thereby abstracted away, comparisons of
temperatures are choices, and film coefficients, air density and melting are inputs of the hour.

**Scenarios.** A record has four samples a day; means are compared as sums and distances in squared
deviations, so that no division is needed. The elevation of the sun is a table by clock hour.

## 3. The runs

| Run | Instance | What it shows | Distinct states |
|---|---|---|---|
| `worker_pool` | 2 threads and 2 to replace dead ones, a batch of two (one faulty) with a signal, a lone request | no request lost, run twice or left open; every interleaving of answers, deaths, aborts and `destroy()` | 121,767 |
| `worker_client` | a batch of two, two lone runs (one faulty), a worker for each run, with and without Worker support | only the latest resolves, nobody hangs | 88,424 |
| `studio_server` | 3 requests of any kind (interchangeable: a symmetry set), two members, a new address, one saved design | isolation | 109,545 |
| `sweep` | 14 sweeps over 11 variables, empty lists, caps, unknown materials | expansion, seeds, best | 9,731 |
| `integrator` | 168 requests through the loops; 3 houses, an hour of two steps, through the physics; all records of up to 5 days of 6 kinds, in a year of 6 days | which data a step uses, how spin-up ends, heat conserved, scenarios | 25,191 |
| `studio_session` | one saved design, 1 edit, 2 clicks, 2 navigations, lost calls; the wizard with 3 stored designs, 2 changes, 2 runs, a reload | what is edited, saved and run is what the page says | 718,637 |
| `studio_design` | 3 stored designs, any 2 changes of the controls | accepted, buildable, windows as asked, drawn as simulated | 32,026 |
| `browser_pages` | the preview with 4 inputs; the list with 2 designs, 2 clicks and a second tab; the comparison with 4 designs; the form with 2 edits and a walk to the results and back | what is shown is current, only learns and comes to rest | 286,815 |
| `caches` | 4 POSTs of runs (two equal, one rejected, one malformed), 2 versions, 2 hashes; 2 calls for 3 places, 2 POSTs of 6 bodies, both weather caches with a failing database; 7,308 files, each for 3 timesteps; 2 sharers; 3 builds | what is served fits what was asked for; runs are answered as if nothing were cached, one to each | 765,557 |
| `stack_cached_offline` | client and route, two equal runs | *counterexample*: a cache hit answers `{kpis, meta}`, which `resultFromJson` rejects, so the second identical run takes the store offline, against `workerClient.ts` 14–16 and `route.ts` 18–20 | – |
| `web_date` | the form of `browser_pages` | *counterexample*: after a walk to the results page the form has captured one day as its year, and a change of date simulates that day under another date, against `SimpleForm.tsx` 153–157 | – |
| `studio_lost_load` | the page of `studio_session` | *counterexample*: the first load of a design is lost; the store has no design, so "Loading design…" stays for good and the branch with the error and its Retry (`Studio.tsx` 226) is behind it, against `Studio.tsx` 40–42 and `ledger/tasks/F3.md` 102–104 | – |

Deadlock is checked in `caches`: for the stored runs, where a deploy is always possible, and for the weather
services. The other systems do stop when nobody asks anything more, so their configurations switch the
check off; that nothing stops half-way is what their liveness properties say.

**Bounds and why they are enough.**
*Pool*: more requests than slots for a queue to form, a batch with an abort while one of its requests runs
and another waits, two deaths so that a replacement can die as well. `MaxThreads` bounds deaths: a thread
dies only if a fresh one can replace every slot that is dying.
*Client*: one run more than the batch can have current, and a worker for each of the four runs, the most there can
be: an error event comes at any time and again from any worker there ever was, so an old one's error meets its
successor's pending runs. *Cache*: two versions, since a rollback returns to a version whose rows were overwritten.
*Studio server*: a read, another request's read and write, and a third that changes what both saw.
*Session*: one edit and two clicks let a save overlap a run, two navigations leave a design and come back;
a person who clicks three times in one await adds no pair of handlers.
*Design*: a control may undo what another has done (two changes), from each of the three kinds of stored
design (no shape; a box; two round storeys) and with values in, on and off every range.
*Form*: one change before and one after the walk, or two that overlap an upload (opening and closing the expert
panel is no change). A height of 8 dm leaves a wall that a card's window of 4 m² fills, and a draft of −1
an air change below 0: both are requests that the engine refuses.
*Weather*: two lookups overlap; `HistoricalTtl` 2 stands for 90 days and `CurrentTtl` 1 for one, `MaxDays` 3
passes both. The web's bodies differ in height within a cell, in source, in the cell next to it and in days, the
places of the studio in height within a cell and by more than a cell; `MaxAttempts` 2 stands for 5, as `MaxShareAttempts` 2 does in front of 3 ids: an attempt that
fails, and a last one. Payloads have four hours, room for a gap at either end and in the middle.
*Shell*: `CacheVersion` is ⟨1, 1, 2⟩: a deployment with and one without a new cache name, three loads.
*Sweep*: two and three variables make the odometer carry over one and two digits.
*Loops*: a day of four hours of three ticks has timesteps that divide an hour and one that equals it,
samples finer than an hour, two-day and one-and-a-half-day series; the wall's time constant makes spin-up
need several days and its extrapolation. *Physics*: an hour of two steps and a next one, so that frozen
coefficients are used once fresh and once not; walls of one and two layers, a roof, a floor on the ground,
a shared wall, storage of water and of a phase-change material, thermal bridges, a heater at its limit.
The prime is close to the largest whose products fit 32 bits: an identity that fails over the reals holds
by chance for about one input in thirty thousand. *Records*: five days hold two months of two days and one
of one, streaks apart and together, and start at midnight of the year's first day or at 06:00 of its fourth
(so that months wrap around New Year); shorter ones break off within a day. `WinterPercent` is 40, so that
the rank of five days is not the first.

**Fairness and its justification.** `WorkerPool`: a posted event is delivered, `simulate()` terminates,
`terminate()` takes effect, `destroy()` continues after its await. Nothing obliges a caller to abort or
destroy, or a thread to die. `RunCache`: a handler that has begun runs to its response. `WorkerClient`:
probe and fetch end, by their timers if by nothing else; a worker answers. `Sweep`: the runner's promise
settles, which is `EveryTaskSettles` of the pool behind it. `StudioSession`, `ClassicClient`, `Dashboard`,
`Compare`: a call is answered *or lost* and the handler of a settled promise runs; nobody is obliged to
click, and no call to succeed. `DebouncedRequest`: a timer fires and a call settles. In the runs of several
systems each has its fairness while it is the one that moves. Everything else states safety only.

## 4. What the properties say

*Pool.* `NoTaskLost`: an open request is in exactly one place. `WorkConserving`: nothing waits beside an
idle slot. `PoolSizeKept`: the `error` and the `exit` of one death make one replacement. `LiveSlotNeverStale`: the id check at 129 only matters for replaced slots. `AbortedNeverStarts`.
`KeepsContract`: every step is a step of `PoolContract` or invisible. `EveryTaskSettles`.

*Route.* `AnswersAsIfUncached`: the row table implements no table at all (`SimulateService`).
`EveryPostAnswered`.

*Client.* `OnlyLatestResolves` refines `LatestWins`. `EveryRunSettles`.

*Studio server.* `OneAccountPerEmail`: also for logins that race registrations. `SnapshotMatchesResult`: a
stored result is of its own snapshot, and a run that was shown stays as it was shown and was its owner's.
`SavesStayApart`: PUT and ANSYS do not undo each other, and a deleted design does not return.

*Studio client.* `IdsAgree`: address, loaded design and target of the next save are one. `SavedMeansStored`:
to a calm person the label "Saved" is true. `RunsWhatWasShown`. `NeverBusyForGood`: no
button or spinner stays busy whatever is lost, the "Loading design…" of a load included unless that load failed;
what is then to be shown is `FailedLoadOffersRetry`, which the code does not keep. `DoneIsCurrent`: a
preview shown as done is of the input, unless its successor is about to be asked for. `FactsStand`: a list
or column only learns. `PagesSettle`.

*Design.* `RefusedOnlyForSheetOrDate`: of all the controls can make, the schema refuses only a cleared date
and sheet steel at its own thickness. `AssembledIsBuildable`. `WindowsFollowDesign`: the windows of the request are
those asked for, wall by wall, and no others.
`ViewerDrawsWhatIsSimulated`: the browser's copy of the rules agrees with the server's. `ClassicAgrees`: so
do the classic server's, on the designs both can express.

*Form.* `ResultIsCurrent`: once no timer runs, the numbers are of the request, or the page says that the engine
refuses it.

*Classic.* `WalkedRunIsAccepted`: who goes through the steps by Next is never refused.

*Caches.* `AnswersFit`: what either weather service answers is what the source it names said of an asked place less
than the width of a cell away (a measure of its own, not the key), on the web for the days asked for, and from the
table only as long as such days may be kept, judged by the day they were fetched. The correction for height may be
that of the place asked first: the code has no elevation in its keys (section 6). `UploadIsKept` (the two
readers of one file agree wherever both accept it, and what is uploaded is what the engine gets), `LinksStand`.
`CalmLoadIsLive`: what a calm
load shows is the live build, whole; that a page does not mix two builds needs no check, since a chunk's name says
its build.

*Sweep.* `ExpansionIsFaithful`: the expansion against an independent positional formula, and the thickness
of every material the same wherever the insulation sits. `SeedFitsMesh`. `SweepSettles`: it ends, with a
best that is feasible.

*Engine.* `RecordsFollowWeather`: each record in the sample of its own time and with the coefficients of its
own hour, and `tempAt0600PerDay` within half a step of 06:00. `StartIsPeriodic` depends on the instance's
`MCSolve`, a contraction as a building is. `BalanceCloses`: what a node holds at the end is what it began
the report with and what the records store in it. `StepSolvesItsBalance`: step by step so, and the arrow solver, the dense LU and the Thomas
algorithm solve the equations they stand for. `ScenariosAreOfTheRecord`: what is cut for a scenario is, day
by day, what it was chosen for, and is the extreme it is named after.

Each property has a mutant in `PROJECT.json`: a form of one definition with a plausible bug, under which the
same run must find the property violated. Where a module has a `TypeOK`, it holds in the instance above;
those of the pool, the route, the client, the studio server and the studio session are proved, and no run
repeats them.

What `SavedMeansStored` leaves out: after a save whose answer was lost the page shows its error and may show
"Saved" beside it, if the old name is typed back while the server took the new one. The part about the name
therefore asks that the last save did not end in an error.

## 5. What is proved

TLC checks an instance; the theorems hold for every value of the constants that meets the assumptions below.
Each argument is an inductive invariant, checked by TLC on the component's run before it was proved: it holds
at first (`…Starts`, `InitInv`), each action keeps it (a lemma per action), and it implies the property.

| Module | Theorem | Statement | For every |
|---|---|---|---|
| `WorkerPoolProofs` | `TypeCorrect` | `Spec => []TypeOK` | number of threads, requests, calls and crashes |
| | `NothingLost` | `Spec => []NoTaskLost` | |
| | `AlwaysConserving` | `Spec => []WorkConserving` | |
| | `SizeKept` | `Spec => []PoolSizeKept`: `error` and `exit` of one death make one replacement | |
| | `NeverStale` | `Spec => []LiveSlotNeverStale` | |
| | `AbortedStaysOut` | `Spec => AbortedNeverStarts` | |
| | `PoolImplementsContract` | `Spec => KeepsContract`: the refinement of `PoolContract` | |
| `ClientProofs` | `TypeCorrect` | `Spec => []TypeOK` | set of runs and calls, number of workers |
| | `LatestRunWins` | `Spec => OnlyLatestResolves`: the refinement of `LatestWins` | |
| | `OnlySheetAndDateRefused` | `PanelSpec => []RefusedOnlyForSheetOrDate` | stored designs, what is picked, slid and typed, number of changes |
| | `EveryAssemblyIsBuildable` | `PanelSpec => []AssembledIsBuildable` | the same; places, days |
| | `SimulatedWindowsAreAsked` | `PanelSpec => []WindowsFollowDesign` | the same |
| | `StudioAgreesWithClassic` | `PanelSpec => []ClassicAgrees` | the same |
| | `ViewerShowsWhatIsSimulated` | `PanelSpec => []ViewerDrawsWhatIsSimulated` | the same |
| `StudioServerProofs` | `TypeCorrect` | `Spec => []TypeOK` | number of requests, accounts, designs |
| | `AccountsAreUnique` | `Spec => []OneAccountPerEmail` | |
| | `SnapshotsMatch` | `Spec => []SnapshotMatchesResult` | |
| | `SavesDoNotMix` | `Spec => SavesStayApart` | |
| `StudioSessionProofs` | `TypeCorrect` | `Spec => []TypeOK` | saved designs; number of edits, clicks, navigations |
| | `SavesGoToTheAddress` | `Spec => []IdsAgree` | |
| | `SavedIsTrue` | `Spec => []SavedMeansStored` | |
| | `RunsTheDesignShown` | `Spec => []RunsWhatWasShown` | |
| | `WalkedRunsAreAccepted` | `ClassicSpec => []WalkedRunIsAccepted` | stored design; number of changes, runs, reloads, retries |
| `EngineProofs` | `RecordsFollow` | `Spec => []RecordsFollowWeather` | length of hour, day, step and sample; any series, seed and `Solve` |
| | `BalanceAlwaysCloses` | `Spec => []BalanceCloses` | the same, with any nodes; `Solve` gives numbers |
| | `LoopTypes` | `Spec => []TypeOK` | the same |
| `SweepProofs` | `SeedsFit` | `SweepSpec => []SeedFitsMesh` | base request, catalogue, list of variables |
| | `ExpansionFollows` | `SweepSpec => []ExpansionIsFaithful` | the same |
| `BrowserProofs` | `PreviewIsCurrent` | `Spec => []DoneIsCurrent` | number of changes and retries |
| | `FactsKept` | `Spec => FactsStand` | set of designs, number of runs and clicks |
| | `ResultStaysCurrent` | `FormSpec => []ResultIsCurrent` | catalogue, preset, first request that runs |
| `CacheProofs` | `AnswersAlwaysFit` | `Spec => []AnswersFit` | places, bodies, payloads, lifetimes, overlapping calls, failures |
| | `LinksStandForGood` | `LinkSpec => []LinksStand` | number of sharers, clicks, attempts, ids |
| | `CalmLoadsAreLive` | `ShellSpec => []CalmLoadIsLive` | builds, cache versions, chunks, loads |
| | `RunCacheTypes` | `RunSpec => []TypeOK` | number of POSTs, hashes, versions; any failures and releases |
| | `CacheIsInvisible` | `RunSpec => AnswersAsIfUncached`: the refinement of `SimulateService` | |

`ClassicSpec`, `PanelSpec`, `FormSpec`, `LinkSpec`, `ShellSpec`, `RunSpec` and `SweepSpec` are the components' own
specifications; the runs `studio_session`, `browser_pages` and `caches` check the same properties with several
systems side by side. `BalanceAlwaysCloses` and `LoopTypes` have a hypothesis, `SolveGivesStates`: from a
state and numbers, what solves a step makes a state. `RecordsFollow` has none.

**Assumptions.** Each is a named `ASSUME` of the component's module, and TLC evaluates it on the instances.
`PoolAssumption`: a positive size, at most `MaxThreads`; a request has its place in one call.
`ClientAssumption`: there is a worker; a run has its place in one call. `RunCacheAssumption`: every request
has a hash, requests of one hash are solvable or not alike (they are the same request), and "no answer" is
neither an answer nor a version. `StudioAssumption`: stored designs are designs, and new ids are new.
`SessionAssumption`, `PagesAssumption`, `ShareAssumption`: bounds are numbers; a new design's id is none of a
saved one; "none" is not a value. `ClassicAssumption`: a stored switch is a boolean, as the control gives it, and "none" is no answer's code.
`PanelAssumption`: a stored design was accepted (so its preset and its layers' materials are in the catalogue, its
day and storeys numbers), sliders have the schema's ranges (`options.ts` 134–144), what is typed and a day are
numbers, what is picked is in the catalogue, a material has a category of the table.
`InitialRequestRuns`: the form opens on a request that the engine runs.
`IntegratorAssumption`: a day of two hours or more, a timestep of at most an hour that divides the day, at
least one weather sample, a period of a day or more, finitely many nodes, and series, seeds and coefficients that
are numbers. `SweepAssumption`: no material is both insulation and structural; what is asked is a finite list of
finite lists of values of their kind; no candidate for a structural layer is insulation (`constructions.ts` 3–9),
since a later `insulationThickness` would be given to each half of a split candidate; the thicknesses of the base
request are even, which stands for the exact halving of a float. `PlacesAssumption`, `TtlAssumption`:
coordinates and lifetimes are whole numbers. The shell needs none.

**The arguments.**

*Pool.* `IInv == TypeOK /\ Roster /\ Messages /\ Requests /\ Busy(queue, holding, slots)`.
`Requests` is `NoTaskLost` in an inductive form (`Placed`): no repetition in the queue, none between slots,
queue and slots disjoint, all of them pending, every pending request in one of the two. `Messages` makes
`LiveSlotNeverStale` inductive: between a slot and its thread there is nothing, the request it holds, or the
reply to it; otherwise a reply to an earlier task could be in flight when the slot takes the next. `Roster`
makes a replacement's channels empty: numbers not yet used are unborn and have no messages. `pump()` is
treated once (`PumpInv`), and the actions that end in it cite that. `PoolImplementsContract` adds, per action,
that the promises move as the contract's do or stand still.

*Route.* `RunRowsFit`: a row holds the numbers of the version it is stamped with, of a request that can be solved;
without it a hit could answer another version's. `RunHandled`: a handler that writes has solved something. The
mapping takes of each answer only whose numbers it is.

*Client.* `Matches`: a promise stands as its run's stage says; `Posted`: a key in the pending map means a run
on the worker; `Ahead`: a call's later runs have not begun. The queues of old workers need no conjunct: what
they send is ignored unless its key is pending.

*Studio server.* `Backed`: what a handler has read, and what a status already sent has told its client, is in
the database or once was of a design of that owner; `Owned`: no update changes a design's owner, and no
request uses the id of another; `Unique`, `Stored`. Users and simulations only grow, so what is backed stays
so across the other handlers' steps. `SavesDoNotMix` needs the handler's stages only.

*Studio session.* `IdsMatch` and `Targeted` hold whatever is clicked: the page loads and saves to what its
address says, and a handler at its second request knows an id. The label "Saved" is only true of a calm
person, so `CalmInv == calm => Orderly`: at most one handler is under way, it has its own page before it
(`Underway`), and the server has what the page takes it to have (`Synced`), with the gap that a save in
flight opens (`AtSave`, `AtAct`).

*Classic.* `StepsWalked`: to who skips nothing, the steps before the open one hold what their Next asked, all
of them do as long as a run or its results are shown, and what was posted is the design on the page. A change
touches only the open step (`StepsPartition`, `OtherStepsKept`), and what the steps ask is no less than what
the server's schema does (`GateImpliesSchema`).

*Studio controls.* `DesignFits`: each number is in its range, a layer's thickness is in the schema's or is the
sheet's, a dome has one storey. The sliders keep it by their ranges; a field because what it commits is rounded
and clamped, whatever was typed (`SnappedFits`), and the draft stays a number or the mark for none; a material
because its own thickness is the table's or its category's (`OwnThickness`), the sheet's the only one too small.

*Assembly.* `IsRequest` is kept by every step of `assemble()`: ids are unique, surfaces have an area, layers and a
tilt in range, each window hangs on a wall, each side has a wall, and both records supply what is referred to. The
six presets have it because every house has (`HouseIsBox`, `PresetIsBox`), a resized box because its surfaces are
replaced one by one (`Redressed`), the round shapes because their copies have ids of their own and go round all four
sides (`CylinderIsRound`, `DomeIsRound`). A side that had its turn has the windows asked for and no later turn
touches it (`Done`, `QuadrantDone`), so after four turns all are as asked. A window's area is its share of at most
nine tenths of its wall's, hence less (`WindowArea`). For the classic server, `Plain` says in addition that every
wall faces a side exactly, that nothing is stored inside and that all materials are in the package: there both
servers' setters do the same to a request (`SamePlace`, `SameSize`, `SameLayer`, `SameWindows`) and leave it plain.

*Viewer.* `Seen` is what of a request's building the viewer is to match, and each step of `assemble()` keeps or makes
it: every wall of a box faces one of four sides and of a cylinder one of twelve, every band of a dome has one sector
of each, once (`Stands`); the layers of a surface that is drawn are the design's, or the preset's where it has none
(`FromPreset`, then `FromDesign`); the volume is the floor by the height (`Tall`). On the other side the margins leave
room for an opening in the least of facades (`RoomInWalls`, `RoomInBands`), so that a facet is open exactly when its
side has a share. The two are then counted by a bijection, from a surface to the facet of its band that faces the
same way (`FacetsCounted`, `Matching`).

*Browser pages.* `PreviewInv`: once no timer runs, a request that was not aborted is for the input as it is.
`ListInv` and `ColumnsInv`: each list, row and column is asked for at most once at a time, and until the
answer the row or column says so, so an answer never replaces a known fact. The form settles in one step,
and each of its actions either starts the timer or leaves request and result alone.

*Caches.* Studio: rows and calls under way are of their source and cell (`OfPlace`), also a row whose write was
taken while its answer was lost (`StoredFits`). Web: rows are of a body with their key and end when such days may
be revised (`OfKey`, `RowFits`). Equal cells and keys are near places (`SameCell`, `SameKey`). All this rests on lemmas about the pipeline (`ReadKeeps`, `ParseKeeps`, `NormaliseKeeps`,
`DigestKeeps`): a series that comes out is of the payload that went in, lapsed to the height asked for.
Links: rows are never overwritten (`Grows`), and the only POST a mounted panel listens to is that of its last
click, for the design shown then. Shell: in a calm load, what the document loads is the live build.

*Engine.* `LoopInv`: the record of step `s` of day `d` is at place `StepsPerDay * d + s` and was made from
`Environment(d, s)` with coefficients frozen at the first step of its hour (`RecordsFit`); the coefficients
in use are of the hour of the last step (`CoefficientsFit`); the counters agree with the length of the
records, no day begins behind the period, and weather of several days covers it (`Counters`). From there the
property is arithmetic: the sample of a time by division (`NoWrap`), the index of 06:00 within half a step
(`IndexOfSix`, `NearSix`), both from a few lemmas on quotients. Nothing is assumed of `Solve`. For the balance, `HeatInv` (with
`HeatAdds`): node by node, what it held when the report began and what the records store in it add up to what it
holds now. The sum over the records is one of the community modules' folds; `SumSplit` says that it grows by what
a new record adds. The rest of `HeatInv` is the types.

*Sweep.* A key of the spin-up cache determines the number of nodes (`KeySaysNodes`), so a cached state fits
every variant of its key. `ExpandedAsAsked` says what the expansion is; the rest is about the operators.
First, the choices: the lists are wheels that each count in the product of the lengths behind (`SweepIsOdometer`);
the wheels behind one all stand at their last place exactly before it turns (`LastOfBlock`), so a turn counts on by
one (`TurnCounts`), and no two counts below the product show the same (`DigitsDetermine`). Second, the thickness of
each material on each surface: not it alone is followed through the appliers, but every weight of layers that
doubles with the thickness (`Fair`), since an applier changes one such weight into another. Reordering keeps each
of them (`ReorderKeeps`: cut and halves lose nothing), and every other applier makes layers that weigh alike into
layers that weigh alike (`MappedKeeps`), so the choices before and after a new place for the insulation do not
matter (`VariantsAlike`). A lone layer of mass must stay even, or half of it would be no number (`Even`).

*Induction over data.* The induction theorems of the library take an operator as their parameter, which none of
the provers can instantiate. `SweepProofs` and `EngineProofs` therefore go by sets: a nonempty set of numbers has a
least element because a nonempty set of finite sets has a smallest (`LeastOf`), so a set of numbers with 0 and every
successor is all of them (`Induct`), a set of sequences with the empty one and every `Append` is all of them
(`SeqInduct`), and the functions by which the community modules fold exist (`FoldExists`) and run through the
elements in order (`InTheirOrder`, `SumIsAdded`).

**Only model-checked.** Liveness, and with it ENABLED, is outside TLAPS's reach: `EveryTaskSettles`,
`EveryPostAnswered`, `EveryRunSettles`, `NeverBusyForGood`, `PagesSettle`, `SweepSettles`; the composition
`SimulateStack`, whose point is a counterexample. These compare what is folded, summed or eliminated in two ways:
`StepSolvesItsBalance` (an elimination over a prime field), `ScenariosAreOfTheRecord` (the best of all windows of a
record), `UploadIsKept`.
`StartIsPeriodic` is true of a contraction; for other `Solve`
it is not.

## 6. What the code does that its documents do not say

Three disagreements are runs of their own (section 3): the cached run that counts as a failure, the date under which
another day is simulated, and the first load whose failure offers no Retry. The models follow the code in these as well; the ones
without a run were met while reading, and no property claims the contrary.

*Route and client.* `writeRun(…, false)` over a row of an old version stamps it with the new one and keeps
the old `fullResult`, which `readFullRun()` would serve (`runs.ts` 158 against 8–11; no route calls it). The
abort of a superseded fetch is caught as a server failure (`workerClient.ts` 347 against 14–16). A NaN is
`null` in JSON and 0 after `resultFromJson`.

*Studio server.* Of two overlapping ANSYS starts the later replaces the first's time (`designs/service.ts`
90 against 85–86), and a cancel that overlaps a start finds nothing to clear (100). The loser of two
registrations gets 500, not 409 (`API.md` 366). Deleting a design leaves its simulations. A JWT is valid
after logout. The weather key has no elevation (`resolve.ts` 146, `cache.ts` 118); a cached NASA answer
stays although the first source has come back (156–169); `readWeatherCache` fails outside the `try` (157); a
cache write that throws counts as a failure of the source (174); an empty payload is a `TypeError` and hence
500 (`sources.ts` 172, 285). The default south share is 0.032 with a comment that computes 0.0615
(`options.ts` 32–38).

*Studio client.* An edit during a save is overwritten by its answer (`Studio.tsx` 123); "Save design" and
"Save run" on a new design create two (122, 146); a save that answers after a navigation writes the store
under another page; a failed load is not forgotten for `new`. Sheet steel's own thickness and a cleared date
are refused by the schema (`MaterialsSection.tsx` 43, `API.md` 45, 78, 93). The viewer draws every wall at
the south wall's thickness. `NumberInput` commits a rounded value on blur, also after Escape. In `Compare`,
Retry never clears `listError`, and `?ids=a,a` fetches twice. In `Dashboard`, retrying a delete whose answer
was lost is a 404 that leaves the row, and deleting A closes B's confirmation.

*Web app.* A shelter-type card puts its window of 4 m² on a wall that may have been made smaller, and a negative air
change in one cell goes along with the change of another (`AdvancedPanel.tsx` 183–198): both end in the engine's
error. An emptied size field is 0 and drops windows (`requestOps.ts` 319–378); an upload applies to the
request of the moment it was chosen (`CsvUpload.tsx` 29–39); a header-only file is an empty series;
the expert panel commits out-of-range siblings of an array field, keeps stale drafts, and accepts timesteps
that do not divide a day. The web reader of a file accepts up to 60 °C where the pipeline stops at 330 K
(`csv.ts` 22–23, `pipeline.ts` 246). `lib/repo/weather.ts` reads the clock twice around midnight (54–60,
144–145). A share id stays in the store while the design is edited (`ExportPanel.tsx` 22, 127); a lost
answer leaves an orphan row; no row is ever given an expiry. A network lost between a new page and its
chunks leaves a cached page that cannot run; first-visit chunks are not cached, against `sw.js` 44–52.

*Classic.* The stepper reaches Review with invalid fields, and Review checks nothing; what `localStorage`
holds is used unchecked; the client's dates are of 2023, the server's of any year.

*Optimiser and engine.* The window ratio is applied to gross plus window area (`sweep.ts` 187 against
`engine/src/index.ts` 59). `RH[i]` is indexed by a timestep number (`kpis.ts` 63 against `types.ts` 158–163).
The recorded conduction `Q5` lacks the
thermal-bridge factor that the matrix has (`integrator.ts` 749–752, 577); the balance does not use it. `storageRate` is never filled. A NaN residual passes `residual >= 1e-3` in `index.ts` and
`scripts/ci-energy-balance.mjs`. The design winter day is "warmer than the single coldest day"
(`scenarios.ts`) only in records of more than a hundred days, and the "24 h window" is a calendar day;
outside tests and a CI script nothing calls `buildScenarios`.

## 7. Not modelled

* Formulas over reals without state: solar geometry, film coefficients, melting, infiltration, comfort,
  sky temperature, the decomposition of sunlight. The repository's analytic tests cover them; TLC cannot.
* Rendering, charts, text, i18n, units, the materials repository (a table read with a fallback).
* Of the engine's validation, all but what a setter could miss; the JSON round trip; the KPIs' formulas;
  fractional start hours; the coupling with ventilation within a step.
* In the pool, `deliver()` throwing on a result that does not parse (142). In the route, `readFullRun()` and
  the lazy creation of the Prisma client.
* In the sweep, cost and carbon, and what azimuth, glazing, aspect ratio and shutters do to a request.
* In the form, a simulation that diverges (`SOLVER_DIVERGED`), the scenario list, the undo of a preset's texts, and an emptied width (as an emptied length).
* In the classic client, a stored design without its window shares, which crashes the page, and the charts.
* The studio's password hashing, cookies' attributes and the schemas of bodies other than a design's.
* The synthesis of a bundled year of weather (`tmy.ts`), which is data.

## 8. Plan

Written, in this order: the worker pool with its contract and proofs; route, client and their composition;
studio server; sweep; time integration; the studio client (session, preview, list, comparison, controls);
assembly and geometry; the web form; both weather services, the pipeline and the files; share links and
offline shell; heat balance and solvers; the classic pair; scenarios.

Proved, in this order: the pool with its contract; the studio server; the route's cache; the client; the
studio session; sweep seeds; the browser pages; the caches; the time loop; the classic stepper; the balance and the
types of the loop; the expansion of a sweep; the studio's controls; its assembly, and that the classic one agrees.

Next:

1. `Integrator`: that spin-up ends within its cap, and the first part of `StartIsPeriodic` for a `Solve` that
   contracts.
2. `Dashboard`, `Compare`, `StudioWeather`: their types.
3. In the model: the coupling with ventilation, `serialise.ts`, the rest of the sweep's appliers.

## 9. Running it

`tlc -config MCWorkerPool.cfg MCWorkerPool.tla` and so on for each pair in `PROJECT.json`;
`tlapm` on each module `…Proofs.tla` for the proofs (`WorkerPoolProofs`, `ClientProofs`,
`StudioServerProofs`, `StudioSessionProofs`, `BrowserProofs`, `CacheProofs`, `SweepProofs`, `EngineProofs`). The longest run takes three to four minutes on two workers.
