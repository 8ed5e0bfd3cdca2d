# A TLA+ verification of caddy-config

caddy-config watches the instances of an Incus server and keeps the Caddyfile of
one or more Caddy servers in step with their labels. This directory models the
parts of it that decide what is published and when, checks them with TLC on small
instances, and proves the core of them with TLAPS for any size. All paths below
are relative to the repository, which is under `src/`.

## 1. The system

| Component | State | Operations |
|---|---|---|
| Event chain (`ievent`: source, debounce, enricher, log, http; another repository, assembled in `cmd/caddy-config/chain.go`) | connection, sweep, debounced changes | delivers enriched instance events, `sweep-end`, `disconnected`; drains |
| Event plugin (`caddy/plugin.go`) | `inbox`, `instances`, `chain` | `Handle`, `Run`, `processEvent`, `drainInbox`, `reconcile` |
| Vhost extraction (`caddy/model.go`) | `serviceConfigs`, `vhostMap`, `order` for the length of a call | `extractVhosts`, `addVhost`, `addRedirVhost`, `processStructuredRoute` |
| Label parsing (`caddy/model.go`) | none | tokenizer, `parseEntries` |
| Rendering (`caddy/render.go`) | none | `render` over built-in and custom templates |
| Deployment state (`caddy/deployer.go`) | `lastDeployed`, `cancels`, `done`, `wg` | `reconcileDeployments`, `cancelAll`; the receive of `done` in `Run` |
| Remote deployment (`caddy/deploy.go`) | none between attempts; the staging file and the Caddyfile on a volume or in the instance | `deploy` |
| Volume resolution (`caddy/deploy.go`) | none; the devices of the instance, read anew in every attempt | `resolveVolume`, the paths in `deploy` |
| OS deployment (`caddy/deploy_os.go`) | the staging file and the Caddyfile on the host | `deployOS` |
| Process lifecycle (`cmd/caddy-config/main.go`) | contexts, wait groups, connection | `run`: connect with retries, run source and plugins, stop, drain, cancel |
| Configuration (`cmd/caddy-config/config.go`, `target_flag.go`) | targets and paths, fixed at start | flags, environment, `validate` |

How they interact. The chain calls `Handle`, which never blocks: it puts an event
into a bounded inbox or drops it. One goroutine, `Run`, owns all state of the
plugin: it takes events from the inbox, keeps the routed instances, and reconciles
once the chain is warm. A reconcile extracts the sites of every target, renders,
compares the SHA-256 with the last one deployed and, if it differs, cancels the
deployment before and starts a goroutine with a new one. Deployments share nothing
with `Run` but the channel `done`, a context, and, with each other, the files of
their target. Caddy itself reads the Caddyfile when it starts and when it is
asked to reload.

What is hard here, and what correctness means:

- **Deployments**: nine calls, each of which may fail, time out in an unknown state,
  be cancelled or be cut off by a crash, repeated up to ten times, against an
  instance that starts and stops by itself. *The Caddyfile is always whole; it was
  vetted unless Caddy was down; success means it is published and served; every
  deployment ends.*
- **Overlap**: cancellation is a request. A cancelled deployment goes on with the
  calls that do not look at the context, in the same staging file as its
  successor. *At most one deployment is current; what settles is the last
  rendering.*
- **Tracking**: events are dropped, fail, come from before or after the sweep, rename
  instances. *What is tracked is the fleet as far as its events arrived; nothing is
  reconciled while cold, everything tracked is reconciled once warm.*
- **Extraction**: instances come in the random order of a Go map. *What a site gets
  does not depend on it.*
- **Rendering**: every site has a template of its own. *Which one a site gets does not
  depend on the order either; one that fails keeps the target as it is.*
- **Volumes**: the file is written through one name and read through another. *What is
  deployed is where Caddy reads it.*
- **Configuration**: a list may be separated and quoted in many ways. *The targets are
  those that were asked for.*
- **Shutdown**: signals, failures and the drain's timeout come in any order. *`run`
  returns, nothing is left running, what is on its way is drained.*

## 2. Modules

| Module | Models | |
|---|---|---|
| `Publish` | what a deployment promises | abstract specification |
| `StagedFile` | what both deployments share: two files, open handles, retry loop, jobs | extended by the next two |
| `Deploy` | `deploy` and the Caddy instance | implements `Publish` |
| `DeployOS` | `deployOS` and the local daemon | implements `Publish` |
| `Volumes` | `resolveVolume`, the paths of `deploy`, the mounts of an instance | the rest of an attempt in short |
| `Reconciler` | `reconcileDeployments` for several targets, the goroutines, the receive of `done`, end of `Run` | a deployment is one step |
| `System` | `Reconciler` for one target, with `Deploy` in the place of that step | implements `Reconciler` |
| `Plugin` | `Handle`, inbox, `processEvent`, drain; the chain as its environment | |
| `Lifecycle` | `run` and `assemble` around the plugin | extends `Plugin` |
| `Vhosts` | `Plugin.reconcile`'s slice, `extractVhosts`, `render` | |
| `Labels` | tokenizer, `parseEntries`, `ParseTargets`, `Set`, `validate` | |
| `DeployProofs`, `DeployOSProofs`, `VolumesProofs`, `ReconcilerProofs`, `SystemProofs`, `LifecycleProofs`, `LabelsProofs`, `VhostsProofs` | the theorems about the module of that name; `LifecycleProofs` has those about `Plugin` too | section 4 |
| `MC*` | values of the constants, symmetry, bounds | one `.cfg` per question |

### Correspondence

*Deployments.* A slot `j` of `Jobs` is a goroutine started by `state.wg.Go`; `pc[j]`
is the call it makes next. One attempt of `deploy` is `Begin` (`GetInstance`, which
fixes `running`, and the SFTP session), `CreateStaging`, `WriteStaging`, `Fmt`,
`Validate`, `Swap` (`PosixRename`), `Reload`; a stopped instance goes from the write
to the rename and returns after it. `AttemptFails` is any `return fmt.Errorf` of the
attempt; a write that fails leaves anything of the file; `ReloadUnanswered` is the
reload whose result is not seen. `Wait` is `retry.Do` between attempts: the timer or
the context, whichever `select` takes. Calls that are given the context fail once it
is done, SFTP calls do not. A handle follows the file and not the name, so that a
rename under an open handle gives the handle the Caddyfile.
`DeployOS` differs where the code does: nothing skips validation, a killed `caddy fmt`
may leave the staging file half rewritten, "connection refused" and "no such file"
end the deployment with success.

*Reconciler.* `StartReconcile` is the call, which looks at the targets one by one
(`Turn`); meanwhile the loop receives nothing. A target's rendering is any of
`Renderings[t]` and stands for its hash, or fails (`RenderFails`); `Skip` and `Redeploy`
are the two outcomes of the comparison. `Key` maps a target to its `targetKey`: the
project and the instance, whatever the label, so that two targets may have one.
`cancels` is the set of live jobs whose cancel function is stored: a function whose
goroutine has ended has no effect and is left out. `ReportSuccess` is the `select` at
the end of the goroutine. `Spec` has restarts; `LifeSpec` is one life of the process,
with fairness.

*System* replaces `Reconciler`'s `Settle` by the steps of `Deploy`. `CalmSpec` lets the
fleet change only when nothing is in flight, `BusySpec` at any time.

*Plugin.* `dirty` is what the debounce and enricher plugins hold, a pair of the
name and the old name of a rename; `Deliver` reads the instance as it is by then.
`Change` and `Rename` are the fleet. `ProcessInstance` is the whole of `processEvent`
after the two special actions. The history variables `lost`, `renamedAway`,
`sweepEndLost` are read by properties only.

*Lifecycle.* `main` is the main goroutine's place in `run`. The plugin's loop, `Plugin`'s
`Process`, `Drain`, `HandOver` and `Leave`, runs beside it: `LoopDrains` needs the command,
which may come late, `LoopHandsOver` the channel behind it, `LoopLeaves` the context.
`SourceFails` and `RunnerFails` are the error branches of the goroutines. An error of
the configuration or of the credentials ends in `refused`. The source is made with all
else (`ConnectToIncus` goes to `serving`); that it fails to be made is a refusal too.

*Volumes.* A path is the sequence of its names, a file a place and a path in it. `Seen`
is what the instance finds under a path: the innermost mount. The SFTP side
(`StagingFile`, `TargetFile`) goes by the device that was resolved. `mountPath ==
caddyfilePath` matches and then leads to `/..tmp` and `/.`, which cannot be renamed.

*Labels.* One action for each branch of the tokenizer's loop, at one character. `TakeToken` and
`EndToken` are the outer loop of `parseEntries`, `AddWord`, `AddFlag` and `AddValue` the branches
of the inner one, at one part; `Set` takes the entries of a finished list, `Validate`
ends the configuration. The constant `WrittenList` is how somebody writes what is asked for.

*Vhosts.* `Reconcile` builds the slice in any order, `Collect` handles one instance of the
first pass, `Emit` is one call of `addVhost` or `addRedirVhost` in the second, `Render`
executes the templates. A label is its parsed entries. The second pass calls at `Places`: `<<k, <<r, 0>>>>` is
the `r`-th route of the `k`-th instance, `<<k, <<r, a>>>>` its `a`-th alias; `added` has those
behind the call, and the next is the first of the others. `Routes` are an instance's own, or the
legacy labels as one route, or those of its service.

### Abstractions

- A Caddyfile is a model value; `caddy fmt` keeps it, equal hashes are equal contents.
- A nil connection is left out: `Setup` gives the plugin the one `run` has. So is the end
  of the context while `run` connects, which nothing in the process brings about.
- `fmt` and `validate` executed in an instance are over when their operation is; one
  that outlives a cancelled wait and still rewrites the file is not modelled.
- `Vhosts` leaves out the `{uri}` suffix, flags for custom templates, the order of
  upstreams and blocks in the text, and absolute names of template files; a template is a text that works, is blank, or fails.
- `Labels` leaves out escaped quotes; a word is one character.
- `Volumes` fixes the devices while the program runs.
- `Plugin`'s chain is the weakest environment the plugin's code is written for. It
  reports an instance that has lost its labels as one without a route; whether the
  enricher does so, behind the filter `servesInstance`, is not in this repository.

## 3. Runs

Passing runs, and what they show:

| Run | Bounds | Shows |
|---|---|---|
| `deploy` | 2 slots, renderings `a`, `b`, `bad`, 2 attempts | the Caddyfile is whole and vetted unless staged cold; success is published and served; `Publish` is implemented; deployments end |
| `deploy_os` | the same | the same for `deployOS`, and nothing is staged unvetted; success is loaded unless a starting daemon was taken for none |
| `reconciler` | 2 targets with 2 renderings and 1, 3 slots, `done` of 1 | the stored cancel function is that of the current rendering; targets leave each other alone; results are recorded; shutdown ends, also with `done` full and nobody reading |
| `system_calm` | 1 slot, 3 renderings, 2 attempts | a change arrives, what is quiet is published, the composition implements `Reconciler` |
| `plugin` | 2 instances, inbox of 2, renames, failing reads, a sweep that does not report vanished names | tracked instances are the fleet; warm gating |
| `lifecycle` | 1 instance, inbox of 2, 1 other plugin, exclusions allowed and not | `run` returns after a signal and after a failure; what is on its way gets into the last reconcile; a change is reconciled; a drain ends |
| `volumes` | 2 devices on any of 5 paths | the file is where Caddy reads it at any depth of the mount; what Caddy reads is vetted, also with nested mounts |
| `labels` | 3 targets of 9 kinds, 4 separators, 3 ways to quote, in 1 to 3 lists | documented targets arrive as asked; those with the project first are refused, not mispaired |
| `vhosts` | up to 3 instances, 16 labels, every order, 4 templates | upstreams, redirects, templates and failure do not depend on the order |

The bounds are the smallest at which the interesting cases exist: two attempts give
a last and a not last one; two slots give an old and a new deployment; three
renderings a current, a former and a refused one; a channel or an inbox of one or
two is full and is not; two targets and three goroutines give a replaced deployment
beside one of another target; three instances give two replicas and a stranger; two
devices can be nested, or leave one to be chosen; a third target is behind one that has
begun behind another. `MaxAttempts`
is 10, `DoneCap` 32 and `InboxCap` 256 in the code. `MCPlugin`'s `Bound` stops the run
where the loop ends (nothing changes any more) and at two changes and events on
their way (a failing read stands for one more that finds the inbox full);
`lifecycle`, which has the liveness, is without it.

The other runs check one sentence of the documents or tests each, and TLC refutes it:

| Run | What the code does instead |
|---|---|
| `system_overlap` | the shared staging file: one deployment renames what the other has just truncated |
| `system_skip` | A, B, A: the way back is skipped while B's deployment is alive; it ends later and B stays |
| `plugin_rename` | a routed instance stopped and renamed at once stays routed |

`system_skip` has two slots, so that a rendering can be looked at while a deployment is
alive, and the constraint `SkipsInFlight` (`MCSystem`) leaves the other two ways to a lost
change out of it: no two deployments overlap, and no result lies unread in `done` when a
rendering is looked at. What is skipped in its trace is skipped because line 69 of
`deployer.go` comes before the cancellation of what is in flight.

What the passing properties excuse on purpose, because the code does not guarantee it:

- a file staged for a stopped instance is not vetted (`coldStaged`), and an instance
  that boots between `GetInstance` and the rename keeps the old one
  (`sawRunning` in `SuccessIsServed`);
- the staging file stays after `fmt` or `validate` failed;
- the result of an older deployment removes the cancel function of a newer one, so
  `CancellableIsCurrent` speaks of the stored function only;
- a deployment that failed, also behind its rename, is not repeated (`lastFailed`);
- a daemon that has read its file but does not listen yet is taken for one that is down,
  and keeps the old file (`passedOver` in `SuccessIsLoaded`);
- with nested mounts a deployment may put its file below another mount, and succeed
  (`Plain` in `SuccessReaches`);
- a cancelled deployment that succeeded may report behind its replacement, and the
  record then has the older hash (`RecordFollows` says that the record gets there, not
  that it stays);
- of two targets with one key the one cancels the other (`Isolated` is about keys);
- a replica with only a service tag is filtered out before extraction
  (`UpstreamsMerged` is about what passes `hasTargetLabels`);
- a path without a label that follows a labelled one in a list takes its place
  (`PathLost` in `ListsSurvive`), and a list that mixes `instance` first with `project`
  first may be mispaired (`NoneMispaired` is about one order);
- a local deployment starts when no other is alive (`Start` of `DeployOS`), while
  `deployer.go:124` cancels the one before and starts at once. For remote targets
  `system_overlap` shows what that leads to; there is no such run for local ones. Their key
  has the label in it, so that two labels on one path write one file and one staging file
  with no cancellation at all: two such targets are not in the model;
- an event that was dropped or failed is forgotten (`lost`);
- the order of sites in the text, unlike the sites, depends on the order of a map, and
  an upstream takes the place of an earlier redirect of its domain.

`OnlyVettedReplaces` and `QuietIsPublished` hold in calm runs and are refuted in busy
ones: overlap is what breaks them.

### Fairness

A deployment's steps and its return are weakly fair: the Go scheduler runs goroutines
that can run, and every call returns, with a result or an error. (A command that
hangs has no deadline but its context; see the hazards.) The send to `done` needs no more
in `Reconciler`, where the loop reads it or the context ends; in `System` it is strongly
fair, because senders that wait for a channel are served in turn. The loop's receive
is weakly fair, because `select` picks among ready cases at random, and for the same
reason the case of a done context is taken at last although others are ready again and
again: strong fairness of `ExitRun`, once the context is done. `main` cancels the context
after the loop has returned. In `Lifecycle` the chain delivers what it holds, the sweep
goes on and ends, the loop processes, what is cancelled ends, the drain's time is up at
last. No fairness is given to the fleet, the instance, signals, failures,
disconnection or crashes. Symmetry is used by runs without liveness only.

## 4. Proofs

Every theorem holds for any number of goroutines, instances, targets, devices, renderings,
labels and attempts (`System` has one target). The named assumptions of the constants are all that is assumed:
`FileAssumption` (the sentinels are no renderings, at least one attempt),
`ReconcilerAssumption` (what can be rendered for a target is a rendering, a channel with
room), `SystemAssumption` (a target, a channel with room), `PluginAssumption`,
`LifecycleAssumption` (types), `VhostsAssumption` (the instances are finitely many, a
template file that is not there fails), `LabelsAssumption` (a written list is a sequence of
characters), and `VolumesAssumption`: paths are sequences of names, the
Caddyfile has a directory and is not itself called what its staging file is called.
The fairness conditions of the specifications play no part.

Each safety theorem rests on an inductive invariant, since no property here is
inductive as it stands. TLC has checked each of them on the instance of its run first.

`DeployProofs`: `OnlyVettedReplaces` and `SuccessIsServed` say nothing about the staging
file, which a rename makes the Caddyfile, so they are not inductive. `Inductive` adds
`Counted` (who waits has an attempt left, without which the counter leaves its type),
`Serial` (one deployment at a time, which `Deploy`'s `Next` gives) and `Owned(j)`: what job
`j` has brought about at each of its stages, from the truncated file to the served
one. `OwnStep` proves that a step of `j` keeps `Owned(j)`, action by action; `StepOfOne` and
`OthersIdle` that nobody else has anything to keep. From `InductiveCorrect`, which the run
`deploy` checks as well, follow `VettedCorrect`, `SuccessCorrect` and, with `PublishStep`
(every step is one of `Publish` or a stutter), `PublishCorrect`.

`DeployOSProofs` goes the same way. `Owned(j)` has the verdict on every rendering, because
nothing skips validation here, and follows the daemon through its boot: when a deployment
is over, a daemon that is not down has loaded its file or was `passedOver`. `DaemonStep` is the daemon's part of that.

`VolumesProofs` first settles paths: `Deepest` (among the mounts over a path there is an
innermost one, by the well-foundedness of the naturals), `SeenOnInnermost`,
`StagingApart` (the staging file and the Caddyfile are different files wherever devices are
mounted), `PlainTarget` (where mounts are not nested, the file the rename makes is the one Caddy reads).
The step that matters is `StagedIsVetted`: a rename on the resolved volume changes what
Caddy reads only by what was vetted under the staging path, also when that volume is
not the innermost one. `Inductive` has the volume of the attempt (`Chosen`), the staged
file (`Staged`), the verdict (`Vetted`), `NoneOverMount` (a volume that is mounted on the
Caddyfile itself takes no rename) and `Published`.

`ReconcilerProofs`, for any targets, keys and goroutines: `TypeCorrect`;
`CancellableCorrect` by the invariant itself with the type: whoever changes a `rendering`
either replaces the cancel functions of its key or has found the hash of `lastDeployed`;
whoever changes `lastDeployed` removes those of its key; `IsolatedCorrect`, the action
property, from the type and the same case analysis.

`LifecycleProofs` begins with `Plugin` by itself, for any instances, routes and capacity of the inbox: `TypeCorrect`;
`WarmCorrect`, that `WarmIsReconciled` holds, which needs `WarmBehindSweep`: ahead of a warm event in
the inbox, whatever is cold (an event, or the loop) is followed by the end of a sweep, so
that the loop never gets warm by an event without having reconciled;
`TrackedCorrect`, which needs `Arriving`: of a name that nothing is on its way of, the last event in the
inbox has what the instance is now, and `RenamedIsGone`, that the old name of a rename on
its way is still free. The lemmas go by what happens to the inbox (`WarmAppend`, `WarmTake`,
`RightAppend`, `RightTake`), the steps by action. `ReconciledCorrect` puts the two together:
what was rendered last is the fleet, as far as it has arrived. `ColdCorrect` is the warm
gating, an action property: a case analysis of what may reconcile.

`VhostsProofs`, for any labels on any instances in any order: the properties compare the
result with `Asked`, a set of entries, in which no order is left; on the way there the
invariant does the same with what has been gone through so far. `ConfigInv`: what is
collected for a service is, of each kind of thing, one that a collected replica has said, or
nothing if none has (`CollectedFits`). `VhostsInv`: the vhost of every domain fits the entries
added (`VhostsFit`): it has exactly their upstreams, one of their templates, and, unless they
disagree, the redirect they ask for; and `OrderedOnce` that the order has every domain once,
which is the type. `AddFits` is the step that matters: `addVhost` and `addRedirVhost` keep this whatever came before, an alias ahead
of the route it must yield to (`RouteRedirect`) or behind it (`AliasRedirect`). That a set of entries agrees as a whole
is not known on the way, but it is hereditary: what agrees with one more agreed without it
(`AgreedBefore`). At the end, where the replicas of each service agree, what was collected
is what is shared (`CollectedIsShared`) and what was added is what is asked for
(`AddedIsAsked`). `VhostsTypeCorrect`, `EveryUpstreamMerged`, `AliasesAlwaysYield` and
`TemplatesAlwaysApply` read it off.

`LabelsProofs`, for any lists and any way to write them: `LabelsTypeCorrect`. The position the
scanner jumps to behind a quoted token is found by looking ahead up to three times
(`SolidAhead`: there is a next character that is no space, or the end; by the well-foundedness of the
naturals); `CloseQuoteScan` shows that none of them leaves the list, so nothing is read beyond
it. `ScanOK` has that tokens are not empty and of the list's characters, `ParseOK` that only entries
are added that have begun (`NextBegun`), so that the "empty target" error of
`parseTargetEntry` is never met.

`SystemProofs`: `SystemTypeCorrect` needs `Deploying`, that a live job has a target and a
rendering. `ReconcileCorrect` is the refinement: a job that is anywhere in an attempt or
between two is seen as deploying (`Seen`), so that `WorkRefines` maps every step of `Deploy` to a
stutter or to `Settle`, and each step of the loop to its own (`TurnRefines`, `LoopRefines`,
`ReportRefines`). It holds of `BusySpec` as of `CalmSpec`: overlap breaks files, not the loop.
`QuietCorrect` and `CalmVettedCorrect` are about `CalmSpec`. `CalmInductive` has `Deploy`'s `Inductive`
(the steps of goroutines are steps of `Deploy`'s `Next`, `DeployStep`; a turn of the loop
keeps it because nothing else is alive, `InTurn`) and `Current`, which says where
the last rendering is: a live job has it, uncancelled, and the channel is empty; or the channel holds
it alone and it is the Caddyfile; or the record has it and the record is the Caddyfile,
unless a deployment failed.

`LifecycleProofs` goes on with `run`: `ImplementsPlugin`, that every step of it is one of `Plugin` or a stutter,
lends it the plugin's invariants. `DrainCorrect` adds to them `Stages` (what `main` has
brought about at each point), `StoppedIsStill` and `DrainedInOrder`: the drain command is behind
everything that was on its way, and a loop that leaves by it has emptied the inbox.
`DrainedIsRight` then reads off `ReturnsDrained`: with nothing dirty and nothing in the
inbox, what `Arriving` says of arrived events is said of all.

Only model-checked:

- liveness (`Terminates`, `ChangeArrives`, `RecordFollows`, `ShutdownEnds`, `RunReturns` and the
  like): fairness and `ENABLED` are outside the prover's reach;
- `ListsSurvive` and `NoneMispaired` of `Labels`: they say what the parser makes of lists
  written in certain ways, which is an induction over the asked targets, their text and
  `splitPartsQuoteAware` (a fold); with the step as a parameter, the provers cannot instantiate it.
  `Labels`' type and all of `Vhosts` are free of that, because there the inductions are
  over steps: the scanner takes a character at one, the parser a part, the second pass of
  `extractVhosts` an entry;
- what overlap does break, as the runs `system_overlap` and `system_skip` show, is
  proved for calm fleets only.

## 5. Not modelled

What templates write (text, covered by table tests); flags of the configuration that are
plain values; logging; and the libraries behind `ievent`, `iclient`, `sftp` and `cli`, except
for what their callers rely on. What the enricher does with an instance that
`servesInstance` refuses decides whether an instance that loses its labels is untracked:
it is not in this repository.

## 6. Plan

Done: the core first (deployments and their promise), then what starts them, what
feeds it, what surrounds it, and the ways in: labels, templates, volumes,
configuration. A dozen runs is kept as the most a change to the code should have to
wait for. Left:

- `Plugin` over `Reconciler`: what is tracked is what is published, end to end, with
  `Vhosts`' rendering as its function. The two state spaces multiply; it needs an
  abstraction of each.
