# A TLA+ model of the prototyping pipeline

This directory models the control of the SysML v2 prototyping pipeline
(`src/src/prototyping`, `src/src/agents`, `src/src/llm`, `src/src/dse`,
`src/src/simulation`) and of the runs that publish its results (`src/examples`):
the blackboard, the task sessions, the controller, the agents' handoffs, the
assume/guarantee (A/G) repair fixpoint, the refinement loop, functional closure
and plan revision, the provider calls, the design search, the behavioural
simulation and the artifact store.  Modules are checked with TLC; what is proved
for every value of the constants is proved with TLAPS.  `PROJECT.json` maps every
definition to the lines it was translated from, and lists runs, mutants, findings,
hazards and theorems.

## 1. The system

Text requirements go in, a verified SysML model comes out.  An LLM writes the
model; deterministic code around it decides what is accepted.  One `generate`
and one `explore` call share a `Blackboard`; an authoritative run makes both
calls, runs evidence processes on the result and publishes a directory.

    run_realization_report (lock, staging, children, publish)        RunBundle
      └─ Orchestrator.generate / explore (phases)                Collaboration
           ├─ BlackboardController (sources wait for topics)        Controller
           ├─ design, planning, verification handoffs            Collaboration
           │    └─ TaskSession: transcript, budget, base           TaskSession
           ├─ refine, revise the plan, close, audit              ClosurePhases
           │    └─ iteration loop, candidate transaction            Refinement
           │         └─ behavioural simulation of a candidate        Scenarios
           ├─ design space exploration (explore)                  DesignSearch
           ├─ A/G assurance: analyse, attempt, commit, repeat         AGRepair
           │    └─ Blackboard: revisions, records, tasks            Blackboard
           └─ every LLM call: retries, deadlines, ledger, archive     LLMCalls

### 1.1 Inventory

The components in bold are modelled, wholly or in the part named under operations.

| component | state | operations | what is hard | what makes it correct |
|---|---|---|---|---|
| **Blackboard** `prototyping/blackboard.py` | model revisions, event log, tasks, protected requirement blocks, stale-access counters | `publish`, `publish_typed`, `create_task`, `transition_task`, `commit_model` | several agents with different bases; a refused commit must leave no trace but its count; requirement text must survive any sequence of commits | a definition of any revision keeps its body in later ones; published sources are honoured; the log replays to the state |
| **Task sessions** `prototyping/task_session.py` | per session: task, role, base, budget, status, messages; task-to-role map | `open`, `append`, `assert_current`, `close`, `rebase`, `stale_after_commit` | a commit leaves other sessions on an old base; the budget ends in the middle of an exchange; rebasing continues one task in a new session | one writer per task; closed sessions stay closed; no OPEN session on an old base after an announced commit |
| **Controller** `prototyping/controller.py` | registered sources, activated set, activation log | `register`, `agenda`, `activatable`, `run` | a commit hides revision-bound topics while a pass runs; sources raise or leave declared outputs out | ends at a fixpoint; COMPLETED sources left their outputs; unbound facts survive commits |
| **A/G repair** `agents/ag_assurance_source.py`, `prototyping/ag_repair.py` | round, groups, candidate queue, attempt count, reports, decisions | analyse, route, open attempt, gate, commit, retry, supersede, defer | an accepted repair makes the rest of the round stale; one budget over all rounds; a retry is inserted while the queue is consumed; errors inside error handlers | ends; every task gets exactly one disposition; no commit on a stale base; artifacts describe the last model |
| **Handoffs** `agents/collaboration.py`, `generation_pipeline.py`, `exploration.py` | design/planning/verification handoffs, the carried model text, facts on the board | open board, prepare, archive call, finalize, reject, commit, verify, assure, build artifacts | the pipeline carries a text beside the committed one; observer errors are collected, not raised; facts are looked up by revision | what is returned is what is committed; accepted work has a complete transcript; facts describe the current model |
| **Artifact store and authoritative run** `prototyping/artifact_store.py`, `examples/run_realization_report.py` and its children | lock, bundle states, `latest`, child processes | acquire, stage, assign id, launch children, seal, publish, fail, unlock | kills and timeouts at any line; orphans that outlive their run; tools that write without the lock | what `latest` names is complete; reuse agrees with the impact analysis; the lock is given back |
| **Refinement loop, candidate transaction** `agents/refinement.py`, `refinement_transaction.py` | current and best model (objects, perhaps the same), scores, iteration, persistent issues, simulation | prepare, evaluate, rank, exit passes, forced fix, simulation repair, propose, accept or refuse | models are rewritten in place; every gate speaks of a text that a later step may replace; loops inside loops | the loop ends; no ranked model beats the best key; a refused candidate changes nothing; an exit's simulation is of the text it returns |
| **Functional closure and plan revision** `agents/refinement.py`, `generation_pipeline.py`, `plan_revision.py` | typestate of the facade, frozen plan, revision attempts, closure record | refine, revise, project parameters, SITL-L1 pass, close, terminal phases, verify, snapshot | repairs judged against one another; a plan adopted after a blocked verdict starts refinement again; phases rewrite a model that was closed | closure record true of the model; score drift bounded; what is published is closed; each call ends |
| **LLM interface** `llm/interface.py` | attempt, ladder, worker process and pipe, ledger, observers, conversation turns | `complete` per provider, retry, token refresh, deadline, escalate, conversation, archive | an answer races its deadline; a worker hangs or ignores its signal; a turn is archived twice or never | one request at a time; nothing overdue is replayed; ledger balances; transcript is what was sent |
| **Design space exploration** `dse/`, `agents/exploration.py` | search tree, scores, archive, coverage, spans of variation points | declare, iterate, cover, gates, recommend, resolve, fall back to the catalogue | an archive updated rollout by rollout; constraints judged after the search; offsets into a text that changes | the archive is the Pareto front of the rollouts; the recommendation is feasible and best among the feasible |
| **Behavioural simulation** `simulation/state_executor.py`, `behavioral_sim.py` | machine state, log of transitions, steps to drive | step, nominal, emergency, monitor and cross-component scenarios | which transition a command fires depends on order and guards; navigation may use the command under test; verdicts are read from logs | the paths driven are the right ones; a verdict is about the behaviour it names |
| Generation plan `prototyping/generation_plan.py`, `plan_patch.py`, `agents/typed_plan_generation.py` | a plan as data | validate, freeze, apply, patch | its content | tested as functions; a plan is what it says of a text (`PlanFacts`) |
| Model fixers, parser, contracts, verification matrix, context builder, realisation closure, SITL bridge, Gazebo scripts, retrieval, experiments | mostly none (functions of texts) | transform, report | wording and numeric detail | tested as functions; outside this model |

The components interact through calls and through the board.  Agents read the
current revision, work on it for as long as an LLM call takes, and commit against
the revision they started from; the board refuses a commit whose base is no
longer current.  Sessions are told of a commit by `stale_after_commit`, which
the caller of `commit_model` has to call.  Completed LLM calls reach sessions
through an observer, whose failures are collected.  The controller is the only
place that decides order; everything else is a straight-line caller.  Between runs
only the file system is shared: bundles, the `latest` link and the lock.

### 1.2 Concurrency, in fact

`generate`/`explore` are one thread.  What interleaves on the board is work
with *different bases*: a task created on one revision is finished on another.
`Blackboard` and `TaskSession` are nevertheless modelled under any order of
calls, since they are written to be used by several agents; `AGRepair`,
`Collaboration` and `Controller` are the callers the code has today.  Real
processes run concurrently in `RunBundle` (runs, their children and a tool) and
in `LLMCalls` (the caller and the worker of a Vertex request).  In the refinement
loop the difficulty is not interleaving but aliasing and staleness: two names of
one mutable model, and verdicts kept beside a text that has moved on.

## 2. Modules

| module | models | EXTENDS / INSTANCE |
|---|---|---|
| `Blackboard` | the board's methods, as operators on a board value | |
| `BlackboardCalls` | the board under any caller; properties | `Blackboard`, `RevisionLog` by `INSTANCE ... WITH` |
| `RevisionLog` | abstract specification: a log of texts that grows by indivisible edits, each made from the last text and keeping its requirement blocks | |
| `TaskSession` | the methods of a session and of the registry, as operators | |
| `TaskSessionCalls` | sessions under any caller; properties | `TaskSession` |
| `WorkspaceProofs` | theorems about the board, the sessions and the controller | `BlackboardCalls`, `TaskSessionCalls`, `Controller`, `TLAPS` |
| `Controller` | `BlackboardController.run` over sources with given effects | `Blackboard` |
| `AGRepair` | the repair fixpoint | `Blackboard`, `TaskSession` |
| `AGRepairProofs` | theorems about `AGRepair` | `AGRepair`, `TLAPS` |
| `Collaboration` | handoffs and phases of one `generate` and one `explore` | `Blackboard`, `TaskSession` |
| `CollaborationProofs` | theorems about `Collaboration` | `Collaboration`, `TLAPS` |
| `RunBundle` | authoritative runs, their children, a matrix tool, the store | |
| `RunBundleProofs` | theorems about `RunBundle` | `RunBundle`, `TLAPS` |
| `Refinement` | `_iterative_refinement` with its transaction, repair loop and exit passes | |
| `RefinementProofs` | theorems about `Refinement` | `Refinement`, `TLAPS` |
| `ClosurePhases` | from the initial design to the published revision, around `refine` | |
| `ClosureProofs` | theorems about `ClosurePhases` | `ClosurePhases`, `TLAPS` |
| `LLMCalls` | provider calls, their workers, conversations and the archive | |
| `LLMCallsProofs` | theorems about `LLMCalls` | `LLMCalls`, `TLAPS` |
| `DesignSearch` | tree search, archive, constraint pipeline, recommendation | |
| `DesignSearchProofs` | theorems about `DesignSearch` | `DesignSearch`, `TLAPS` |
| `Scenarios` | the state-machine executor and the scenarios it is driven with | |
| `MC*` | the constants of the checked instances | |

Methods are operators on values so that one translation of a method serves all
its callers: `Commit` in `Blackboard` is the commit of the board's own
specification, of a repair in `AGRepair` and of the terminal commit in
`Collaboration`.  The texts and the variable `board` are declared in `Blackboard`,
since every module that uses the methods keeps one board of the same texts.

### 2.1 How state corresponds to the code

- **Texts.** A model text is a value; `Identities[text]` gives the requirement
  definitions the extractor finds in it (name to block) and `DocOf[block]` the
  source text a block quotes.  A text stands for its own digest: two texts with
  the same digest are the same text.
- **Board.** `revisions`, `records`, `tasks` and `protected` are the lists and
  dictionaries of `Blackboard`; `permitted` and `rejected` are `stale_access`.  A
  record keeps type, topic, requirement payload, base, task and status.
  An operation that raises is either disabled or, where it leaves something
  behind (a refused commit counts its refusal first), its own outcome.  A commit
  quotes a revision and a digest that were current at some time, not necessarily the
  same; `madeFrom` is history, the bases that successful commits quoted.
- **Sessions.** `base` is revision and digest; `from` is the session a rebased
  one continues; `roles` is `_task_roles`.  Message bodies are token counts.  A
  STALE session may be rebased more than once, one rebased session after the other.
  Timestamps and record ids of a closed session are left out.
- **Controller.** A source is what it needs, what it declares and the sequences
  of publications and commits it may make.  The source that runs (`running`) takes
  its steps one at a time (`todo`), so that the controller acts on a board that has
  moved on under it; an exception cuts a sequence short anywhere.  The same action
  prepares the board before the run (`Seeds`).
- **A/G repair.** A text is, for each chain, the set of diagnostic codes its
  analysis reports.  Router, queue order, retry, budget, gate and session are as in
  the code, and a step is one turn of one of its loops: one chain
  analysed, one failure dispatched (`seen` is the last one of the running report), one
  candidate queued, attempted, DEFERRED or SUPERSEDED.  Three exits cut the loop short:
  the context of an attempt cannot be built (`ContextFails`: the task is ACTIVE and has
  no session yet), the routed chain is not found once in the merged text (`GateRaises`:
  the task is ACTIVE, its session OPEN), the session expires (`SessionExpires`).  Texts
  keep their chains and every chain names its requirement; a merge that loses a chain
  other than the routed one, or a failure that names no requirement
  (`ag_repair.py:268-270`), is left out.  The LLM's reply is any text
  that passes the preservation check.  In the gate, whether behaviour and pattern conformance are
  kept is left open, so both outcomes are taken.
- **Collaboration.** `phase` is the pipeline's position; `carried` is
  `context.final_sysml`; a handoff is its task, session, status, calls and
  collected observer errors.  The context builder may raise in each of the three
  handoffs, when the task is ACTIVE and has no session yet (an envelope over its token
  budget, a record that may not be in it): `PlanningContextFails`,
  `DesignContextFails`, `VerificationContextFails`.  Assurance is a phase of its own (`assuring`): a round
  publishes its analysis and accepts a repair, ends assurance or raises; `goal` is
  the phase that comes after it, `repairs` what the budget
  `maximum_ag_repair_attempts` has left behind.  Only publications that some later
  step looks for are kept.
- **Run bundle.** `parent[r]` is the line of `main` a run has reached, `child[r]`
  the process it waits for (or left behind), `bundle[r]` its directory: state
  file, base artifacts, where each layer's report comes from, the matrix and
  whether the authority manifest is there.  Steps of the code that touch the file
  system twice are two actions (`Rename`, then `AssignState`; `FinalizerWrites`,
  then `FinalizerSeals`), because a kill or an error may come between.
- **Refinement.** `heap` maps model objects to texts, since `best_model` and
  `current_model` may be one object that repairs rewrite in place; `Facts[t]` is
  what the deterministic checks (evaluator, syntax, simulation, plan projection,
  audits) return for a text.  `sim` is the text the simulation in hand was made of,
  so that a stale one shows.  Whatever the LLM writes is any text.  `ranked` and
  `rankedText` are history: every key the loop compared, and the text the best of
  them was read from.
- **Closure.** `pc` is the typestate of the facade and the phase of the pipeline;
  `PlanFacts[p][t]` is what plan `p` says of text `t`.  `refine` is the abstraction
  of module `Refinement` that `generate` can see: any text and score, and a
  simulation and blocked verdict that may be of another text.
- **LLM calls.** The caller is one thread; a Vertex worker is a process that may
  answer, die or hang at any step, also after its deadline.  `call` is the attempt
  in progress, `live` the workers at their request, `pipe` the pipe, `session` the task
  session the observer archives into.  A worker that has sent its result is `exiting`
  until its process ends, perhaps beside later requests: the caller's `join(5.0)`
  (`interface.py:992`) is not asked whether it did.  SIGKILL is taken to end a
  worker, and a message to be in the pipe wholly or not at all: a worker that hangs in
  the middle of a write, for which `recv` (`interface.py:989`) would wait without a
  timeout, is left out.  `requests`, `refreshes` and `overdue` are history.
- **Design search.** A node of the tree is the sequence of actions that leads to it;
  a design is a function from points to variants; its vector is chosen once, when it
  is first scored, as is the number of gates it passes.  The catalogue fallback keeps
  the variation points that were introduced but not admitted in the text.  Which child the
  selection rule prefers is left open.  `layout`, `widths` and `spans` are the places
  of the variation blocks in the text and the offsets that were parsed from it.
- **Scenarios.** A model is one command-driven machine and one monitor; a guard is a
  set of conditions.  The executor, the path searches and the inputs are operators;
  the state is the scenario that runs, the steps still to take and the verdicts, each
  with the log it was read from.

## 3. Runs

| run | instance | states | shows |
|---|---|---|---|
| `blackboard` | 6 texts over 2 requirement names and 3 blocks, 4 revisions, 5 records, 2 tasks, 1 refusal | 308,902 | requirement text immutable, sources honoured, log replays, every revision made from the one it replaces |
| `task_session` | 2 tasks, 2 roles, 2 bases (the later one restores the text of the earlier), 3 sessions of 1 message | 1,367,621 | one writer per task, announced commits, closed sessions stay closed, rebased sessions follow one another, also when one session is rebased twice |
| `ag_repair` | 2 chains, 3 codes (one not repairable), 4 attempts for the run | 219,079 | dispositions and attempts accounted for, repairs follow the model and improve it, termination |
| `collaboration` | 4 texts, both arms, 2 calls per handoff, 2 repairs per assurance | 294,579 | settled handoffs, authorship, transcripts, returned = committed, current facts |
| `controller` | 3 sources with 3 to 8 effects each, partial or not | 1,396 | the reported outcome is true (outputs left, fixpoint, unbound facts suffice); the run ends |
| `run_bundle` | 2 runs, 2 evidence layers, finalizer, tool | 226,850 | publication complete, reuse matches impact, FAILED latest stays, lock released |
| `refinement` | 6 texts, 3 model objects, 3 iterations, threshold 3, tolerance 1 | 370,189 | best key never beaten, fresh candidates, exits hold what let them exit, the loop ends |
| `closure` | 5 texts whose gaps form a chain and a fork, 3 plans (none, frozen, revised), 3 requirements, 2 scores, tolerance 1 | 169,017 | closure record, score drift, closed publication, each call ends |
| `llm_calls` | 3 providers with ladders of 1, 1 and 2 retries, 3 temperatures, 3 decision turns, 7 session turns, 2 jobs, 2 exiting workers | 671,302 | one request at a time, no replay after a deadline, ledger, transcript, calls return |
| `design_search` | 2 points of up to 3 variants, 3 vectors over 2 objectives, 2 (variation) and 6 (catalogue) iterations | 439,185 | archive is the front, rewards and visits add up, recommendation feasible and best |
| `scenarios` | every machine of 1 to 4 of 14 transitions and a fork of 5, each with 4 monitors | 140,787 | paths, verdicts, the command that was sent is the one that was taken |
| `collaboration_repair` | as `collaboration` | | a disagreement of section 5 |

**Bounds, and why they are enough.**

- *Blackboard*: a lost definition needs one commit to protect, one to extend, one
  to drop and one to be judged against; four revisions hold that.  A lost edit needs
  two commits from one base, with a text of the same digest in between if only one of
  the two comparisons were made: three revisions.  `MaxRefusals`
  1 suffices because a refusal changes nothing but the log.
- *Sessions*: two bases of the same digest at different revisions are the case that a
  comparison by one of the two would miss; bases that differ in both are easier.  A
  session takes one message, which uses its turn or its three tokens up exactly; the next
  one expires it.  Three sessions give two competitors for a task, or a session that is
  rebased twice, beside a session of the other task.  `Endings` are two statuses that a
  caller may close with, and OPEN, which `close` refuses; the others behave alike.  Tasks
  and roles are symmetric.
- *A/G repair*: four attempts hold an accepted repair, a rejection in the second
  round, its retry and another candidate, and leave candidates over when the budget
  ends.
  A prompt or reply of three tokens does not fit beside another.
- *Collaboration*: two calls reach an observer error after a good call; two
  repairs reach a board that moved on twice in one phase.
- *Controller*: three sources whose topics form a fork; each may commit before
  its publication, after it (which hides a bound one), or leave it out.
- *Run bundle*: two runs are the smallest instance with a published predecessor
  whose evidence is reused and one with a live orphan.  Three runs without the
  tool were explored for 14.9 million states without an error; the theorems hold
  for any number.
- *Refinement*: three objects are the best model, the current one and a candidate;
  three iterations hold an acceptance, a relapse and an exit.  The six texts tell
  every gate apart: one does not parse, one has a stuck machine, one fails scenarios,
  one meets the threshold with findings, one is clean, one holds what its plan does
  not name.
- *Closure*: a chain of gaps needs several repairs, a fork is a repair that closes one
  gap and opens another; two scores one tolerance apart or more make a repair that
  just passes and one that does not.
- *LLM calls*: two retries reach a transient error, then a deadline; three turns
  and seven session turns let a conversation fill its session in the middle.  The
  ladder of the base class (five delays) is shortened to one.  `MaxExiting` is 2: two
  workers that have answered but not exited may run beside a third request; while both
  do, another worker does not get to send, and may only die or hang.
- *Design search*: three vectors that dominate, equal and trade off; two points with a
  pair of choices that excludes the rest, so that a rollout reaches a dead end.
- *Scenarios*: four transitions over five states make forks on one trigger, loops,
  guards of every kind, emergencies back onto the chain and in conflict with it; the
  fork of five tells a shortest walk from the first one found.

Deadlock is not checked in any run: a bounded instance stops at its bounds, and
the loops, the pipeline, the calls and the runs do end.  What must not stop early is
stated as `Terminates`, `RunEnds`, `LockReleased`, `LoopEnds`, `CallEnds` and
`CallsReturn`.

**Mutants.**  Every property of a passing run has a mutant in the module of the
code it guards (`Mut...` before the definition it replaces), an edit of the kind
a maintainer could make, which TLC must report.

## 4. Fairness

- `AGRepair`, `Controller`, `Refinement`, `ClosurePhases`: weak fairness of the whole
  next-state relation.  Each is one thread of straight-line calls; what they wait
  for returns or raises (`CallsReturn` below shows it of the LLM calls).  Which
  outcome comes is not assumed.
- `LLMCalls`: weak fairness of the caller alone.  A worker may hang for ever: the
  wait polls against a wall-clock deadline, and a worker that does not go when it is
  terminated is killed.  An SDK call of the other providers is one step.  Nothing
  forces a caller to start a job.
- `RunBundle`: weak fairness of each run's own steps once it has started.
  `subprocess.run` has a timeout for every child (1800 s each for the two evidence
  layers, 120 s for the finalizer), so a wait ends in a return or an exception,
  and so do LLM calls.  Nothing is assumed of children, of the tool, or that any
  run starts; kills are never forced.  `RaiseItself` is what a run must
  eventually do when nothing else is possible, `Raise` what may happen anywhere.
- `BlackboardCalls`, `TaskSessionCalls`, `Collaboration`, `DesignSearch`,
  `Scenarios`: safety only.

## 5. What the checks found

`collaboration_repair` is a run that must end in a violation, of a sentence it quotes:
after an accepted A/G repair `context.final_sysml` is the text from before; the next
phase compares it with the board and raises, so `generate` fails exactly when a
repair was accepted.

Other places where the code does not do what it says are kept as definitions beside
the properties.  Each is shown by putting the definition in the place of the
invariants of the run's `.cfg`; TLC then prints the trace.

| definition | run | the code |
|---|---|---|
| `RejectionLeavesNoneWaiting` | `ag_repair` | a repair session that expires inside the chat is closed a second time by the error handler; that raises, out of the fixpoint, and other chains' tasks stay PENDING |
| `PlanningAcceptedWithTranscript` | `collaboration` | a planning result is accepted although its session EXPIRED; the design handoff rejects the same situation |
| `NoStaleActivation` | `controller` | a pass's agenda is computed once, so a source runs although a commit earlier in the pass has hidden its revision-bound precondition |
| `InterruptedNeverLatest` | `run_bundle` | an error or interrupt after `publish_latest` writes FAILED into the bundle `latest` already names; `FailedLatestStays` shows that no later run can publish from then on |
| `FinalIsImmutable` (a property) | `run_bundle` | the matrix tool checks for FINAL when it starts and writes when it ends; a bundle sealed in between gets a planned matrix |
| `ThresholdExitIsClean` | `refinement` | the exit after a forced fix looks at failing scenarios alone, so a model leaves as clean with syntax errors or a stuck machine, against the comment on the threshold exit |
| `PeakModelReturned` | `refinement` | `best_model` may be the object that is repaired in place afterwards; the peak that was ranked is then not what is returned |
| `TimeoutsRetried` (a property) | `llm_calls` | the docstring of `VertexLLM._complete_impl` (`interface.py:929-930`) says that timeouts are retried by `complete`; `_is_retryable` refuses them, as the comment on `RETRY_DELAYS` wants (`interface.py:848-849`) and `OverdueIsOver` needs, so a call gives up at its first timeout.  The docstring is out of date |
| `RevisionGains` | `closure` | the obligations a revised plan has to reduce are those of a blocked verdict that may be of an earlier text, so a revision can be adopted that gains nothing on the text it is applied to |
| `ConcreteIsResolved` | `design_search` | `run_variation_dse` parses spans, then rewrites the text in front of the blocks, then replaces at the old spans: the recommended model is cut at the wrong places |
| `PassedBranchIsDriven` | `scenarios` | an emergency scenario passes as soon as any transition enters its target; one that navigation entered is credited although the branch never ran |
| `SimulationReturns` | `scenarios` | a monitor whose initial state has an action is in a fault state before it has moved; the cross-component scenario then reads the last event of an empty log and raises |

`VerdictsAreTrue` states the rest of the emergency scenarios: where the navigation
gets to the source without entering the target, the verdict is right.

## 6. Proofs

`WorkspaceProofs`, of the board, for all texts, names, blocks, notes and bounds, from
`TextsAssumption` (each text defines a partial function from names to blocks, and
the initial text is one of the texts) and the typing assumptions of
`BlackboardCalls`:

- `TypeCorrect`: `BoardSpec => []BoardTypeOK`.
- `ProtectionCorrect`: `BoardSpec => []ProtectionIsCurrent`.  The invariant is
  `ProtectionInv == BoardTypeOK /\ ProtectionIsCurrent`: the protected registry is
  *equal* to what the current text defines.  The code only ever extends the
  registry and checks containment; equality follows because a commit that passes
  the check adds exactly what its text defines.
- `RequirementsImmutable`: `BoardSpec => []DefinitionsImmutable`.  Not inductive
  alone: a commit is compared with the registry and not with earlier revisions,
  so `ImmutableInv == ProtectionInv /\ DefinitionsImmutable` carries the link from
  the registry to the last text, and `DefinitionsImmutable` from there to all
  earlier ones.
- `Implements`: every step of the board is a step of `RevisionLog` or leaves its
  variables alone, under the refinement mapping that takes the texts of the revisions
  for `log` and `madeFrom` for `bases`.  `MadeFromStep` is where the two comparisons at
  the head of `commit_model` are needed: whatever base a caller quotes, a revision is
  only ever made from the current one.

Of the board's log, from the same assumptions and `NotesAssumption` (no caller
publishes under the topics the board uses for its own records):

- `SourcesAlwaysHonoured`: `BoardSpec => []SourcesHonoured`.  The invariant `LogInv`
  adds `CommitsExist`: a `model.committed` record names a revision that exists, so
  that appending a revision never changes which text an older record speaks of.
- `NothingLost`: `BoardSpec => AppendOnly`.  Every step is `Unlogged`, `Logged` or
  `Committed`; `RecordsStep` shows it once for both theorems.

- `LogAlwaysReplays`: `BoardSpec => []LogReplays`, in two halves.  `CommitsReplay`:
  the records of commits name the revisions and their authors, in order and
  completely.  `TasksReplay`: the last record of a task carries its status.  Both are
  inductive on `ProtectionInv`, by `RecordsStep` and by the shape of the record that
  each task operation appends; a refused commit leaves the log alone.

Of the sessions, from `SessionAssumption` (the constants are of their types) and
for any number of tasks, sessions and messages:

- `SessionTypeCorrect`, `OneWriter`, `RebaseChainsCorrect`, `OpenAreCurrent` and
  `ClosedStays`: the properties of the run `task_session`, and the type
  invariant.  The invariant is `SessionInv`.  Besides these properties it says that
  a session is rebased from an older one (`RebasedEarlier`) and that the registry's map of roles is the roles of its sessions (`RolesAssigned`): `open`
  asks the map, not the sessions, whether a task has another role.  A step has
  one of two shapes, `InPlace` (each session continues, none becomes OPEN) or
  `OneOpened` (one session more, for a task that had no OPEN one), and the
  invariant is shown for the shapes.

Of the controller, for any sources, needs, outputs and effects, from
`ControllerAssumption` (the constants are of their types):

- `RunReportsTrue`: `ControllerSpec => []OutcomeIsTrue`.  The invariant is
  `ControllerInv`.  `LogTold` ties `activation_log`, `_activated` and the agenda to one
  another: the code decides by the set what it reports by the log.  That outputs were
  visible when an activation record was published is a claim about an old board; it
  survives because every step only `Extends` the records.

`AGRepairProofs`, for all chains, codes, routes, texts, budgets and token counts, from
`RepairAssumption` (the constants are of their types, and there are a chain and an
attempt):

- `AttemptsAreAccounted`: `RepairSpec => []WorkAccounted`, and `RepairsAreCurrent`:
  `RepairSpec => []RepairsFollowModel`, both from `LoopInv`.  What the two properties say
  of the end of the run is not inductive: a task in the middle of a round is in one of
  four places, and the invariant says which.  `StatusOf` says that the PENDING tasks are
  exactly those of the candidates that wait (in the groups while chains are analysed and
  ordered, then in the queue beyond `next`) and the ACTIVE one exactly that of the
  attempt being made; `GroupsOK` and `QueueOK` that no task is in two places, so that
  closing one candidate settles one task; `DecidedOK` that the settled tasks are those
  that have a decision, one each.  `Places` is the loops' own bookkeeping: a group has no
  more candidates than codes were seen, and while the order is made the queue holds only
  candidates of the groups, which is why no task is lost when the groups have been
  emptied into the queue.  `HeldOK`, `Opens` and `Counted` tie tasks to sessions:
  an attempt opens one session, which is OPEN only while the attempt is made (it stays so
  when the repair gate raised and ended the run there), and closes with one decision.  `Based` (what waits is on the current revision, unless an accepted
  repair has just superseded it) makes the commit of an accepted repair succeed, and
  `ChainedOK` records of each revision which decision made it.  `Useful` (a candidate is
  for a failure its chain still has) turns the repair gate into an improvement of the
  chain, `ImprovedOK`.  `LoopInv` was checked with TLC on the instance of `ag_repair`
  before it was proved.  Its proof takes each kind of change once (a task created, taken
  up, settled; a decision added; a candidate grouped, queued, taken up; a session opened,
  replaced; a revision committed) and each action as a combination of these.

`CollaborationProofs`, for all texts, requirements, budgets, token counts, calls and
repairs, from `CollaborationAssumption` (the constants are of their types):

- `WritersStayCurrent`, `HandoffsStayAccounted`, `AcceptedAlwaysWithTranscript`,
  `ReturnedAlwaysCommitted`, `FactsAlwaysDescribeModel`: the five properties of the run
  `collaboration`, from `CollaborationInv`.  None of them is inductive alone.
  The board's methods are first described by what a later step reads: `Follows` (no
  revision added, which topics the new records have) and `Advances` (one revision
  added, whose only fact is its own).  `WorkInv` then says that between handoffs every
  task and session has ended (`Rest`), that during one exactly that agent is `AtWork` on
  the current model, and what an aborted call leaves behind (`Broken`: every
  task has ended except possibly the last, whose session expired or, where its context
  could not be built, was never opened).  `AuthorsInv`
  says that authors are COMPLETED tasks and that a COMPLETED design task is the author
  of one revision; a new task's id is that of no author yet, and later commits name no
  task.  `FactsInv` says that a verification fact of the current revision comes with the
  plan for it, that the terminal and analysis facts are there in the phases that look
  for them, and that no assurance is begun on the way to what generate returns.  The
  invariant was checked with TLC on the instance of `collaboration` before it was
  proved.

`RunBundleProofs`, for any set of runs, from `RunsAssumption` (`None` is no run):

- `RunTypeCorrect`, `PublicationComplete`, `ReuseCorrect`, `FailedLatestBlocks`:
  the four safety properties of the run `run_bundle`.  They share the invariant
  `RunInv`, since each needs the others.  `LockHeld` makes the run that holds the
  lock the only one that can publish; `BasisHolds` says that, while a run works
  towards publication, `latest` is still the run its impact analysis was computed
  against and is still FINAL; `ChildAtStage` that the run's only child is that of
  its stage, so that no evidence process writes beside the finalizer; `Sealing`
  that what the finalizer read stays complete although the tool rewrites matrices;
  `LatestSettled` that a published run has no evidence process left that could
  change its reports.  `RunInv` was checked with TLC on the instance of `run_bundle`
  before it was proved.

`RefinementProofs`, for all texts, facts, scores and bounds, from `FactsAssumption`
(facts are of their type), `BoundsAssumption` and `ModelsAssumption` (there is always
an object that is neither of two):

- `RefinementTypeCorrect`, `PeakKept`, `ExitsHold`, `CandidatesFresh`.  The
  invariant is `LoopInv`.  `Simulated` says where in the loop the simulation in hand is
  of the current text, `Leaving` what an early exit has already established,
  `PassLeft` that each exit pass runs at most once, `Apart` that a candidate under
  repair is not the best model.  `ExitHolds` needs all four: it is a claim about a text
  that up to four passes replaced after the gate was evaluated.

`ClosureProofs`, for all plans, checks and ids, from `FactsAssumption`,
`NoPlanAssumption` (without a plan nothing is applied and nothing unmet) and
`ScoresAssumption`:

- `ClosureTypeCorrect`, `ClosureAccounted`, `DriftBounded`, `PublicationClosed`, from
  `ClosureInv`.  `Repairing` is the loop invariant of functional closure: the gaps
  left are a subset of the initial ones, smaller by at least one per accepted repair,
  and the score is above the projected one less the tolerance per accepted repair.
  `Audited` carries what `verify_terminal` measured to the snapshot.

`LLMCallsProofs`, for any ladder and budgets, from `LadderAssumption` and
`BoundsAssumption`:

- `TranscriptStaysFaithful`, from `TalkInv`.  Messages carry the number of the call that
  first sends them, and `Dated` says that the archive holds only earlier numbers, so no
  new turn is there yet.  `Kept` is the invariant of the archive: an open session
  ends with exactly the turns that were due, those up to the offset while a call is in
  progress and all of them between calls; an expired one ends with a prefix.
- `OverdueRequestsOver`, `LedgerBalanced`, from `CallInv`.  `Workers` says that a worker
  is at its request only while its caller waits for it or is stopping it, and is of the
  last request; and that a worker on its way out, which a later request may find beside
  it, was in time, unless it is the one being stopped; `Late` that an overdue request has ended its call; `Balance` is the ledger
  equation with the terms of a call in progress: its own request, its retries and its
  refresh.

`DesignSearchProofs`, for any points, variants, vectors and gates, from
`VectorsAssumption` (vectors are functions from a finite set of objectives to numbers),
`PointsAssumption` and `SpacesAssumption`:

- `ArchiveCorrect`, `RecommendationBest`, from `SearchInv`.  `AddFront` shows of
  `ParetoArchive.add` that the archive stays the front of what was added, from
  `DominanceOrder` (dominance is a strict order).  That there is a recommendation
  whenever a design is feasible needs a maximal element of a finite set: `FrontExists`,
  by well-founded induction on the sets of dominating designs, which `DesignsFinite`
  shows to be finite.
- `AccountsBalance`: `Spec => []SearchAccounts`, from `AccountsInv`.  A rollout adds one
  visit and the volume its design adds to the archive to every node of its path.
  `GrownTree` says that the tree is closed under parents and grown by actions, so that
  exactly one child of each inner node of the path is on it (`PathSums`, `GrowthSums`);
  `Balanced` also says that a leaf that may still get children was visited exactly by the
  rollout that made it, without which the visits of its first child would not add up.
  `VolumeGrows` shows that a larger front never has less volume, so rewards are never
  negative.  Sums over the children are the community modules' fold over a set: `SumDef`
  unfolds its definition, `SumsExist` and `SumsUnique` show that the recursive function in
  it exists and is determined, and `SumRecursive`, `SumWithout` and `SumChanged` what it
  gives when an element is added, removed or revalued.  They go by a smallest
  counterexample among the subsets of a finite set (`SubsetInduction`, from
  `FS_StrictSubsetOrderingWellFounded` and `WFMin`), which needs no induction theorem with
  an operator parameter.

Lemmas state what a method returns (`LogFields`, `PublishedFields`, `CommittedModelFields`
and the like) once, so that the proof of an action names facts rather than
definitions.

The type invariants and `ProtectionIsCurrent` are proved, and no longer listed as
properties of runs: the theorems say more.

**Model-checked only.**  The liveness properties, which are out of the prover's
reach, and the properties of `Scenarios`, whose searches are recursive operators.  Every
other invariant and every action property of a run is a theorem, for all values of the
constants.

## 7. Not modelled

Text: parsing, prompts, fixers, emitters, report wording.  Numbers: estimators,
optimisers, catalogue matching, flight mechanics, the sweeps of numeric guards.
Services: LLM providers, simulators, retrieval.  They appear as choices: any text, any
set of codes, a child that succeeds or fails.

Of the modelled components the following is left out.  A/G assurance: the
contract-authoring loops of `ag_assurance_source.py` (their calls and their
conversation are in `LLMCalls`, what they decide is not).  Refinement: the feedback
the next prompt gets.  Plans: authoring, admission and patching of a plan
(`typed_plan_generation.py`, `generation_plan.py`, `plan_patch.py`), abstracted to
what a plan says of a text.  LLM: the prompts of `chain_of_thought.py`.  Design
search: estimators, the inner optimiser, UCB weights.  Simulation: power-on,
parametric and state constraints, the score.

## 8. Plan

Done, in this order: the board, sessions, A/G repair, collaboration, the controller,
the run bundle; then refinement, closure phases, LLM calls, design search and
scenarios; and the proofs of section 6.  Left:

1. *Plan authoring*: the bounded loops of `typed_plan_generation.py` and
   `generated_model_admission.py`.  Properties: a frozen plan is never written again;
   entries outside a revision's authorisation stay identical; attempts bounded.
2. *A/G authoring*: the contract loops of `ag_assurance_source.py` with their budget
   and the choice of the best candidate, composed with `LLMCalls`.
3. *Composition*: `ClosurePhases` over `Refinement` instead of its abstraction, with
   a refinement mapping that shows the abstraction sound.
4. *Proofs*: the searches of `Scenarios` as recursive functions, so that what they
   return could be proved as well as checked.

## 9. Running

    tlasany Blackboard.tla
    tlc -workers 2 -config Blackboard.cfg MCBlackboard
    tlapm WorkspaceProofs.tla

Each `.cfg` belongs to the MC module `PROJECT.json` names for its run.
