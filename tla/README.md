# A verification project for gdm-tck

gdm-tck is a BDD test kit for graph databases that speak Bolt. pytest-bdd runs
Gherkin features against a server; the package `gdm_tck` under `src/src/` holds
the connection, the scenario state, the comparison of results, the runners of
`gdm-cli` and `gdm-admin`, the concurrent executor and the reporting;
`src/steps/` holds the step handlers; `src/tests/` the fixtures and the
collection of features; `src/scripts/` the scripts that deploy a server cluster
and start a suite. This directory holds TLA+ models of the parts that keep
state, the TLC runs that check them on small instances, and TLAPS proofs of
theorems about them for every value of the constants.

A model-checking run is `tlc -workers 2 -config X.cfg M`, a proof check is
`tlapm M.tla`. `PROJECT.json` lists the runs, what each definition translates
(source file and lines), one mutation of the model for every property checked,
the findings, the hazards and the theorems.

## 1. The system

| Part | State | Operations | Who it talks to |
|---|---|---|---|
| Scenario context (`state.py`) | `last_result`, `last_error`, `last_command_result`, `parameters`, `current_database`, `user_clients`, and `sessions`/`transactions`, which no step fills | created and reset by the fixture `scenario_ctx`; read and written by every step | the step handlers |
| Query steps (`step_query_exec.py`) | none of their own | one query, batches (deferred or raising), repeated queries, queries by a user | `bolt_pool.primary`, the context |
| Graph steps (`step_graph_init.py`, `step_cli_exec.py`) | none; the server's graphs | clear the graph, create the binary trees, drop all graphs and graph types, log in | the server, the context |
| Assertions (`step_result_assert.py`, `step_error_assert.py`, `step_side_effects.py`, `step_plan_assert.py`, `step_schema_assert.py`) | read the context | pass or raise | the context, some the server |
| Connections (`bolt_client.py`, `bolt_pool.py`, `agent_patch.py`) | one driver per client; the clients of the pool; a process-wide patch | connect, execute, close, create a user's client | the neo4j driver |
| Concurrent executor and throughput workload (`concurrent/`) | futures, threads, the result being counted | a batch, a workload for a time, a throughput run | one `BoltClient` shared by the threads |
| Parallel workers (pytest-xdist) | one process each: a context and a pool | run scenarios | the one server, and files they share |
| Command runners (`cli/`) | the last command's output and exit code | run a binary under a timeout | subprocesses |
| Health and lifecycle (`server/`) | a deadline | poll until ready, stop, restart | the server's ports |
| Result comparison (`result/`) | none | parse, compare, count side effects | called by the assertions |
| Feature parser patch (`parser_patch.py`) | a line state machine | parse a feature file | pytest-bdd |
| Configuration (`config.py`) | nested tables, then a frozen `Settings` | load the files, merge, apply the environment, build, validate | everyone |
| Reporting (`reporting/`) | the list of test records, under a lock | record, summarise | pytest hooks |
| Collection (`tests/tck/conftest.py`) | a collector file on disk | write, filter the items, unlink | pytest |
| Deployment scripts (`scripts/deploy/`) | identity, data, token and tmux session of each node | install, deploy, start, stop, clean up, destroy | ssh, tmux |

How they interact. pytest-bdd calls the steps of a scenario in order and stops
at the first that raises; the fixture is torn down after. A step reads the
parameters and the database of the context, sends queries to the pool, and
leaves the outcome in the context for the assertions: a failing query is
*deferred* by `execute_no_throw`, so that a later step decides whether it was
expected. With xdist, several processes do this against one server. Within a
test, the executor runs one client from many threads. pytest-timeout may raise
in the main thread at any time.

What is hard to get right, and what makes each part correct:

- *Deferred errors.* What the assertions judge must be what the step's queries
  did, for every kind of step, failing anywhere in a batch.
- *Clean-up.* Whatever a scenario opened is closed before the next, also when a
  step or a close raises.
- *Isolation.* A scenario sees what it wrote and nothing else, though its
  clearing step is a series of calls other workers' calls may separate, and
  though some of these calls fail silently.
- *Snapshots.* The drop loops walk over the answer to a SHOW that is stale as
  soon as it arrives; they must not drop what is protected, and must end.
- *Counting.* The executor reports each task once, with its outcome, in
  whatever order they finish, and ends, whether it returned or was interrupted,
  also when its threads have to share fewer connections.
- *Limits.* Threads, connections, timeouts.
- *Reading a feature.* A parser that goes on after every odd line must still put
  each step where its author wrote it, lose none, and give a scenario the tags
  that stand above it.
- *Verdicts.* A table and a result pass three transformations before they are
  compared: what passes must be what was written, and what was written must pass.
- *Clusters.* Scripts that fail half way, and are run again, must not make two
  clusters of one, or one of two.
- *Sessions.* Settings come from four places and the variables in no particular
  order; the drivers a session opens are closed, or their failure is known.

`PROJECT.json` lists every hazard at its line, with the properties that cover
it, or why none does yet.

## 2. The modules

| Module | Models | Checked by | Proofs |
|---|---|---|---|
| `ScenarioContext` | the context, its fixture and all steps that read or write it | `MCScenarioContext` | `ScenarioContextProofs` |
| `PrivateGraph` | abstract: what the Given steps promise a scenario | as a property of the next | - |
| `SharedGraph` | xdist workers against one server, call by call | `MCSharedGraph` | `SharedGraphProofs` |
| `TaskBatch` | abstract: what a call of the executor promises | as a property of the next | - |
| `ConcurrentExecutor` | one call of the executor, its threads and connections | `MCConcurrentExecutor` | `ConcurrentExecutorProofs` |
| `ClusterIdentity` | abstract: what the scripts promise about identities | as a property of the next | - |
| `ClusterDeploy` | the deployment scripts and the cluster's nodes | itself | `ClusterDeployProofs` |
| `FeatureParser` | the parser of feature files, line by line | `MCFeatureParser` | `FeatureParserProofs` |
| `TckValues` | values, the texts of cells, their comparable form; pure operators | `MCResultAssertion` | - |
| `ResultAssertion` | the result steps and the comparator | `MCResultAssertion` | `ResultAssertionProofs` |
| `TestSession` | a process: configuration, agent patch, pool | `MCTestSession` | `TestSessionProofs` |

### ScenarioContext

The variables have the names of the fields of `ScenarioContext`. A result is a
member of `Results` or `None`, an error a member of `Errors` or `None`: the
steps never look further than that, except that assertions compare rows with
expected ones, which is membership in a set. `owner` says which clients exist
and hold a driver; `user_clients` is the dictionary that has to lead to them.
`outcomes`, `accepted`, `lost` and `ran` are history: the true outcomes of the
queries of the last recording step, whether a result assertion has passed since,
the open drivers whose own connect or close has failed, and the clients the
queries of a user ran on in this scenario.

One action per kind of step. `ExecutingQuery` and the three steps with the same
body record one outcome; `ExecutingQueries` sends a whole batch and keeps the
rows of its last query with the error of its last *failing* query, as the loop
does; `ExecutingQueriesWithoutError` and `TestDataExists` stop at the first
failure and then leave the context untouched, the latter also raising on an
empty batch, where the name `result` is unbound. `ExecutingQueryByUser` and
`LoginInUser` create clients; a query by a user runs on the first of the user's
(`ClientOf`, step_query_exec.py:249); `LoginInUser` switches the database before
the connection may fail. A connect that fails may leave an open driver that its
client has forgotten (`ConnectFails`), and a client whose `close()` raises keeps
its driver, is forgotten by `reset()`, and does not keep the others from being
closed (`CloseClients` lets any subset raise). `UnrecordedStep` stands for the steps that talk to the
server without leaving anything in the context. `Step(returns)` is pytest-bdd:
a step that raises ends the scenario. `Teardown` is `reset()`.

Left out: the text of queries and errors, the table and the docstring of a step.

### SharedGraph and PrivateGraph

Each worker is a process with a program counter and the fields of its context
that matter here. A graph on the server has a status, rows (tagged with the
scenario that wrote them, which is what isolation is about) and schema objects.
One action is one call to the server, so `an empty graph` is `ShowConstraints`,
a `DropObject` per object of the snapshot, `ShowIndexes`, more `DropObject`s
and `DeleteRows`, and other workers act in between. SHOW and DROP may fail and
are then only logged; `LeftAfterFailure` is where the plain and the CLI variant
of the step differ (one `try` per object, or one around the loop). A failing
`DeleteRows` raises and ends the scenario. `kept` collects the objects a failed
call left behind, `made` those the scenario created.

`uses` is fixed at the start: the kinds of steps that the features of the session
use, one of the `Suites` (clearing in the plain and the CLI variant, the binary
tree, schema objects, administration). The administrative steps create graphs,
take them offline, switch the current database and drop all graphs. `drop all
graph` takes a snapshot of names and statuses; for each entry it sends ALTER
GRAPH if *the snapshot* said offline, then DROP GRAPH, whatever the graph has
become meanwhile.

Nothing keeps two workers off one database, and all configuration files put them
on one. `alone` is history: the workers whose graph no other worker has changed
since their clearing step began, and who have not turned to another one
(`Touched`). The isolation properties speak of these, so that what they say of
the clearing step holds with one database as with several, and
`WorkersDoNotInterfere`, which does not ask for `alone`, is the guide's claim.

`PrivateGraph` is the promise: each scenario has a graph of its own, empty once
its clearing step is over, which only it writes and of which a query returns
everything; the clearing step is one action, a scenario on "any graph" is
promised nothing, and neither is one after `Lose`, when another worker has
changed its graph or it has turned to another. The refinement mapping reads the
stage of a worker off its program counter, `alone` and `clean`, its graph off the
database it uses and its answer off what it last observed. The loops of the
clearing step, and the calls of others that do not change the graph, are
stuttering steps.

### ConcurrentExecutor and TaskBatch

The calling thread submits, collects and returns; a task is queued, waits for a
connection, queries, and is done. `mode` tells `run_same_query` and
`run_parameterized` ("batch": the number of tasks is known), `run_workload`
(submit until the time is up) and `run_throughput_workload` (the same, without
keeping the errors, and returning at once without queries) apart.
`Interrupt` is pytest-timeout raising in the calling thread, whose `with` block
then joins the threads without cancelling what is queued. Elapsed times and
latencies are left out. `TaskBatch` is the promise: tasks are issued and
complete in any order, the call ends when none is pending, and its counts are
those of the tasks. The refinement hides connections, queue, clock and the
counts of a call that has not returned.

### ClusterDeploy and ClusterIdentity

One script runs at a time; between its remote calls the nodes act by themselves.
`running[n]` is the directory the tmux session of node n runs from (sessions are
named after the node, not the directory), `identity[d][n]` what the node's data
in directory d says of the cluster it belongs to, identified by the token of its
bootstrap, and `waits[n]` the token a node without identity waits with. A script
walks through the phases stop, wipe, check, clean, token, launch, skipping those
its command does not have; each remote call is an action, and `Fail` may end the
script before any of them (`set -e`; an answer that is lost after its call took
effect is the call, then `Fail`). Three places do not end it, and the model has
them as they are: the identity check takes a failed call for "no identity", the
token file may be missing because `set -e` is off to the left of `||`, and
`create_deploy_dirs` may take an existing directory for a new one. A script
names its token file after the second in which it begins, so that it begins
with none (`NewTokenFile`; two scripts are taken not to begin within one
second). Of the commands of `manage.sh`, only a start of all nodes reads
`--force-clean`. Both cleanups
are `WipeNode`, in the order of the nodes.

What the server does is external and reduced to what the scripts rely on: a
majority that waits with one token commits an identity at once (as one Raft
entry), others with the same token join it, and a node may end at any time,
which covers the time-out of the bootstrap. A killed session ends its process.
`disturbed` is history: the directories in which a cleanup met a running node,
or of which `destroy -n` took one node's data. Of those nothing is promised.

`ClusterIdentity` is the promise, without scripts, sessions and token files: in
each directory, a quorum forms a cluster at once, where no node has an identity
and under a token no other directory has; nodes join it while a quorum has its
identity; it is taken apart from node1 on. A directory that is lost keeps only
the promise that it takes no identity from another. The refinement mapping is
`carries <- identity`, `lost <- disturbed`, quorums are majorities.

### FeatureParser

The variables are the local variables of `_patched_parse_feature`; the action of
a line is chosen by the branches of its loop, in their order. A line is its
keyword, its indentation, and the name or the tag after the keyword. What is
built is a background and `scenarios`, a function from names, because the code
keeps a dictionary: a second scenario of a name replaces the first, and
`replaced` remembers the steps that went with it. `prev_line` is the tag on the
line before, since the code looks only for tags in it; which lines update it is
part of each action. `step_lines`, `scenario_lines`, `marks`, `marked` and
`feature_marked` are history: what a reader of the file sees. pytest-bdd's
helpers (`parse_line`, `get_tags`, `strip_comments`) are external. Left out:
the text of descriptions, the cells of a row of examples, several tags on a line.

### ResultAssertion and TckValues

`TckValues` follows a value from the driver (`Simplify`), a text from the cell
(`ParseTckValue`: lists and maps that are JSON as such, the others by hand, with
`Unescape`, `SplitTopLevel` and the parsers of lists, maps, nodes, relationships
and paths), and both to the form that is compared (`Normalize`, which sorts lists
by `SortKey`). A text is a sequence of tokens, and a string in it as many as it
has characters, so that what brackets, quotes, commas and escapes do to each
other is kept. `json.loads` is external: `IsJson` and `JsonValue` know its words,
numbers, strings, escapes, lists and maps.

`ResultAssertion` takes the comparable forms as the functions `Actual` and
`Expected` and models the steps and the comparator: headers, missing cells, the
comparison of rows sorted by their text, of zipped rows, of sets of rows. The
sort is the code's: a row is placed by its JSON text with sorted keys, that is,
by the first key at which two rows differ (`Earlier`), and equal rows by where
they came from (`Position`, `SortedRows`). The text of a form is a number
(`TextAt`), of which the module asks only that different forms have different
texts.

What an author means is stated without the code's operators: `Same` relates a
value to the one that was written, `Alike` does so up to the order of the
elements of lists, and the MC module defines both, and the notation (`Show`, in
Cypher's and in JSON's form). The step "(ignoring element order for lists)" is
held to `Alike`, the others to `Same`; in the code all of them sort the lists.
So `PassedRowsMatch` promises `Alike` of every table, and `Same` of the tables
where the two agree; that the others keep the order of lists is finding 5.

`MatchingTableAccepted` is about tables the code reads: `Readable` leaves out a
`|` in a string, which splits the cell, and an escaped quote in a string of a
list that is not JSON. Only for the step that ignores the order, `Sortable`
leaves out lists that mix scalars with maps or lists, which stay unsorted
because their keys do not compare, and lists with equal numbers of different
types (`1`, `1.0`, `true`), which keep the order they came in. The order of the
nodes and of the relationships of a path is lost as that of a list is. A named
time zone loses its offset. NaN, blanks and the regular expressions of paths are
left out.

### TestSession

One process from `load_settings` to the end of the fixture `bolt_pool`. `config`
holds the leaves of the nested tables by path. `ApplyVariable` applies the
variables one at a time in any order, as `os.environ` has no order of its own;
`_set_nested` fails where a key on the way is not a table. A value carries its
type; `CastEnvValue` and `Convert` together decide what a setting becomes.
`Valid` is `_validate_settings`. Then the pool makes its clients (`Uris`), the
first of which patches the driver's check (`ApplyAgentPatch`), `Connect` and
`ConnectFails` go through them in order, and `Close` and `CloseRaises` do after
the tests. `dropped` is a driver that is open and that its client has forgotten.
`failed_at` is history. Left out: a table where a value belongs, numbers written
as strings in a file, the digits after the point, versions of the driver that
have no check to patch.

## 3. The runs

| Run | Shows | Instance |
|---|---|---|
| `scenario_ctx` | the type invariant; `RecordedOutcome`; `AcceptedResultIsClean`; `LiveClientsReachable`; `UserQueriesShareClient` | 5 steps, batches of 2, 2 users, 3 clients, 2 databases |
| `shared_graph` | types; `ReadsOwnRows`; `SchemaAccountedFor`; `ProtectedStays`; `ScenarioEnds`; `LoopsAdvance`; `ImplementsPrivateGraphs` | 2 workers on one protected database, 1 scenario each; clearing (plain and CLI) with a constraint and an index, or trees with the administration of 2 graphs |
| `shared_graph_shared` | *violated*: `WorkersDoNotInterfere`, the claim of the guide | the same workers, clearing and schema objects |
| `executor` | types; `AllAccountedFor`; `ConnectionsSuffice`; `NoCallHangs`; `CallEnds`; `ImplementsBatch` | 3 tasks, 2 threads, 1 connection, a clock up to 2 |
| `executor_timeout` | *violated*: `QueryTimesOut` | 2 tasks |
| `cluster_deploy` | types; `IdentitiesAgree`; `StartedFromHere`; `FormsQuorum`; `ImplementsCluster` | 3 nodes, 2 directories, 2 tokens, any number of commands |
| `cluster_node_option` | *violated*: `NodeOptionTouchesItsNode` | 3 nodes, 1 directory, 2 tokens |
| `feature_parser` | types; `StepsUnderTheirScenario`; `NoStepLost`; `StepsHaveAHome`; `SkippedOnlyIfMarked` | all files of 6 lines, 2 names, 2 tags, 2 indentations |
| `feature_ignored` | *violated*: `IgnoredIsSkipped` | the same lines |
| `result_assertion` | types; `PassedRowsMatch`; `MatchingTableAccepted`; `StrongerImpliesWeaker`; `RowOrderIgnored` | 40 values of every type, lists and maps in both notations, tables of up to 3 rows and 2 columns |
| `result_list_order` | *violated*: `ListOrderKept` | the same |
| `test_session` | types; `SettingsFollowPriority`; `OpenDriversAccountedFor`; `RunsOnItsBackend` | 8 settings, 2 files or none, up to 3 of 8 variables, up to 3 servers |

Why the bounds are enough. A batch of two has every case of the loops: a failure
before a success, after one, alone, and none; five steps allow a login, a second
login, a query by the user, a failing batch and an assertion, then teardown and
the next scenario starts. Two workers on one database let a scenario meet both the
remains of one that has ended and the calls of one that runs: rows and objects
appear before, between and after the calls of a clearing step, also those its
snapshot does not have. A session also starts with any schema an earlier one
left, so that one scenario each is enough for both loops to run and to be empty;
two graphs, one protected, let the drop loop skip one and drop the other, while
the other worker creates, switches off or drops it.
Three tasks on two threads make one task wait in the queue while two complete
in either order; one connection for two threads makes one thread wait for the
other's; a clock of two lets a workload end with tasks in the queue.
Three nodes are the repository's number and the least
with a majority that is not all; two directories let sessions of one meet the
start of another, and two tokens let a cluster that was cleaned in part meet a
second bootstrap, and the token of one directory meet the nodes of the other.
Scripts that start nothing are not bounded.
Six lines hold a background or a tag, two scenarios and steps in each, a
docstring that is opened and closed, or examples with rows. A table of three
rows has a row twice and another once, which sets and bags tell apart; the
values are one of each type, and the pairs that a sort, a quote, a comma or an
escape may confuse.
Three variables are the least that set a key, one above it and one beside it;
three servers put a failure first, last and between.
Deadlock checking is off where the system really stops: the workers when their
last scenario is over, a call that has ended, a file that was read, a scenario
that failed, a session that is over.

Fairness. `SharedGraph` assumes that a worker inside a clearing step or a drop
loop keeps going (the driver returns or raises, so each call has an answer) and,
as strong fairness, that a scenario ends: its steps are a finite list, while the
model lets the body do any number of calls. Nothing is assumed of the start of
scenarios or of what their bodies do. `ConcurrentExecutor` assumes that time
passes, that the calling thread and each task's thread go on when they can, and
that the server answers each query; without the last, the code does wait for
ever, which is what `executor_timeout` is about. `Interrupt` has no fairness.
The other modules state safety only and assume no fairness.

## 4. What is proved

All theorems are of the unbounded specification: any sets of workers, graphs,
users, results; any bounds. The assumptions are those the modules name
(`ContextConstants`, `GraphConstants`, `ExecutorConstants`,
`ClusterConstants`, `LinesAssumption`, `NoneAssumption`, `ResultAssumption`,
`SessionAssumption`).

- `ScenarioContextProofs`: `ContextTypeCorrect`, `OutcomeIsRecorded`,
  `AcceptedResultsAreClean`, `ClientsAreReachable`, and
  `QueriesShareTheirClient`. That no accepted result hides a failure is not
  inductive alone: an assertion only sees `last_error`, so the invariant carries
  `RecordedOutcome` with it. Reachability says of all open drivers but the lost
  ones that the dictionary leads to them; it needs that a client stands under one
  user, the one it is logged in as, and that a walk over the dictionary therefore
  meets all of them; a lost driver is open, so that no later login takes it for a
  new one (`LoginFailed`). That the queries of a user share a
  client needs that clients are only added at the end while a scenario runs, and
  that the one the queries ran on is the first (`ClientAdded`, `QueryRun`).
- `SharedGraphProofs`: every theorem is about any workers on any databases, one
  or several, and every suite of steps. `ProtectedGraphsStay` needs that no
  snapshot being worked on names a protected graph. The invariant behind
  `ScenariosAreIsolated` and `SchemaIsAccountedFor` follows a worker that is
  `alone` through its clearing step: after the constraints' SHOW every constraint
  is in the snapshot or was kept by a failed call, after the indexes' SHOW every
  object is, after the DELETE the rows are exactly those the scenario wrote
  (`WorkerKnown`). A call of another worker either leaves its graph as it is or
  takes it out of `alone` (`OthersLeaveAlone`).
  `SharedServerIsPrivate` is the refinement of `PrivateGraph`: a call of a worker
  takes its own part of the abstract state one step or none
  (`WorkerStepIsPrivate`, `PrivateStepIsStep`), and the part of each other worker
  stays as it is or makes the step `Lose` (`LeftAloneIsPrivate`).
  `LoopsAlwaysAdvance` does not ask for `alone` at all: each call of a clearing
  step or drop loop takes it to a later place or leaves it fewer calls, and no
  call of another worker takes it back.
  The measure is the place, then the calls its snapshot still costs, a graph
  listed as offline counting twice, for its ALTER and its DROP. It assumes finite
  `Databases` and `Objects`, as any server has. This is what `ScenarioEnds` rests
  on; that the calls are made is its fairness.
- `ConcurrentExecutorProofs`: `ExecutorTypeCorrect`, `EveryTaskIsAccountedFor`,
  `QueriesFindConnections`, `CallsDoNotHang`, and
  `ExecutorImplementsBatch`, the refinement of `TaskBatch` without its fairness.
  The invariant says that the counts are the cardinalities of the collected
  tasks by outcome (`Counted`), how the total relates to them in each mode
  (`Totalled`), and what the caller's place says of the tasks (`Placed`).
  `CallsDoNotHang` follows: while a submitted task is not done, a query is under
  way, or a thread holds a task and all connections are free, or all threads are
  idle and one can take the head of the queue (`TasksMove`, `HeadOfQueue`), with
  one thread and one connection as with many. `QueriesFindConnections` bounds
  the shortage: while the connections are used up, at most as many queries wait
  for one as there are more threads than connections, and none where there are
  not; it counts the busy threads (`NextWorkers`).
- `ClusterDeployProofs`: `ClusterTypeCorrect`, `IdentitiesAlwaysAgree`,
  `StartsRunFromHere`, `StartsFormQuorums`, `ScriptsImplementCluster`, for any
  number of nodes. That identities agree rests on majorities that meet, and on
  the order of the cleanup: in an undisturbed directory, an identity of node1,
  or any identity while a node runs there, means that a majority has one
  (`FirstIsSettled`, `RunningIsSettled`); a cleanup has emptied node1 before it
  reaches another, and nothing runs where it has been (`CleanupFromFirst`); so
  a script about to launch finds no identity or a majority with one
  (`LaunchIsSettled`), and a bootstrap happens only where there is no identity
  at all (`BootstrapFromNothing`), although a failed cleanup may leave a
  minority of them.
  `ScriptsImplementCluster` maps each step to one of `ClusterIdentity` or to
  none. Beside the above it needs that a token has one home: every token a node
  carries or waits with, or the file of the running script would give it,
  belongs to one directory (`OneHome`) and was issued (`TokensIssued`), and a
  script has no token file before it makes its token (`FileIsNew`). With a file
  name that two scripts share this is false, and so is the refinement: a start
  whose write fails would hand its nodes the token of another directory. That is
  the mutation of the property.
- `FeatureParserProofs`: every invariant of the run, for files of any length:
  `ParserTypeOK`, `StepsStayUnderTheirScenario`, `NoStepIsLost`,
  `StepsAlwaysHaveAHome`, `SkipNeedsAMark`. The inductive invariant (`IInv`)
  says that all lines seen are at or before the current one, that the scenario
  being read starts at the last scenario line, and which modes leave no
  scenario or background to add a step to.
- `ResultAssertionProofs`: `AssertionTypeOK`, `StrongerIsStronger`,
  `RowOrderDoesNotMatter`, and the two halves of the verdict,
  `PassMeansWhatIsWritten` under `ComparableSound` (equal comparable forms mean
  the same up to the order of lists) and `WrittenIsAccepted` under
  `ComparableComplete` (a readable cell has the form of the value it was written
  for, and, if its lists can be sorted, of that value in every order). The heart
  of the proof is that two sequences of rows, each sorted by its texts, are equal
  if and only if there is a pairing of equal rows (`SortedGivePairing`,
  `PairingGivesSorted`). It needs that texts with sorted keys order the rows
  (`EarlierOrders`, by the least key at which two rows differ), that the
  positions the sort gives are a permutation (`PositionsPair`), and that a
  pairing takes no row to a later position (`PairedNotLater`). That the order in
  which the server returns rows does not matter follows without a hypothesis
  (`OrderIgnored`). The two hypotheses are about recursive operators, which the
  prover cannot reach. TLC evaluates the first over all values and tables of the
  run (`FormsAreSound` in `MCResultAssertion`). The second is what
  `MatchingTableAccepted` says of tables of one row, of which the run has one
  for every value in each notation.
- `TestSessionProofs`: `SessionTypeOK`, `SettingsObeyPriority`,
  `OpenDriversAreExplained`, `TestsRunOnTheirBackend`. The invariant of the
  configuration says, while variables are pending, that each setting is already
  its variable's, or still that of the files, or hidden by a value above it,
  which `_build_settings` then refuses; it rests on the leaves forming a tree,
  which the merge and the setting of a key preserve. `SettingsObeyPriority`
  assumes `MeantSound`: that the texts of the environment are among those the
  casts read as they are meant, which TLC evaluates over the texts of the run
  (`TextsAreRead` in `MCTestSession`).

Only model-checked: the liveness properties `ScenarioEnds` and `CallEnds`, of
which `LoopsAlwaysAdvance` and `CallsDoNotHang` prove the part that is safety, and
the fairness part of `ImplementsBatch` (TLAPS does not reason about fairness and
ENABLED), and what the recursive operators of `TckValues` compute.

## 5. Findings

Each is a run whose one property states what a document of the repository says.

1. The guide says parallel workers do not interfere because each has a context
   of its own; all configuration files give all workers the same database, so a
   scenario reads the rows of another. `ScenariosAreIsolated` and
   `SharedServerIsPrivate` say what does hold there: a scenario is isolated from
   its clearing step until another worker changes its graph.
2. `timeout_secs` of `BoltClient` is documented as the query timeout and read by
   no code; the `timeout` of `future.result` never applies to a future that
   `as_completed` has yielded, so a query may run for ever.
3. `manage.sh start -n NODE` is documented to operate on that node only; when
   node1 has no identity it removes the data of every node. The run shows it
   removing data of a node that runs and has just been bootstrapped.
4. The hook of `tests/conftest.py` says that it skips what is marked `ignore`;
   the parser reads the tags of a scenario from one line only, so that an
   `@ignore` above another line of tags is lost. Two feature files of
   `3-Index` are written that way.
5. The steps with a table that do not say "(ignoring element order for lists)"
   accept lists in another order: the comparator sorts all lists for all steps
   (`comparator.py:166`), so that the two steps are one. The docstring of the
   plain one speaks of the order of rows only, and scenarios such as
   `List11.feature:75` test a function whose result is the order of a list.

Seen while modelling, without a run:

- `GDM_TCK_SERVER__BOLT_URIS` with a single address has no comma, stays a
  string, and becomes the list of its characters (`config.py:169`, `:209`),
  though USER_GUIDE.md:223 says that any item can be set so. A password of
  `on` becomes `True`, one of `007` becomes `7`.
- `config/neo4j.toml:2` is to be used with `GDM_TCK_CONFIG=config/neo4j.toml`,
  but a relative path is taken from the directory `config`.
- In distributed mode a user's client and the command runners connect to
  `bolt_uri`, not to one of `bolt_uris`.
- `--features=` writes `_dynamic_features_collector.py`, a name that matches no
  pattern of pytest for test modules: outside of what `test_quick.py` and
  `test_index.py` cover, nothing is collected.
- `has_error` (`state.py:88`) is documented to tell of an unverified error; no
  assertion clears `last_error`.
- `an empty graph` is documented to leave nothing (`step_graph_init.py:25`); a
  SHOW or a DROP that fails is only logged. `SchemaAccountedFor` says what may
  be left.
- `_sort_key` (`comparator.py:176`) is documented to handle lists of mixed types;
  the keys of a map or a list do not compare with those of a scalar, and such a
  list stays as it is. The step that ignores the order of elements then rejects
  it in another order.
- The second of two scenarios of a name replaces the first, which never runs:
  `10-GQL/operator/in.feature:26`, `10-GQL/GQL/cypherquery.feature:62`.

## 6. Not modelled, and why

- The command runners and the parsing of their output (`cli/`): argument lists
  and text; what the steps make of an exit code is in `ScenarioContext`.
- `server/`, `RunSummary`, `execute_on_all` and `get_client`: no code calls them.
- The Allure hooks, the step printer, the summary: output.
- The assertions on plans, schemas and side effects: a query or a walk of a tree
  each, without state; their verdict is in `ScenarioContext`.
- `compute_stats`: arithmetic over latencies, which the models leave out.
- The collection of features: a filter over items, see above.
- `drop all graphType`, which has the shape of `drop all graph`; the standalone
  server, status and logs of the deployment scripts, and their health check,
  which polls and prints; `run_suite.sh` and `generate_report.sh`, which build a
  command line.
- `grpc_client.py`, a stub whose methods raise `NotImplementedError`, and the
  feature files, which are data.

The server and the neo4j driver are external: they are modelled by what the code
can observe, any call may succeed or fail.

## 7. What is left

- The loss of data to a failed identity check of `ClusterDeploy` as a property
  of its own, and how long a killed server lingers.
- The standalone server of the deployment scripts; `drop all graphType`.
- Lists of mixed types as a theorem about `SortKey`, if the prover ever reaches
  recursive operators.
