# AgentStream: a TLA+ model and its checks

AgentStream runs LLM agents as stream functions.  A Kubernetes operator turns
each `Agent` resource into a `Function` of the function-stream platform; the
function's process (`src/agent`) answers events by calling other functions as
tools over Apache Pulsar; a command line (`src/cli`) talks to the same topics;
a web console (`src/web`) edits the resources.  This directory models the parts
of that code in which several actors meet, checks the models with TLC on small
instances, and proves the main results with TLAPS for every instance.

## 1. Inventory

| component | state it keeps | operations | what is hard about it |
|---|---|---|---|
| RPC manager, `src/agent/pulsar_rpc.py` | `_pending_requests`, the asyncio lock, futures, producer cache, one consumer on `rpc-response-subscription` | `request`, `produce`, `_process_responses`, `close` | coroutines that interleave at every await; timeout against late answer; duplicates and redelivery; a lock held across an await; a thread that survives `close` |
| CLI contexts, `src/cli/context.go`, `common.go` | `~/.ascli/contexts.json` | `context create/use/delete/list/current`, resolution of the connection | several terminals on one file without a lock; a write that truncates first; errors swallowed into a default |
| Agent operator, `src/operator/internal/controller` | Agents and Functions in the API server; watch caches; workqueue | `Reconcile` with up to four API writes, `SetupWithManager` | decisions on stale caches, conflicts, status from an old copy, deletion and re-creation, restarts |
| Agent function runtime, `src/agent/main.py`, `fs_function_tool.py` | sessions, `outputMap`, runner, RPC manager | `init`, `process`, `output_tool`, `close` | concurrent `process` calls that share a map; partial failure of `close` |
| CLI messaging, `src/cli/rpc.go`, `produce.go`, `read.go` | one client per command | `rpc`, `produce`, `read` | subscribe before send; a response meant for somebody else; timeouts |
| Web console server, `src/web/src/server` | none of its own; reads and writes Agents and Functions | list, details, create, update, delete | check-then-act over two API calls; read-modify-replace |
| Web console client, `src/web/src/hooks`, `common`, `components`, `app` | per tab: the page, the query cache, form stores and the React state beside them, mutations under way | navigation, edit, cancel, save, create, delete, the fetches of lists and details, notices | answers that arrive after the page is gone; a refetch that races an older fetch; answers that are lost; forms filled from an old version; two copies of one field |
| Names and references, `agent_controller.go`, `agent_types.go` | none | `normalizeAgentName`, `parsePackageRef`, `GetNamespacedName` | edge cases of strings, collisions |
| Installer scripts, Helm chart, manifests, helper scripts, examples | files, cluster objects | shell sequences, templates | sequences of `kubectl` calls |

How they interact: users write Agents (kubectl, console); the operator watches
Agents and Functions, writes a response topic into an Agent that has none, and
writes the Function whose configuration names that topic; the function-stream
operator (external) deploys the Function as a process of `src/agent`, whose RPC
manager subscribes to the topic; `ascli rpc` and the agent's tools send requests
with `request_id` and `response_topic` and wait for the answer.

What makes each component correct is stated in the sections below, and the
hazards are listed with their lines in `PROJECT.json`.

## 2. Plan

Order: what loses or misroutes an answer first, then what loses a user's
resource, then the edges.

1. `RpcCalls` and `PulsarRPC`: the RPC manager (done).
2. `ContextStore` and `CliContexts`: the contexts file (done).
3. `AgentReconciler`: the operator (done).
4. `WebConsole`: server actions as several processes over the API server:
   read-modify-replace, check-then-delete, forms filled from old versions (done).
5. `AgentRuntime`: `process`, `output_tool`, `init` and `close` of
   `src/agent/main.py` (done).
6. `CliMessaging`: `ascli rpc`, `produce` and `read` (done).
7. `AgentNames`: `normalizeAgentName` and `parsePackageRef` (done).
8. `ConsoleTab` and `FunctionForm`: a tab of the web console, its cache, forms
   and mutations (done).
9. A composition of `AgentRuntime` and `PulsarRPC`, where a session that is
   cancelled cancels the `request` its tool waits in (each half is modelled:
   `Raise`, `RequestCancelled`), and `produce`.
10. A composition of `WebConsole` and `AgentReconciler`: what an edit in the
   console does to a deployed agent's response topic.
11. The time of `read`'s default seek, if a clock earns its states.

Abstract specifications: `RpcCalls` (what `request` promises), `ContextStore`
(an atomic store of contexts), `AgentSessions` (a private session for each
message).  Theorems: every safety property and action property of 1-8 that a run
checks, and the refinements in their safety part (done), then the same for 9 and
10.

## 3. The RPC manager: `RpcCalls`, `PulsarRPC`

A manager is one process with one event loop.  A coroutine runs alone between
two awaits that really suspend, so an action of the model is what one coroutine
does from one suspension to the next: `RequestSent` is `request()` from its
start to `wait_for`, `Complete` is one pass of `_process_responses` from the
return of `receive` to `acknowledge`.  `async with self._lock` suspends only
when the lock is held; `LockFree` is its guard, `RequestBlocks` the case that
suspends.  The awaits of the two `except` clauses on a future (lines 195, 199)
are modelled by what they do: raise what the completed future holds, raise
`TypeError` on `None`, or, after a failed send, wait with the lock held until
the caller is cancelled.  `RequestCancelled` is that cancellation, wherever the
call is suspended: `CancelledError` passes both `except` clauses, so the entry
stays in the dictionary and a late answer finds a cancelled future.  The timer
(`TimerFires`) may also fire when the future has been completed and the call has
not run again yet: the `wait_for` of Python 3.12 then drops the response, and the
call ends in the `TypeError` of its missing entry.  A call's
uuid is the call; a response is a record of the call it names, what decoding
does with it, and which copy it is.

The environment is external: services publish up to `MaxCopies` responses of
any kind per call; the broker redelivers after a reconnect, loses messages
(the topics the operator generates are non-persistent); sends, receives and
acknowledgements fail; callers are cancelled; `close` is called at any moment.
`Faults` chooses which of these happen.

| run | instance | shows |
|---|---|---|
| `rpc_one` | one manager, two calls, one copy each; failing sends, receives and acks, reconnects, cancelled callers, `close` | the inductive invariant `IInv`; `PendingExact` (no key leaked but by cancellation, no unreachable call), `OwnAnswer`; `BlockedOnlyBySend`: a call can go on by itself unless a failed send sits on the lock; a future is completed once; `Promise`: the refinement of `RpcCalls` |
| `rpc_fair` | two managers of one call each, losses, cancelled callers, fair | every call ends, the subscription drains, `AnsweredIsAcked`, `NoAnswerDropped`: a manager that takes the answer to a waiting call of its own hands it over, and only another manager can acknowledge it away; the promise with its liveness |
| `rpc_send_failure` | one manager, sends fail, fair | violated: see section 9 |
| `rpc_timeout_exception` | one manager | violated: see section 9 |

Two calls are enough to have one hold the lock while another waits, or to
confuse two answers; a copy that is redelivered is a duplicate that comes late.
`Drains` is checked without reconnects: a broker that redelivers for ever keeps
the loop busy for ever.

Fairness (`Fairness`): the event loop resumes every coroutine that can run, the
60-second timer fires, and the response loop goes on.  No caller, service or
fault is obliged to do anything.

Proved in `PulsarRPC_proofs`, for any managers, calls, copies and faults: `IInv`
is inductive (`Inductive`), hence `PendingExact`, `LockInv`, `OwnAnswer` and
`BlockedOnlyBySend` (`OnlySendBlocks`); the action properties `CompletedOnce` and
`NoAnswerDropped` (`OwnerDropsNoAnswer`, however many managers share the
subscription); and `Refinement`, Spec => `Promise`.  `PendingExact` alone is not
inductive: that a call is popped only by its own response needs the correlation
part, and that needs `FromBroker` (what the loop holds was published) and
`CallShape` (which futures a call can have at each await, and that one gets
stuck only where sends fail or its manager was closed).
`AnsweredIsAcked` (theorem `Acknowledged`) needs that a thread outlives the
response loop only after `close`.  Everything under fairness is only
model-checked.

## 4. The contexts file: `ContextStore`, `CliContexts`

A terminal runs one command at a time.  `Command` is everything up to
`os.WriteFile`: load, check, change the copy in memory; `Truncate` and `Write`
are the two effects of `os.WriteFile` another process can see between.  `base` is history:
what was written last when a running command loaded the file.  Two
writers may leave a text that does not parse (`"garbled"`): both truncate, both
write at offset 0, and the longer text keeps its tail.  `Crash` kills a process
between two steps.  `Resolve` is `getContextConfig` of the other commands.

| run | instance | shows |
|---|---|---|
| `ctx_serial` | one terminal, the empty name among the names | the refinement of `ContextStore`; the file is readable between commands; commands use the current context; commands finish |
| `ctx_concurrent` | two terminals, crashes | `IInv`: a file that parses names a current context it contains and says what was last written, whatever happened; `OnlyRacesLose`: what overlapping commands can undo of each other's work, and no more |

Fairness: a process that was not killed goes on.

The store is not atomic with two terminals: a save undoes what others saved since
its command loaded the file.  `OnlyRacesLose` bounds that loss.  A write drops a
context only if it was created since, or if it is the one that the command
deletes and that was not current when it was checked; only `use` and a first
`create` move the current context away from what it was then.  An empty file that
a killed command left is refused, never taken for a store without contexts (with
that change to `Readable` the run fails).

Proved in `CliContexts_proofs`, for any number of terminals with crashes:
`Inductive` and `RacesOnly`.  `IInv` has two parts: `ConsistentInv`, a snapshot in
memory never mixes two files, and `RaceInv`, what a command is about to write is
its change of `base`.  For one terminal, crashes or not, `SerialRefinement`, from
the invariant `SerialInv`, which says what the file and the memory hold at each
step of a save; and for one terminal without crashes
`SerialReadable` and `SerialUses` (a command connects with the context last
written as current), which need `ReadableInv` besides.  The assumptions cannot be
dropped: section 9 says what two terminals do, and a killed `os.WriteFile` leaves
a file that no later command can load.  `ctx_killed.cfg` is an instance of one
terminal with crashes, for `SerialInv` and the refinement.

## 5. The operator: `AgentReconciler`

The API server holds one version of each Agent and Function; a write succeeds
only on the version it was read from.  Each write is appended to a watch, in
order; `SyncAgent` and `SyncFunction` move its head into the cache and put the
agent into the workqueue, through the filter `hasAgentLabel` for Functions.
`Reconcile` is cut at its API writes (`SetTopic`, `UpdateFunction`,
`CreateFunction`, `UpdateStatus`): its reads come from caches and its
computations are local, so what lies between two writes is one action.
Configurations are compared by what they are built from: the version of the
spec, the response topic, the version of the tool.  Users create, edit and delete Agents
and Functions, tools appear and vanish, the function-stream operator reports
status, the garbage collector removes Functions whose owner is gone, and the
operator restarts.

| run | instance | shows |
|---|---|---|
| `op_agents` | two Agents, two specs (with and without tool), Functions written by others under the name of one Agent, 3 steps of users and others | `IInv`; `DeployedTopicStored`; `OperatorRespectsAgents`; for the Agent whose name is left alone `QuietMeansDeployed`: no interleaving of stale reads, conflicts and restarts loses the event that repairs; fair: `EventuallyDeployed` |

`Budget` bounds the steps of users; the operator's own steps are not bounded.
A collection that overtakes the Agent's own deletion event is charged to it
too, since stale creates and collections could alternate without end.  Three
steps let a user create, delete and re-create an Agent, or edit it while
another one, or a Function of somebody else's, keeps the one worker busy.

Fairness: the workqueue is first in, first out, hence strong fairness of `Begin`
for each agent; a reconcile goes on, watches deliver, the collector runs.

Proved in `AgentReconciler_proofs` for any agents, specs and budget:
`Inductive`, `TopicStored`, `AgentsRespected` and `QuietDeployed`.  `IInv` has two
halves.  `CopyInv`: a copy of an Agent (cache, watch or Reconcile's variable) is
never newer than the Agent, and one of the same resourceVersion says the same;
this is what makes the guarded write of a topic safe, and it suffices for
`TopicStored` and `AgentsRespected`.

`QuietMeansDeployed` speaks of states in which queue, watches and worker are
idle; it is inductive only with an account of every other state, `RepairInv`:

- `WatchInv`: the last event of a watch is the stored object; where the watch is
  empty the cache is that object.  A stale cache therefore always has its repair
  on the way.
- `OwnedInv`: every version of a Function whose name is left alone carries the
  label and an owner, so `hasAgentLabel` and `Owns` let its events through; one
  that did not would bring no event back.
- `HandInv`: if no event about the agent the worker is at is left, in the queue
  or on a watch (`Undisturbed`), then what the worker holds is what the API server
  holds, and none of its writes can be refused.
- `SettledInv`: an undisturbed agent that the worker is done with is deployed.

At rest every agent is undisturbed and nothing is in hand, so `SettledInv`, with
`OwnedInv` for the label and `WatchInv` for Functions that outlive their Agent,
gives `QuietMeansDeployed`.  Only `EventuallyDeployed`, which needs fairness, stays with
TLC.

`AgentNames` holds the pure functions on names: `NormalizeAgentName`, which must
make an identifier of any Kubernetes name and keep one that is, and
`ParsePackageRef`.  TLC evaluates what the module says of both,
as assumptions of `MCAgentReconciler`, over all names of up to four
characters of five kinds; both are proved in `AgentNames_proofs` for names
of any length (`AllNormalized`, `AllParsed`).  A reference with a second dot loses what follows it, although
the name of a package may contain dots; no text of the repository speaks of it.

## 6. The web console: `WebConsole`

A browser tab runs its server actions one after another, so a tab has one `job`
at most.  A server action is one call of the Kubernetes API (create, delete an
Agent: one action of the model) or two: `BeginDelete` lists the Agents,
`EndDelete` deletes; `BeginUpdateFunction` reads, `EndUpdateFunction` replaces
the version that was read, or fails with a conflict.  `job` is what the action
holds in between.  A page has fetched `dataTools` or `dataItems`; its form
store, `formTools` and `formItems`, was filled when the page was opened and is
filled again only by cancelling an edit.  `getFieldsValue` sends the items that
have a field, hence the intersection in `BeginUpdateFunction`.

Abstracted: a Function is its package and the names of its config items, an
item by the number of dots before its name; an Agent is its tools, a tool's
namespace is given, omitted or the text `undefined`.  Descriptions, topics and
models are values that move with the rest.

| run | instance | shows |
|---|---|---|
| `web_updates` | a tab and kubectl, one Agent, one Function, two packages, 4 writes | `IInv`; `PackageKept`; `OnlyLateUsersLose`: a deletion takes a Function only from Agents that came to use it after the check |
| `web_delete_unqualified` | three writes | violated: see section 9 |

`MaxRev` bounds the writes.  Four are enough for a Function to be created,
deleted and created anew under a waiting update, which then writes.

Proved in `WebConsole_proofs`, for any tabs, resources, packages and bound:
`Inductive`, `PackagesKept` (the resourceVersion is what makes it safe to write
back a package that was read a call earlier; `JobInv` says why) and `LateUsers`;
and, for one tab and no other writer, `SoleInvariant` and `UsedFunctionsStay`,
which two tabs or an omitted namespace break.  `SoleInv` is the strengthening:
all references are spelled out in the store, in the forms and in the update under
way, so `isFunctionUsed` sees every user, and nothing makes an Agent use the
Function while its deletion waits.  `web_alone.cfg` is an instance of that kind,
of two Functions and 4 writes.

### A tab: `ConsoleTab` and `FunctionForm`

`WebConsole` looks at what the server actions do between two API calls; there,
an answer arrives when the action ends.  `ConsoleTab` looks at the browser: a
server action is executed or refused in one step (`Execute`, `Refuse`), and what
matters is when its answer comes, whether it comes, and what the tab does then.

| in the model | in the code |
|---|---|
| `page`, `Go...`, `OtherSucceeds` | the router: `NavMenu`, `ToolCard.handleClick`, `CreateCard`, the callbacks `router.replace(...)` |
| `editing`, `text` | `inEditing` of the details pages and the form store of `AgentView` and `FunctionView`; `handleSubmit` is `ClickEdit` or `ClickSave`, `handleCancel` is `ClickCancel` |
| `query[k]` | the cache of `useResourceList` and `useResourceDetails`: `data`, whether they are `hidden` by an error, and a fetch that is `asked` for or `read` |
| `job[i]` | a mutation of `useCreateResource`, `useUpdateResource`, `useDeleteResource`: `sent`, executed (`written`) or `refused`, or an `orphan` whose answer the tab no longer waits for |
| `store` | the API server |

`older` and `seenOlder` of a query, `wrote` of a job and `fate` are history: they
record which mutations are younger than the data, and what became of one text
that is followed from its typing on.

External, modelled from how `src` uses it: the query library.  Data count as
stale at once; a page that is mounted, or a window that regains the focus,
joins a fetch under way or starts one; `refetch()` drops a fetch under way
unless there are no data yet; a failed fetch keeps old data, which the pages hide
behind `EmptyPlaceHolder`; it is repeated twice (`QueryContext`, any number of
times in the model).  A list that is refused is cached as an empty list.  A form takes its initial values when it is first
mounted.  The callbacks of a mutation run although its page is gone.  Next.js
sends the actions of a tab one after the other; the model executes them in any
order, which includes that.  That the library drops data which no page has used
for five minutes is left out.

`FunctionForm` is the form that creates a Function.  It keeps the chosen module
twice: `form.module` in the form store, cleared when the package changes, and
`form.selectedModule` in React state, which is not; the fields of the config
items follow the second.  `LoadPackages` is any answer of the list query: packages,
their modules and config items may all have changed.  `picked` is history, the
last module chosen and the package it was chosen for.

| run | instance | shows |
|---|---|---|
| `web_tab` | one resource, one mutation at a time, other writers; beside it any lists of two packages with two modules and one item | `IInv`; `RefreshedAfterSuccess`; `DroppedTextStaysOut`; `NoticesTruthful`; `SubmissionConsistent`: the submitted module was chosen for the submitted package, and an item is submitted only while that package has that module with that item |

The two modules share no state: `MCConsoleTab` lets a behaviour move one of
them, so their states add instead of multiplying.  One resource and one mutation
suffice for the races of a mutation with the fetches of its two queries, with
other writers and with orphans; the proofs cover any number of both.

No fairness is assumed: no timeout in the code makes an answer, or its loss, come.

Proved in `ConsoleTab_proofs`, for any resources and any number of mutations:
`TabInvariant`, `Refreshed`, `DroppedStaysOut`, `Notices`; and `FormConsistent`
for packages that change in any way under the form.  `RefreshedAfterSuccess` speaks of queries at rest; it is
inductive only with the rest of `QueryInv`, that no fetch which has already read
can bring back data older than a reported success: `refetch()` dropped it.  That
needs `JobInv`: a save is clicked on a page that shows data, and data never leave
the cache, so `refetch()` finds some.  (With a refetch that joins the fetch
under way the run fails.)  `DroppedTextStaysOut` needs `TextInv`, which follows the
text through the store, the cache and the mutations.  `FormInv` says that the
two copies of the module agree whenever the store's is set, and that it was
chosen for the package the form shows.

## 7. The agent function: `AgentSessions`, `AgentRuntime`

One process serves many messages; each `process` call is a coroutine in a
session of its own, and an action is what it does between two awaits.  The
model may call the output tool any number of times (`OutputTool` writes the
dictionary all sessions share) and other tools (`CallTool`, `ToolAnswers`: what
`RpcCalls` promises of `request`); every await may raise (`Raise`).  At its end
`EndWithText` pops the session's output, repairs it and post-processes it, in one
action because nothing in it awaits.  `stage` is the life of the process:
`init` creates the manager's client and response task (`CreateClient`), subscribes
(`Subscribe`), and creates the session service and the runner, in this order;
`main` closes the SDK's function and then, in `close`, runner, session service and
manager, as far as it holds them (`Held`).  Each of these steps may raise, and
sessions may still run meanwhile.  `open` is what exists, `manager` whether
`self.rpc_manager` is set, `raised` what has raised.

Abstracted: what stripping and `repair_json_output` make of an output or a text is
the function `Repair`, what the jsonnet script makes of it and of the message is
`Script`; the proofs hold for any of both.  In the run `Script` differs between
messages.

| run | instance | shows |
|---|---|---|
| `agent_sessions` | three messages, two of one user, two outputs, two texts, post-processing on | `IInv`; `MapExact`; `PrivateSessions`: sessions do not mix, which the refinement of `AgentSessions` says; `ResourcesReleased` |

Two sessions of one user are what could mix; a third stands for a stranger.

Proved in `AgentRuntime_proofs`, for any messages, users and outputs:
`Inductive`, and from it `SessionsDoNotMix`, `DictionaryOfSessions`, `Released`,
and `SessionsPrivate`: with its one dictionary the process implements
`AgentSessions`, where each message has a session and an output of its own.
`OwnOutput` is not inductive: that the popped entry is the session's own needs
`MapExact`; `ResourcesReleased` needs `Opened`, what each stage has open.

`ResourcesReleased` says of whatever is open when the process ends that it has an
excuse (`Excuses`): its own close raised, or one before it, or, for the manager's
client, subscribing failed.  A close that raises therefore costs nothing that is
closed before it, and an `init` that fails elsewhere costs nothing.  The excuse
of a failed subscription is one the code should not need: see section 9.

## 8. The messaging commands: `CliMessaging`

Each run of `ascli rpc`, `produce` or `read` is a process that starts, dials and
ends.  The request topic is a log: requests and produced messages are appended,
`read` follows it from the place its seek found.  A caller's subscription on its
response topic is its `inbox`; whether it was given a response topic, the same
for all that were, is chosen at the start.  A service (external) may answer a request
from the moment it is in the log, also when the send was reported as failed,
with its `request_id` or without one; the broker may drop the answer for any
subscriber.  `Receive` and `ReceiveTimesOut` may both be possible: Go chooses.

| run | instance | shows |
|---|---|---|
| `cli_messages` | two callers, a producer, a reader, one answer per call | `OwnAnswer`; `SubscribedBeforeSent`: no answer comes too early; `PrivateTopic`: on a generated topic a call never gets somebody else's answer; `EveryCommandEnds` |

Two callers on one topic are enough to take each other's answers.

Fairness: a command that can go on does; the client library's calls return with
an error when their time is over (`Send` has a timeout of its own, `Receive` and
`Next` the 30 seconds of their context).  Services and the broker owe nothing.

Proved in `CliMessaging_proofs`, for any commands and bounds: `Inductive`,
`Correlation`, `NoEarlyAnswer`, `PrivateTopics`.  The argument is in `InboxInv`
(an inbox holds only answers published on its topic, and their `request_id` is
that of the call) and `SubsInv` (who has sent has subscribed).

## 9. Disagreements

Three are shown by runs of their own:

1. `rpc_send_failure`: when sending raises, `request` pops its own pending
   future and awaits it under the lock (`pulsar_rpc.py:199`); the call never
   ends and every later call and response waits for the lock.
2. `rpc_timeout_exception`: a timeout ends in `CancelledError`
   (`pulsar_rpc.py:195`), not in the `Exception` of the docstring.
3. `web_delete_unqualified`: the check before a deletion overlooks Agents whose
   tool omits its namespace (`function.ts:90`).

Others were met while modelling.  The models contain the behaviour; there is no
run for each:

- `context.go:279`: with two terminals a delete removes the context the other
  has just made current (the refinement `AtomicStore` fails with two terminals; it
  is proved for one; `OnlyRacesLose` says what is left with several).
- `common.go:34`: a command that meets a half-written contexts file silently
  connects to the default URL (`UsesContext` fails with two terminals).
- `function.ts:104`: between the check and the deletion another tab makes an
  Agent use the Function (`UsedFunctionStays` fails with two tabs; it is proved
  for one; `OnlyLateUsersLose` says what is left with several).
- `AgentView/index.tsx:87`: saving an Agent turns an omitted namespace of a tool
  into the text "undefined" (`Submitted` of `WebConsole`).
- `function.ts:161`: each save of a Function adds a dot to the names of its
  config items (`Extracted` of `WebConsole`).
- `agent.ts:136`: saving an Agent replaces its whole spec with the fields of the
  form, so a response source, request sources, subscription names or a
  post-processing script set with kubectl are lost; the operator then gives the
  Agent a new response topic (not modelled).
- `FunctionForm/index.tsx:42`: a refetch that removes the chosen module, or its
  package, clears neither the form store nor `selectedModule`; the module that is
  gone is submitted (`LoadPackages` of `FunctionForm`).
- `pulsar_rpc.py:56`: when subscribing fails, the client and the response task of
  the manager exist already, but `main.py:76` never sets `self.rpc_manager`, so
  `close()`, "Close the resources used by the agent function." (`main.py:161`),
  leaves them open (`Subscribe`, `Held` of `AgentRuntime`).
- `AgentDetail/index.tsx:21` and its likes: the callback of a creation or deletion
  takes the tab to the list when the answer comes, wherever the tab is by then;
  what is typed there is lost (`OtherSucceeds` of `ConsoleTab`).
- `AgentView/index.tsx:95`: the form keeps what it was first filled with while the
  page shows later data; Edit brings the older text back (`FetchSucceeds` changes
  no filled form; `ClickCancel` does).
- `AgentView/index.tsx:65`: Save sends `getFieldsValue()` without validation, so
  the rules of the fields ("Description cannot be empty!", line 114) are shown but
  stop nothing (`ClickSave` has no such guard).
- `hooks/index.ts:41`: a list that was refused is cached as an empty list, which
  the pages show like one (`FetchFails`).
- `FunctionForm/index.tsx:58`: the initial values are computed while no module is
  chosen, so a package's default configuration never reaches the form
  (`EmptyForm`, `SelectModule` fill no items).
- `app/workbench/[module]/page.tsx:19`: the page reads `LogoContext` outside its
  provider, so no card of a Function shows its package's logo (not modelled).
- `read.go:45`: the default of `--seek-time` is the local time, which line 55
  parses as UTC; east of Greenwich the default lies in the future, west of it in
  the past, while `src/cli/README.md` has "Read messages from current time".
- `produce.go:121`: a failed send leaves the exit status at success.
- `rpc.go:115`: on a persistent response topic each call leaves a durable
  subscription, whose backlog nobody reads.

## 10. What is not modelled, and what stays with TLC

Every invariant and action property of a passing run, and the safety part of
every refinement, is a theorem.  Liveness is not: the prover handles neither
fairness nor `ENABLED`, so `EveryCallEnds`, `Drains`, `FairPromise`,
`CommandsFinish`, `EventuallyDeployed` and `EveryCommandEnds` are checked by TLC
only.  `produce` of the manager is not
modelled; the producer cache holds no state the other operations depend on.  Of
the web console's client, logos, namespace options and the fields of the form
that creates an Agent are left out, and that unused data leave the cache after
five minutes.  Wording, logging, layout, authentication parameters and configuration
values are abstracted.  The Helm chart, manifests, installer scripts, helper
scripts, generated code and examples are static or sequential and are left out.

## 11. Running

    tlc -config rpc_one.cfg MCPulsarRPC.tla
    tlapm PulsarRPC_proofs.tla

`ctx_killed.cfg` and `web_alone.cfg` are two more instances, of `MCCliContexts` and
`MCWebConsole`: they check what the theorems say under the assumption of a single
terminal or tab, and are not among the runs of `PROJECT.json`.

Each run of `PROJECT.json` names its module and configuration; each property of
a passing run has a mutant there, an operator marked "Mutant" beside the action
it replaces, under which the run fails.

