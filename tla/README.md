# Verification of k8stools

k8stools gives an agent read-only Kubernetes tools: as a library, or served over
MCP. It can also *capture* a cluster to a file (or make the capture from an
ITBench snapshot) and *replay* the tools from that file later. The TLA+ here
models the parts of it where order, failure and concurrency decide whether an
answer is right. Paths below are under `src/src/k8stools/` unless they say otherwise.

## The system

| Component | State | Operations | Talks to |
|---|---|---|---|
| Capture pass, `capture.py` | the capture being built; `unreadable` (kind → namespaces); pods' statuses, specs, logs; which keys exist; version | `_capture`: list namespaces and nodes, each kind of each namespace, per-workload history, per-ConfigMap data, per-pod spec and logs, metrics; finish; `write_state` | the live tools, one call after another; redaction |
| ITBench import, `itbench.py` | a snapshot's pulls behind a `rest_client`-shaped object | choose a pull; work out its events and logs; the same pass over them; drops keys the pull has no batch of; keeps only histories that stand on something | the capture pass |
| Replay, `mock_state.py` | the capture, read once, never written | one query per tool: recorded, not recorded, not readable, or filtered | its clock; the composites call it |
| Replay clock, `mock_state._Clock` | `_pinned` elapsed time, shared by all threads | `pinned()` around every query, `elapsed()` and `age()` for every field | wall clock |
| Binding and clients, `k8s_tools.py` | `_BINDING`; one client global per API group | `configure`, `_resolve_binding`, `_binding`, `use_api_client`, the lazy build in every tool | kubeconfig, in-cluster configuration |
| Live log reader, `k8s_tools.py` | the tail it asks for next | `_read_tail`, `_read_whole_log`: read again until the response fits | kubelet, through the API |
| MCP server, `mcp_server.py` | none of its own | choose live or replay tools, bind at startup or serve unbound, wrap with redaction, run a transport | the binding; MCP clients |
| Live tools, `k8s_tools.py` | none | one or more API reads and what is worked out from them: policies' effects, a workload's history, an object's events, the pods behind a Service, a log's pattern | the clients; the capture pass calls them |
| Composite reports, `composites.py` | none | `namespace_health` and `workload_report`: a dozen reads each, joined by owner, name and label | the tools, live or replayed; the wall clock |
| Redaction, `redaction.py` | none; counts what it replaces | `_redact` down a result's maps, lists, texts and the JSON in them | every result on its way out, and a capture on its way in |
| Capture file, `capture.write_state`, `redact_capture_file` | the file | write, read, rewrite in place | the pass, the replay |
| Mock tools, MCP client, package surface | the built-in capture, loaded once | one-line calls; listing a server's tools | `MockState` |

What is hard here: a capture is a long chain of reads, any of which can be refused
(RBAC, a missing API) or fail, in only one namespace or for one object; a refused
read leaves the same empty list as an empty answer, and every reader of the file must
still tell them apart. Queries of a replay nest and share a pinned clock, and the
server's dispatch may run them on threads. Clients are cached in globals
while the binding they belong to is replaced, by `configure`, by `use_api_client`, or
by a call that finds a server unbound; the kubeconfig behind it can be edited
at any time. A log grows and rotates between the requests of one read. A report takes
seconds to read what changes in milliseconds, and joins what it read by names. And many
answers are worked out rather than read: time buckets, the effect of several policies,
what a scheduler would have done, what changed between two revisions, which words of a
text are a secret. Each has corner cases that decide whether it is true.

What makes each part correct:

* capture and replay: what the cluster said is what replay says; what it refused, or
  was not asked, is *not recorded* or *not readable*, never none (src/README.md:696–713);
* clock: the fields of one query's result are of one moment, time does not run
  back between results, no pin outlives its query, a frozen replay stands still;
* binding: all answers come from the cluster selected, which is the one logged; an
  explicit selection is honoured or fails; a server without a configuration
  recovers once there is one;
* log reader: the newest lines are there, lines are whole, what is left out is said;
* reports: everything there is in one place of the report or its kind is named as not
  read; trouble shows; nothing is called absent that could not be read;
* worked-out answers: each is what its definition says, the API's (policies, scheduling,
  events, endpoints) or the tool's own (buckets, samples, changes between revisions), and
  the same live and replayed;
* redaction: no token or credential the rules know is left in a result, references stay readable, and a second
  pass changes nothing (each with an exception in *Findings*: a JSON text whose escapes follow a setting, a
  token within a placeholder; and no rule looks at a map's keys).

`PROJECT.json` lists the hazards line by line, with the properties that watch each.

## The modules

| Module | What it models |
|---|---|
| `Capture` | `capture._capture`, live or over an ITBench pull, with its custom resources |
| `Replay` | EXTENDS `Capture`: what `MockState`'s queries answer from the finished capture, and the properties of the two together |
| `ReplayClock` | `mock_state._Clock` under nested queries, reports and threads |
| `Selection` | the abstract promise of where a program's answers come from: one cluster selected at a time, each call answered by it alone, a block's selection gone with the block |
| `Binding` | `k8s_tools`' binding and clients, the MCP server's startup, `configure` and `use_api_client`, with a changing kubeconfig; a program's calls refine `Selection` |
| `LogReader` | `_read_tail` and `_read_whole_log` against a log that is written and rotated |
| `Workloads` | `composites`: which workload a pod counts for, how a workload is assessed, a pod's container statuses |
| `Reports` | EXTENDS `Workloads`: both reports, read by read, over a cluster that changes and refuses |
| `Lists` | the code's list comprehensions, `Those(s, T)`, in a form the proofs can speak of |
| `Buckets` | the width of a log summary's buckets |
| `LogSummary` | EXTENDS `Buckets`: `get_log_pattern_summary` and, replayed, `get_logs_for_pod_and_container` with its notes |
| `Policies` | what network policies allow, as a report says it, and as they do |
| `Placement` | why a pod is not scheduled, as a report says it |
| `History` | `get_workload_history`: revisions, their changes, configuration references |
| `Events` | an event through both APIs, the capture, the replay and a report |
| `Joins` | EXTENDS `Events`: a Job's or CronJob's pod, a claim's pods and events, live and replayed |
| `Routes` | endpoints, services and ingress rules, and the report lines about them |
| `Import` | an ITBench snapshot: its pulls, the events at one, its containers' logs |
| `ReportParts` | the logs of a report within their budget of lines |
| `Redaction` | `redaction._redact`: names, forms, placeholders, nesting; a value is its nodes, each at its path |
| `Answers` | one call of one of those tools over a set of inputs, or the redaction of a result, and what the answer must say |
| `MCReplay`, `MCReports`, `MCAnswers` | the captures, clusters and inputs model-checked |
| `CaptureProofs`, `ReplayClockProofs`, `BindingProofs`, `LogReaderProofs`, `OperatorProofs`, `ReportsProofs`, `AnswersProofs` | theorems about them |
| `ListProofs` | lemmas about `Lists`, `FlattenSeq`, `Min` and `Max`, and induction over sequences, for the other proofs |

**Capture.** An action is one API read with everything the code does with its
outcome: `ReadNamespaces`, `ReadNodes`, `ReadKind` (any list), `ReadHistory` (per
workload), `ListConfigMaps`/`ReadConfigMap`, `ReadLabels`, `ListPods`/`ReadPod`,
`ReadMetrics`, `Finish`, and `Fail` (any error that is not a refusal ends the capture
with no file). `phase`, `ns`, `key` and `item` say where the nested loops are; `Advance` is the
loop's step. `told` is a history variable: what the cluster
answered to each list, which no code can see again. `listed`, `unreadable`, `missing`,
`histories`, `details` and `version` are the file. Objects are names; of their contents the
model keeps what replay tells apart (has it statuses, a spec, a log, a
restart). In an import, `Unpulled` keys answer empty and are deleted at the end, as
`itbench.py` 422–446 and 509–572 do. Custom resources come last: the definitions, then the
instances of each type, over the cluster or, with `--namespace`, per namespace, cut at the limit per type
(`MaxCustom`), with a refusal kept as that type's text. `offered` is the history variable for
them. What is captured, and how, is one of `Options`, chosen in `Init`.

**Replay** has no variables: a query is an operator on the finished capture
(`_records`, `_check_readable`, `_decode_all`, `get_workload_history`,
`get_configmap`, `_recorded_log`, `get_custom_resource_status`). Re-anchoring timestamps,
filters by name or label and conversions
of records are left out: they neither add nor drop a record between the places.

**ReplayClock.** The pin is one variable of the process. Each read or write of it is a
step of its own, because a thread can be switched out between any two: `EnterPinned`/
`EnterUnpinned` test it, `Sample`, `Store`, `AgeFrozen`/`AgeLook`/`AgeFresh`/`AgeRead`
are `elapsed()`'s two reads, `AgeLost` is the `None` the second can return, `Leave` the
`finally`. `given`, `latest` and `overlapped` are history.

**Binding.** `_resolve_binding` is split at every look at the outside: the choice of a
context, the current context's name, the load, the fall-back in a pod; `_binding`'s
test and its assignment are two steps; so are `_set_binding`'s assignment of the
binding and its clearing of the clients, and `use_api_client`'s two restores.
`UseContext` and `EditContext` are the environment. `Library = FALSE` is the MCP
server (startup on `Main`, then calls on `Threads`); `Library = TRUE` is a program that
makes its calls one at a time and may call `configure` and enter a `use_api_client` block.
Each context is a cluster of its own. A kubeconfig path is one file, given or not.

**LogReader.** Lines are numbered as written and only their ends, in bytes, are kept: the
response to `limit_bytes` and `tail_lines` is then arithmetic (`Arrived`, `TailFrom`),
with a last line that may be cut short. `_read_tail` counts lines by `str.splitlines()`, which also
breaks a line at a carriage return, a form feed or a Unicode separator: each line has a number of `Pieces`
(`splits`), and `SplitLines` counts them, of a cut line any number that its part may have. `seen` is history: what the kubelet held at
the last request. A restart of the container is a rotation of everything.

**Reports.** `todo` is the list of reads left, in the code's order; an action takes the
first of them and does what the code does with its outcome: read (`ListWorkloads`, `ListPods`, `ReadStatuses`,
…), refused and named (`Refuse`, which is `_recorded`), noted (`Note`), or the end of the call
(`Break`). `Change` is the cluster, between any two reads; `touched` is what it changed, so
that a property can speak of what stood still. What an account may read does not
change during a call. Reads whose data nothing here depends on keep their refusals and
failures only. `ReadTemplates` is `namespace_health`'s read of the history of each workload in trouble, whose refusals
and failures the code swallows. So it does with nodes, a pod's log and the kinds of policy only some clusters
have; those reads are left out.

**Answers.** The tools that work something out are pure functions of what was read, so a
state is a call with its inputs, and its answer. The modules under it keep the data that the
answers turn on: a log line is a time and whether it matches, a peer of a policy the set of
ends it admits, a part of a text its form, name and value, an event of a snapshot the times
it was made, changed and deleted (`Watched` is what a watch records of that). Matching a pattern, a selector's
syntax, and cutting a text into parts are inputs. Properties compare an answer with
a definition written apart from it: `Allowed` and `Fits` are Kubernetes' own rules, not the code's.
The code redacts by recursion. It decides on each node by the node's own text, the step to it and the
nodes beside it, as they were before, so `Redaction` says node by node what becomes of a value, a set of nodes by path,
without recursion: below a text that goes whole there is nothing left, and every other node stays in its place.
`Answers` states what the proofs need of its inputs as assumptions, each of which
TLC shows its own inputs to have.

A text that is JSON is redacted as the value it parses to; if nothing was replaced in it, the code looks at the text again with
the rules for plain text. `LooksAtText` and `ReadRaw` model that look where it differs from the first: a token in a placeholder, which
the first look leaves, and a setting whose value runs on through an escaped line break or quote (`"runOn"`).
What it finds in the document's names and across two of its strings isn't modelled, nor JSON in JSON, nor that a text can be JSON no
more after its escaped quote was cut off.

The policies' comparison is with the API's own selection and types (`Selects`, `Restricts`, `Allowed`), not with the
code's `SelectedPods` and `PolicyTypes`. Whether policies reach a pod on the host's network the
API leaves to the network's implementation; `Selects` says, as the code does, that they don't.

## The runs

| Run | Module | Instance | What it shows |
|---|---|---|---|
| Captures | MCReplay | 2 namespaces, 1 name, 2 custom types, 7 kinds of capture: live, of one or two named namespaces, imports with and without definitions; in each, some reads may answer anything or be refused | replies are as told, over one place and over all; no history is invented; custom resources and logs are not denied; an old reader is not misled |
| ClockThreads | ReplayClock | 2 threads, nesting 2, 4 ticks (2 a second), frozen or not | pins are released; lone queries are consistent; lone time never goes back |
| BindServer | Binding | 1 thread, 2 contexts, 2 groups, a context given or not | one cluster for the server's life; a server started unbound recovers |
| BindThreads | Binding | 2 threads, in a pod | what is asked is what was logged; selections are honoured |
| BindLibrary | Binding | calls, `configure`, `use_api_client` one after another; a kept client and direct ones | clients are on the cluster bound; no answer mixes two; refinement of `Selection` |
| LogReads | LogReader | cap 6, 6 lines of 1, 2 or 7 bytes that `splitlines()` keeps whole or breaks in 3, tails 0, 1, 5, whole logs, 3 requests | omissions are marked, lines whole, the newest kept |
| Reports | MCReports | a Deployment and a StatefulSet of one name, a Job, three pods, 10 sets of permissions, one change during a call | nothing drops out, refusals are named, trouble shows, nothing there is called absent |
| Answers | MCAnswers | some 150,000 calls of thirteen tools | see *What `Answers` compares* |
| Find… | | | see *Findings* |

*What `Answers` compares.* `SummaryComplete` and `BucketsBounded`: a log summary's rows cover the log,
count each line and match once and stay under the limit. `ReplayedLogHonest`: a replayed read is
the live one, later, and its note is right. `PolicyAsEnforced`: a report's policy lines against each
pod and packet. `PlacementAsScheduler`: against the node filters. `ChangesExplain`, `ConfigReach`: against the
templates' details. `RedactionStable`, `RedactionSwept`: against the result's parts. `LogsAccounted`:
lines against the budget, pods against those named. `EventsMerged`: counts and ages against the events.
`RoutesAsServed`: against the endpoints. `JoinsReplayed`: live against replayed. `SnapshotImported`: what an import
reads of a snapshot against what happened in the cluster while it was made.

*Why the bounds are enough.* Two namespaces are what "refused in one, read in the
other" needs, and one name tells none from some; kinds other than the varied ones answer
an empty list, since a list is read and replayed the same way whatever its
key: `varied` takes each of the special kinds (whole-cluster, history-bearing,
per-object, deleted at the end) in one of the captures; a custom type is over its limit with two
instances. Two threads are what any of the
clock's and the binding's races needs; depth 2 is a query in a query; 4 ticks are
two boundaries of a second, so a sample can be older than the one after it, twice. Two
contexts are two clusters to mix. For the reader, the byte cap admits from one to
six lines, a line can be over it, a line in three pieces outweighs the lines before it in the code's count, and three requests reach each of its exits: it
fits, one line is left, the requests are spent. The code makes six.

A report's hazards between reads take one change each: a pod or a workload that came, went or
changed between the two reads that should agree on it. The clusters give every state of
a pod that the assessment tells apart to a pod of each kind of owner; the name shared by two
workloads is `_find_kind`'s ambiguity. For `Answers`, every choice in the code is a choice in the inputs:
widths of 1, 5 and 10 seconds with a day of 20 and 4 buckets exercise the width asked, one from the table and
one past it, where the code has 60; samples are asked for up to one more than `MaxSamples`, where the code has 100; two policies and two pods are what "any one
allows" and "only some selected" need; two nodes, one that fits and one not; three revisions
with one unnumbered and one of another owner; texts of two parts, each form with each value it can have, nested up to JSON in a list in a
map; three pods, two Jobs, two claims and three events against a limit of two, so that ties and the cut happen;
two pulls, one of three batches that are as far apart as a pull's may be, around which an event is made, changes twice and is
deleted, at or between any of them; containers in each state, started or not, with records on both sides of the start.

*Fairness.* Only `Recovers` needs any. `Binding!FairSpec` is weak fairness of each actor's next step inside
a resolution or a call; that calls keep coming and that the kubeconfig settles are
hypotheses of `Recovers`, not assumptions. Nothing else is fair: users, the kubeconfig, the
container, the kubelet and an API call without a timeout may stop. `LoneAdvance` takes the wall clock not to be set back, which the
code's `datetime.now` doesn't promise.

`CHECK_DEADLOCK FALSE` stands where the system stops: a capture ends with its file or an
error, a log read, a report or a call ends.

*Mutants.* Definitions marked "A bug to catch" are plausible wrong versions of the
code (a refusal recorded as none, a pin stored by a query that found one, clients
kept after `configure`, …); each property fails on at least one.

## Findings

Four are runs, each of a property that says what the repository says of itself and that TLC finds violated:

* `FindNamespace`: a namespace left out by `--namespace` replays as having none
  of every kind, though what wasn't recorded should say so (src/README.md:696).
* `FindConfigMap`: a ConfigMap whose own read failed replays as empty (capture.py:447).
* `FindFrozenReport`: composites measure terminations from the wall clock even in a
  frozen replay (composites.py:609; src/README.md:836).
* `FindTwoClusters`: two first calls of a server started unbound can leave clients
  of two clusters behind for good (k8s_tools.py:306; the comment at 242).

Nine more are stated as properties beside those of the same module that hold with an exception for them. TLC finds each violated
when it is added to the configuration named:

| Property | Configuration | What the code does |
|---|---|---|
| `CutTypeNotNone` | Captures | custom resources are cut per type, not per namespace, and replay never reads the mark `truncated`: a namespace whose instances came after the cut has none (capture.py:393; src/README.md:696) |
| `UnreadLogsNotDenied` | Captures | a previous log, or a container's, is denied when the pod's statuses weren't read (mock_state.py:631, 624; src/README.md:704) |
| `JobLogNotDenied` | Answers | a Job has no pods on replay when its pod's labels weren't read (mock_state.py:1001; src/README.md:696) |
| `FewerAsked` | LogReads | where `splitlines()` breaks lines, the tail asked for after a full response can be as long as the lines that arrived (k8s_tools.py:1337; the docstring at 1325) |
| `OlderTold` | LogReads | for the same reason a tail that holds only the start of one line can go unmarked though lines before it were left out (k8s_tools.py:1340; the docstring at 1320) |
| `OtherwiseNamed` | Answers | templates that differ in a container's `resources.claims`, the `optional` of an `envFrom` or a mount's `subPathExpr` have no change named (k8s_tools.py:1888–1932; the comment at 1834) |
| `HistoriesNamed` | Reports | `namespace_health` names no refusal of the histories it reads (composites.py:449; src/tests/test_forbidden.py:4) |
| `RedactedOnceForAll` | Answers | `--password=[REDACTED]` before an escaped quote in a JSON text is replaced and counted again by a second pass, and the text is then JSON no more (redaction.py:432; src/README.md:888) |
| `TokensReplaced` | Answers | a token in angle brackets, or another placeholder, under a sensitive name is left (redaction.py:425; the module's own rule at 30) |

Met while modelling, but not runs of their own:

* replay: a claim's events are not checked for readability (mock_state.py:960);
* clock: `elapsed()` reads the pin twice and can return `None` on another thread's `Leave`
  (mock_state.py:236–237, `AgeLost`); on two advancing threads a query's fields need not be of one
  moment (hence *Lone*);
* logs: a tail that fills six responses loses its newest line (k8s_tools.py:1337), and a whole log whose newest
  line is over the cap is returned empty (1387); a clock that steps back in a log puts lines
  before the first bucket (4539–4545); the note that the sample is from the current instance
  can be wrong after a restart during the read;
* events: an age of zero seconds counts as none, in the capture (capture.py:471) and where a report
  merges (composites.py:902), which fails if both ages are zero: `EventsMerged` and
  `JoinsReplayed` exclude it, `Events` models it;
* history: `ChangesExplain` speaks of what the code compares. Besides what `OtherwiseNamed` shows, the code has no change for a
  mount's propagation, a volume's items, modes and size limits, `tolerationSeconds`, nor
  for labels that a controller sets;
* reports: a pod deleted between the list and its statuses fails the whole of `namespace_health`
  (composites.py:629); a pod whose logs the budget cut in the middle counts as shown (999);
* redaction: `redact_capture_file`'s own envelope passes through the rules for key names
  (capture.py:609–625).

## What is proved

All theorems are checked by TLAPS for every value of the constants that satisfies the
modules' assumptions: any namespaces and names, any threads, contexts and groups.

* `CaptureProofs`. The invariant `IInv` relates, place by place, `told` to the file:
  a place not yet reached is unasked and empty; a refused one is in `unreadable` and
  its list empty; an answered one is listed exactly; a deleted key was refused or
  unpulled; the loops' position says which is which. The properties are not inductive by
  themselves, since they speak of the end only. From it: `Replies`, `AllNamespaces`,
  `Histories` and `OldReader`. `PodsInv` adds that each pod listed is of a namespace and only a
  restarted container has a previous log, whence `Logs`, for pods whose statuses were read; `CustomsInv` relates what was read of each custom
  type to what is filed of it, type by type, whence `Customs`: what replay tells of a type not cut is what was read, a refused one is told refused,
  and of one that is cut the instances told are among those there are.
* `ReplayClockProofs`. `PinInv`: each thread's open depths that set the pin are accounted
  for, and with none open there is no pin; hence `PinCleared`, on any number of threads
  and whatever the interleaving. `LoneInv`: while no other call
  overlaps, the pin is the value this thread's outermost query stored and every
  elapsed time given is that one; with `Bounds` (no sample is later than now) it gives
  `LoneQuery` and `LoneTime`, again with any number of threads.
* `BindingProofs`. `ServerInv` (after startup bound the server, no one resolves again, so
  binding, clients and the log's cluster agree) gives `Logged` and `Honoured` on any
  threads. `SerialInv`, under the assumption `OneAtATime` (a single thread), says
  that between calls clients agree with the binding and inside one call every request is on
  its binding: `Clients`, `OneAnswer`, `OneServer`. `BlockInv` adds what a block keeps of the binding outside it, whence
  `SelectionImplemented`: the calls of a program refine `Selection`, step by step. Without that assumption they are false:
  `FindTwoClusters`.
* `OperatorProofs`, lemmas about the operators under `Answers`, for every input. Widths: `WidthBounds`: whatever the log's
  span, the width asked, the table and the limit, the width chosen gives no more buckets than the limit.
  `TooManyTakeTime` bounds the span from below by the buckets it touches (the first and the last may hold one
  second each); hence `WideKeepsToLimit`. A width of the table leaves one bucket to spare; for one past the
  table, `DayWidthIsWide` shows that the rounding loses less than the spare day, because a
  day has at least as many seconds as the limit has buckets (`BucketsAssumption`). Summaries: `RowsFollow` and
  `RowsComplete`: the rows stand side by side and hold every line and match once; `SpreadEven`: samples are spread
  evenly. Report logs: `TailReadKept`, `ReadLogsKept`, `LogsKept`: pod by pod and container by container, what was read,
  what is left of the budget and what is named as not shown add up. Events: `UnitsStep`, `LineGrows`, `AllMerged`, `EventsTold`: event by
  event, a line's count is the sum of the counts merged into it, and its ages are of the oldest and the newest.
* `LogReaderProofs`. `Held` (the ends of the lines are in order) makes a response that does
  not fill the cap reach the newest line (`Answer`); `Reading` says what a read between two
  requests has (requests left, a tail that is not zero unless zero was asked for, where a
  whole log began). From them `Marked` and `Whole`: a marked tail has at least as many
  lines as were last asked for even after its cut-off line is dropped. `Marked` is of every tail answered before the requests were
  spent, and then too where `splitlines()` breaks no line.

  Where all lines weigh the same, and none of a tail's is broken by `splitlines()`, two requests are enough: a first response that fills the cap tells how
  many lines do not fill it (`FewerLines`, `FewFit`), so no response after
  the first fills it unless a heavier line was written meanwhile, whence `Newests`. `LogAssumption` asks for more than one request; the code's six are
  there for lines of different weights, where the property only says that the requests were spent.
* `ReportsProofs`. The invariant `IInv` says what a call knows at any moment of it. `PlanInv`: the reads
  left are the end of the plan of the kind of call. `ClusterInv`: what is in the
  namespace is of the names and states there may be. `EntriesInv` and `ListedInv`: an entry is of a workload that was there,
  as it was, unless it changed since; and what was there all along has one, or its kind is refused. `OwnersInv`,
  `PodsInv`, `StatusesInv`: likewise for the ReplicaSets' owners, the pods and their containers. `NotesInv`: what is noted is
  what was refused of the reads made. `ChosenInv`: the kind a bare name was resolved to is
  the only one known. The properties are about what stood still, which is what `touched` is for. From
  it: `Refusals`, `NotFounds`, `AllAccounted` (each pod in exactly one line, `GroupOf` and `LooksInto`
  partition them) and `TroubleTold`, for any names, clusters, permissions and changes that the assumptions on
  the constants allow: a read is refused or fails, not both; a ReplicaSet's owner and a pod's are among the names if they are
  workloads; a pod that the scheduler has given a reason for has no containers yet. Of runs that
  ended in the same second the code takes the last listed; the property allows either.
* `ListProofs`. `Those` is `FlattenSeq` of a mapped sequence, and what it keeps, in what order, is
  proved once: `ThoseLemma`, `ThoseStep`, `ThoseMapped`, over lemmas about
  the function `FlattenSeq` is the last value of. `LeastNumber` (by well-founded inclusion of intervals)
  gives `NaturalsClosed` and `SequencesClosed`, induction for a property given as a set instead of an
  operator, which is the form the provers can instantiate. `LoopExists`: a loop written as a recursive function of the
  list's length has the values its step says. `MinIsLeast`, `MaxIsGreatest`; `RankedLemma`, `SortedLemma`: a finite set has one list
  in the order of its times, and what is at which place of it.
* `AnswersProofs`. `WorkedFromCall`: an answer is what the operators make of one of the inputs. That alone turns each
  property into one of operators, for every input: `Placed` (requirements one by one, `RequirementMet`, then terms,
  then taints), `PoliciesSaid` (`EffectSays` and `PortDenied`), `ConfigListed`, `BucketsKept` (from
  `WidthBounds` and that a log in order begins before it ends), `RoutesServed` (a service's
  endpoints are those listed, each pod counted once: `ListedOfService`, `CountedOnce`, `BackendOf`), `ReplayHonest` (moving a log and
  cutting it commute: `MovedLog`, `MovedSince`, whence the note is about the same lines) and `JoinsSame`
  (the newest events are a strict order's first, in which every rank is taken by one event: `EventsRanked`; aging them all
  keeps the order: `AgedInOrder`; of the events newer than one listed there are as many in the list as in the namespace:
  `ThoseOfThose`, `ThoseCount`).

  `SummaryKept`, `LogsShared` and `EventsAddUp` rest on `OperatorProofs`. `ChangesToldOf`: the changes told of between two
  templates name every part in which they differ, and no other (`MapsExplained`, `ContainerExplained`, `TemplateExplained`;
  `ExplainedTogether` puts parts without a common field together), and revisions are told in the order of their numbers
  (`RevisionsTold`). `SnapshotTaken`: the pulls are the snapshot's, each with its own records (`PullsRead`); what a pull's
  time leaves of an event is what the cluster had then, or it is counted as uncertain (`WatchIsFile`, `EventOfFile`); a log is what the latest
  instance wrote, as far as the records tell, and each record is counted (`LogsTold`).

  `RedactedOnce`: where no setting runs on in a JSON text, nothing that has been redacted is to be redacted (`NothingLeft`): a node keeps its place and
  what it is, or is the marker, which is a placeholder and no token; no entry becomes sensitive, and no item follows an
  option's name, that did not before (`NameKept`, `OptionKept`). So a second pass reaches the same nodes and replaces none. The count is zero
  only if nothing changed, since each replacement changes a node (`ReplacementsCounted`, `CountedChanges`). `SecretsSwept`: of a node that is
  not reached nothing is left but the marker above it (`MarkedReached`), and of one that is, no token or key's block, unless
  it is a placeholder under a sensitive name; a reference goes only with the whole of its text, or where a setting runs on.

  What is assumed of the inputs, beyond their types (`Answers` names each assumption): a container's clock does not step back
  (the findings say what happens if one does); `Gt` and `Lt` have one value, as the API requires; a replay does not run before
  its capture; a pod's name is no endpoint's address, and an endpoint without a pod is counted by its address; no two claims
  of a namespace have one name; the pods of a report, and the names it asks the events of, are listed once; an event's first and last times enclose those
  it was seen at; the pulls of a snapshot are further apart than the batches of one, an event of it was made before it changed
  and changed before it was deleted, no two pods in it have one name, and what is known of a container's instances agrees with its records; a result is finite, only
  texts have parts, the marker is no token, no name of an environment holds a key's block and no JSON text is within another.

Only model-checked: `Recovers`, since liveness is out of the prover's reach. Every other property of the passing runs is
stated by a theorem.

The prover takes strings that are empty or have spaces, `CASE` between formulas, `SelectSeq`, `SortSeq`,
`@@` and `:>` as unknown, so modules proved about are written without them (`"subPath"` stands for `"volume (subPath)"`).

## Not modelled

* Encoding and decoding of records and their re-anchored timestamps field by field;
  conversions of the tools that are one read and a copy of its fields.
* Parsing an ITBench snapshot's files, the text of its log lines, and the routes and endpoint slices of
  the API server that is faked over it.
* Matching patterns and cutting a text into its parts (regular expressions): inputs.
* The rendering of reports: usage, grouping of equal failures, notes that don't depend on what was read.
* The capture file's three calls of open, write and close: nothing recovers from a crash
  between them, so there is no promise to check; it is listed as a hazard.
* Choosing tools, wrapping and transports of the server; mock tools, MCP client and package
  surface, which keep no state that matters.

`PROJECT.json` gives each component's status and reason. Which thread the MCP library
runs a tool on is outside `src/`: the models allow any.

## Plan

1. Done: capture, replay, clock, binding and log reader, both reports and the worked-out answers, with the proofs of all
   their properties but the one of liveness.
2. Left: usage and grouped failures of the reports; dual-stack slices that
   disagree.
