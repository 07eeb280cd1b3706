# A verification of the HLSL language server

This directory holds TLA+ models of the language server in `src/`, the TLC runs
that check them on small instances and theorems proved with TLAPS.  Every
definition is translated from the source lines `PROJECT.json` names under `map`.

## 1. The system

The server reads LSP messages from a pipe and answers them.  Compiling a shader
is slow and can crash, so analyses run on scheduler threads, each of which owns a
child process that hosts DXC.  The editor may cancel, edit, close and reopen
documents at any time.

| component | state | operations | talks to |
|---|---|---|---|
| scheduler (`analysis/scheduler.cpp`) | a bounded deque, a running map and a thread per worker; `outstanding_`, counters, `accepting_` | `submit`, `cancel_root`, `wait_idle`, `shutdown`, `worker_loop` | runs the closures of the manager; cancels tokens |
| analysis manager (`analysis/manager.cpp`) | an entry per root (version, generation, resident, recovery input, epoch), public metadata, root epochs | `analyze`, queries, `erase`, `after_roots_idle`, `invalidate_include_metadata`, recovery, cache limits, `shutdown` | scheduler, worker processes, server callbacks |
| worker process (`analysis/worker_process.cpp`) | the child handle, `stopping_`, request ids, the request's abort state | `request`, abort by token, deadline or shutdown, `reset`, `shutdown` | the child over pipes |
| worker protocol (`analysis/worker_protocol.cpp`) | the child's cache of translation units | analyze, query, erase, shutdown | DXC |
| dispatcher (`json_rpc/dispatcher.cpp`) | `active_requests_`, cancellation tokens | `dispatch`, `$/cancelRequest`, `cancel_all` | handlers of the server |
| request executor and main loop (`lsp/server.cpp`) | four threads, a queue of requests, the output stream | `submit`, `run`, shutdown | dispatcher |
| server lifecycle and documents (`lsp/server.cpp`) | initialised and shutdown flags, documents, variants, generations, published diagnostics | didOpen, didChange, didClose, didSave, configuration, watched files, publication | manager, dispatcher |
| pipeline validation (`lsp/server.cpp`, `analysis/pipeline_validation.cpp`) | one validation per variant with its stage results | schedule, stage completed, publish | manager |
| language feature requests (`lsp/server.cpp`) | items handed to the client and given back | a handler per request | documents, manager |
| document store and edits (`workspace/document_store.cpp`, `text_position.cpp`) | the text of each document | open, change, save, close; positions and offsets | lifecycle, feature requests |
| configuration (`workspace/configuration*.cpp`) | none; the files | layers, globs, variants, compiler targets; merge of a capture | lifecycle, capture |
| include resolver (`workspace/include_resolver.cpp`) | metadata cache | scan, search, traverse, rewrite | file system, lifecycle |
| framing and messages (`json_rpc/framing.cpp`, `message.cpp`) | the partial frame | read, write, classify | pipe |
| capture (`capture/*`, `hlsl/capture*` requests) | the host's queue and thread; the session's entries, counts and flags | report, connect, disconnect; start, stop, status, preview | host process, configuration |
| DXC front end (`dxc/*`) | COM objects | parse, query, reflect | DXC |
| executables; VS Code client (TypeScript); Visual Studio client (C#) | restart counters, debouncers, freshness trackers, panels | start, restart, refresh | the server |

What is hard in it, and to test: submissions that race a drain; in-place
replacement and eviction of queued work; work that outlives its document; two
processes that must agree on which translation unit is cached; a deadline, a
cancellation and a reply that arrive together; a crash and the recovery it
starts; publication of diagnostics that a close or a newer edit has overtaken; an
answer put together from several locks while the documents go on changing; seven
layers of configuration; macros that decide which file is included; arithmetic at
the ends of ranges.  `PROJECT.json` lists these hazards one by one, at the line
where each bites and with the properties that would catch it.

What makes each part correct:

- *scheduler*: the work of a root never overlaps; at most one analysis of a root
  is pending and an older one never takes its place; barriers and queries wait
  for what they follow; queues stay within their capacity; what is dropped is
  cancelled; `shutdown()` returns and leaves nothing queued; the counters are
  exact; `wait_idle()` returns, and not early.
- *manager*: the parent's entries are what the child caches; the cache is within
  its limit; public metadata belongs to the newest submission of an open root;
  an analysis that was asked for is reported once the worker gets to it; a crash
  is retried once.
- *worker process*: an abort kills only the child of its own request; a request
  starts with a child that owes nothing; pipes are not closed under a reader; no
  child is left after shutdown; every request ends.
- *dispatcher, executor and main loop*: every active request can be cancelled;
  the table is emptied; every request read is answered before `run()` returns.
- *documents and pipelines*: diagnostics on record and on display are of the text
  the document has; a closed document shows none; the newest analysis is
  reported; a validation is never replaced by an older one; a pair of stages is
  reported to fit exactly if it does.
- *feature requests*: an answer is of one analysis, the one its request
  submitted; an item is expanded in the analysis it came from; hints that are
  stale are refreshed.
- *store, framing*: an edit at a UTF-16 position changes what the editor means;
  a frame is read whole or not at all.
- *configuration*: a setting is that of the highest layer that has one; a glob
  matches what it says; a preview of captured compilations adds nothing twice.
- *include resolver*: a directive is found where the text has one, and an include
  that the resolver rewrites is the one the compiler would take.
- *capture*: every report is counted, once; a preview is of what was shown.
- *reflection*: two ranges collide exactly if they share a register.

## 2. Modules

| module | models | uses |
|---|---|---|
| `Scheduler` | `Scheduler` of `analysis/scheduler.cpp` in full, except `wait_idle` | |
| `WorkContract` | what the scheduler promises, without queues and threads | |
| `SchedulerRefinement` | the refinement mapping from `Scheduler` to `WorkContract` | both |
| `MCScheduler` | the submissions of TLC's instances | `SchedulerRefinement` |
| `SchedulerProofs` | theorems about `Scheduler`: types, queues, order, counters, and that it implements `WorkContract` | `SchedulerRefinement` |
| `IdleWait` | `wait_idle` and its condition variable against the threads that decrement `outstanding_`, at the grain of single atomic operations | |
| `IdleWaitProofs` | the theorem that `wait_idle` never returns early | `IdleWait` |
| `WorkerProcess` | the parent's side of one child: `request`, its abort, `reset`, `shutdown` | |
| `WorkerProofs` | theorems: requests are apart, shutdown is clean | `WorkerProcess` |
| `Manager` | analyses, queries, erasures, failures and recoveries of one worker, with both caches | |
| `MCManager` | the first arguments of TLC's instance, and the versions of its stages | `Manager` |
| `ManagerProofs` | theorems: both caches agree and are bounded, a recovery is not repeated, metadata is that of the newest submission | `Manager` |
| `RequestServing` | the reader, the executor, the table of active requests and `run()` | |
| `MCRequestServing` | the first id of TLC's instance | `RequestServing` |
| `RequestProofs` | theorems: requests are reached, answered, and cancelled; messages are understood; the highest layer of a configuration wins; targets are explained | `RequestServing`, `Messages`, `Layers` |
| `Documents` | open documents, their diagnostics and one pipeline, with the handlers of `server.cpp` and the manager's callbacks | |
| `DocumentsProofs` | theorems: records are of the current text and shown, validations only move forward, what is owed to the client is done; reflection is judged register by register | `Documents`, `Reflection` |
| `Features` | the language feature requests, step by step, against edits, saves, settings and inlay refreshes | |
| `FeaturesProofs` | theorems: answers are of one analysis, contexts and hints are current, stale hints are refreshed | `Features` |
| `Capture` | the host's client, the server's session and the capture requests | |
| `CaptureProofs` | theorems: counts are true, queued reports are sent, previews are of what was shown | `Capture` |
| `Layers` | layers of settings, one on top of the other, and the compiler's arguments | |
| `Configuration` | globs, files, groups, variants | `Layers` |
| `Authoring` | the merge of captured compilations into a configuration | `Configuration` |
| `Directives` | lines, splices, comments, directives; rewriting of includes | |
| `Includes` | search of headers, macros, traversal | |
| `CallSites` | the two readers of calls in a text | |
| `TextEdits` | positions, edits, the document store | |
| `Protocol` | frames | |
| `Messages` | what an object is taken for | |
| `Reflection` | register ranges, root signatures, pipeline stages | |
| `MCAlgorithms` | the inputs of the ten modules above and what must hold of each | all ten |

Each component with threads is checked against an abstraction of the one below it,
and that abstraction is what the lower module establishes: `Manager` uses a queue
with the order `Scheduler` keeps and a child of which every request ends and every
failure ends in a fresh child (`WorkerProcess`); `Documents` and `Features` use a
manager in which the newest analysis of a root calls back and a superseded one may
not, and queries wait behind it (`Manager`, `Scheduler`); `RequestServing` uses
handlers that return, and a `wait_idle` that may lose its wakeup (`IdleWait`).  `Documents` repeats
the losses that `Manager` has: `Forget` is a full queue or a left-over recovery that drops what is
pending, `Throw` an exception that is only logged.

### Scheduler

A task is a number, in the order of the `submit()` calls.  A deque is the relation
`ahead`: the queued tasks in front of each one, so that an insertion names the
tasks that stay in front (`BarrierFront` and `QueryFront` are the two searches of
`submit()`; everything else is appended).  Each action is one critical section of
a worker's mutex, or one atomic update between two of them:
`submit()` is `SubmitAfterShutdown`, `SubmitNewer` (in-place replacement),
`SubmitOlder` (dropped as outdated), `SubmitWithRoom`, `SubmitEvicting` and
`SubmitToFullQueue`; `worker_loop` is `Take`, `Skip`, `Begin`, `Finish`, `Settle`,
`Unregister` and `Exit`; `shutdown()` is `BeginShutdown`, `DrainWorker`,
`RequestStop` and `Join`; `CancelRoot` and `CancelToken` complete it.  The token
of a task that was popped and is not registered in `running` yet can be cancelled
by its owner only, which is where a drain could miss it.

### IdleWait

`wait_idle` is `Lock`, `Test`, `Park` and the wake-ups; the threads that make
`outstanding_` zero do it, and notify, without the mutex of the condition
variable.  A queue is only the set of its tasks here.

### WorkerProcess

`CallerStep` follows a request from `request_mutex_` over launch and sending to
its reply; `Fire` and `Kill` are the two halves of an abort on another thread,
`Answer` and `Crash` the child.  `Reset` and the four steps of `shutdown()` run
against all of it.

### Manager

One worker thread runs jobs: analyses, recoveries, queries and erasures.  A job
advances through named steps (`Start`, `Resolve`, `Describe`, `AnalyseReplies`,
`Evict`, `Publish`, `Clear`, `Compile`, `ReportCompilation`, `Report` and the
failure path); callers interleave between any two of them.  `entries` is the
parent's cache and `child` the child's; `CacheCoherent` relates the two.  Epochs,
tokens and recoveries are those of the code.  `lost` names the analyses that were
dropped with nothing newer in their place (`Unreplaced`), or ended by an exception
that the job only logs (`Throw`).

### RequestServing

The reader queues or refuses requests and runs `initialize` and `shutdown` itself;
executor threads run, answer and write.  Request ids are the client's and may be
used again while active.  On its way to its handler a request passes three tests, each
a step of its own: of its token (`TestToken`), of the state of the server (`TestState`), and, if
its method has a handler, of the token again (`FindHandler`); `Return` has the last one.  At the end
`run()` waits for the analyses (`TestIdle`, `Park`), which may oversleep the last
notification, as `IdleWait` shows.

### Documents

Texts are numbered, so that two texts of the same version differ.  The main thread
and one executor thread run handlers (the other executor threads would run the
same one); each analysis is described, submitted and, when the
document is a stage, followed by the scheduling of the pipeline's validation, all
under `analysis_submission_mutex_` except in `did_close`.  The generation is raised
first; an exception after that (`DescribeFails`, a refusal in `Submit`, `CaptureFails`) ends the
handler, and an analysis may be pushed out of the queue (`Forget`) or be ended by an exception
that is only logged (`Throw`); `lost` names the documents whose newest analysis is then nowhere,
or whose diagnostics `did_close` has not cleared, until they are analysed or closed again.  The callbacks run at
any moment.  What the client shows is a record of a version, the text its compiler
diagnostics were found in, and the pipeline validation beside them.

### Features

A shader includes a header; either may be asked about.  A handler is the sequence
of its steps between locks: the snapshot it takes, the submission it makes or finds,
the query that waits in the manager, the texts it reads, the tests it makes at the
end.  The main thread edits, saves, closes, reopens and configures between any two
of them, and the child crashes.  What an answer says is left out: it stands for the
analysis and the texts it was made from, and the properties compare those with what
the request submitted.  Items of the call hierarchy go to the client and come back
with a later request.  Inlay hints are computed in chunks and refreshed by the
server when something other than the text has changed.

### Capture

A host connects to an endpoint with a token, both those of one session or of two;
`report` queues a frame for the thread of the client, which sends it; the session
accepts, reads, counts and retains up to `EntryLimit` distinct compilations.  The
connection may be cut, given up by the client while it waits in the backlog, or
refused; the session may be stopped and restarted at any step.  The requests
`start`, `stop`, `status` and `preview` run under `capture_mutex_`; a preview names
entries of a snapshot that was shown.

### The algorithms

Ten modules translate pure code as operators.  Texts are sequences of characters
(or of bytes, in `TextEdits` and `Protocol`) of a small alphabet with one character
for each case the code tells apart; JSON is a function from keys to values.  Where the
code loops over state, a fold carries a record of that state (`Directives`,
`CallSites`, `Protocol`); searches are quantified.  `Layers`, `Messages` and
`Reflection` have no recursive operators, as they are proved about; what they compute
step by step is a recursive function.

- `Layers` merges files and groups, on top of what the client proposes and under the
  variant and the editor settings.  It ends with what that means: a setting, and its
  origin, is that of the highest layer that declares it; a directory is searched
  before another if a layer lists it where neither that layer, up to there, nor a higher
  one lists the other.  The entry point and the profile are those the compiler finds in
  its arguments, and the origin shown of them is that of what it finds.
- `Configuration` ends with what globs and inheritance mean: a glob matches exactly the
  paths that some assignment of its stars makes it equal to; a variant's setting
  is that of the last of its bases that has it.  A file group is refused when it
  declares a runtime, and files when theirs disagree.
- `Authoring` states that a preview that was saved settles (asked again, it is
  unchanged), changes nothing but what it says, and takes effect: what was captured is on
  top of what the configuration said of the file before, and nothing else.  Not so for
  a file whose group is not the last of it: one that was listed before (`WasListed`), or that has the
  name of another captured file in the root of the workspace (`IsShared`; `NoFileGroupWinsLast`).
- `Directives` compares the scanner with the text after the removal of splices and
  with a space for every comment, as the compiler reads it.  Excepted are a line that goes on
  behind a comment with a line break (`SourceMacrosAreFound`), a line of more than `LineLimit` bytes, and a
  comment that begins between `<` and `>`: of `#include <a//b>` the scanner loses the end, and the
  include; `Includes` compares what the resolver rewrites with a preprocessor that
  reads the same files (`Preprocess`), but for what it reads below a file
  that it has entered before under the same name (`FirstReads`; `NothingIsEverGuessed`), and the digest of dependencies with what a
  change of any candidate would make of it.
- `CallSites` compares the two readers with each other at every cursor of a text, unless a
  comment or a literal stands between template arguments and the parenthesis: of
  `f<a,b>/**/(c,d)` the backward reader skips the comment (`server.cpp:1462`), the forward
  reader, which skips only white space (`server.cpp:1667`), takes the angles for comparisons and counts
  their comma (`Interrupted`).
- `TextEdits` keeps the editor's text beside the server's, in UTF-16 units.
- `Protocol` writes frames and reads them back, whole and cut off at every byte.
- `Messages` takes an object for a message, and compares the object with what the
  message says; ids are null, strings and integers, and among these those that need
  the 64th bit.
- `Reflection` compares ends of ranges with sets of registers, a root signature's
  ranges with what a stage needs, and the stages of a pipeline with each other.

`MCAlgorithms` has one variable, the input.  Each initial state is one input of one
part, and the invariants say of every input of their part what the part makes of it.

## 3. Runs

A property is a conjunction of named parts where several are about one question;
each part has its own comment at its definition.

| run | instance | what it shows |
|---|---|---|
| `scheduler` | one worker, queue of 2, two roots, 3 submissions of two versions and every priority, cancellations, a shutdown | order of a root's work, accounting, and `WorkContract` is implemented |
| `scheduler_stops` | two workers, 2 submissions, fairness | `shutdown()` returns, queued work ends |
| `idle_wait` | two workers, two waiters, 3 tasks, a queue of 1 | `wait_idle` never returns early, and a waiter that is parked in time is woken |
| `idle_wait_lost` | one worker, one waiter, one task | a wake-up between the test and the parking is lost (finding) |
| `request_serving` | two ids, two threads, a queue of 1, 3 requests, fairness | cancellation reaches every request and wins over its handler, every request is answered, and `run()` returns, but for the wake-up that `idle_wait_lost` finds lost |
| `worker_process` | two callers, 2 requests, 2 children | aborts, crashes, resets and shutdown in every order |
| `manager` | a document of versions 1 and 3, a stage of version 1, a cache of one unit, 3 calls, 2 faults, fairness | both caches agree, metadata is current, crashes are retried once, and analyses are reported, unless a newer one follows or they are lost in a way that is named |
| `manager_fatal_stage` | one stage whose compilation always kills the child | it is retried for ever and never reported (finding) |
| `documents` | two documents, one a stage, 3 events, one change of context, one fault | records and displays belong to current texts, what is owed is done unless it was lost |
| `features` | a shader and its header, a request of each of seven kinds, two events | answers are of the analysis that was submitted or of that of their item; hints are refreshed by a client that supports it |
| `capture` | two sessions, two reports, a table of one, a queue of one | reports are counted once, queued ones are sent, previews are of shown entries, joins return |
| `algorithms` | about 371 000 inputs of `Layers`, `Configuration`, `Authoring`, `Reflection`, `Includes`, `Directives`, `CallSites`, `TextEdits`, `Protocol` and `Messages` | shaders are compiled as configurations, variants, arguments and captures say, reflection is judged by registers, and texts are read as they are meant |

### Bounds

Every bound is a constant with `Max` in its name or the capacity the code is
configured with.  They are chosen so that the cases of the code occur: a queue of
two with three submissions of two roots has a replacement, an eviction, a refusal
and an insertion in the middle; a cache of one unit with two roots evicts at every
change of root; three calls and two faults are an analysis, a newer one, a query
or a recovery, with a failure in the recovery; a recovery has a version less than its
analysis, so that versions 1 and 3 let one that is left over win over an analysis (the stage
has only version 1, `StagesHaveOneVersion`, for TLC's sake); two children let one be killed late
while the next is in use; three requests with two ids reuse an id twice; three
events are an opening, a change and a close, or an opening, a close and a
reopening, with a change of context on either thread; in `features` two
events fall on the two sides of any step of a request, and the handlers that are left out
(completion, signature help, document symbols, semantic tokens, memory layout, macro
expansion, compilation information, the preprocessor explorer, definition, references and
renaming, the items of the call hierarchy, data flow, visualization, hovers with links)
consist of steps that those of the run have too, but for the choice of the roots that
references and renaming ask and the settings that the preprocessor explorer submits with; the
theorems hold for all of them; a table of one entry and a queue of one
frame overflow with the second report.  In `request_serving` the ids are alike, and in
`manager` the compiler's arguments, so TLC follows only the behaviours in which the first request,
or the first analysis, has a given one (`FirstIdIsGiven`, `FirstArgumentsAreGiven`): all others
are these with the names exchanged, of which no property and no fairness condition speaks.  The theorems of
section 5 hold without the bounds.

In `algorithms` the bounds are lengths: paths and globs of up to four segments or
characters, where a remembered star has to give way; up to three layers that disagree; texts
of up to three fragments of code; edits of two changes in a text with a surrogate
pair and a CRLF; streams of three payload bytes cut at any byte; registers from 0 to 3, so that the
end of the register space is within reach of every range.  `LineLimit` of
`Directives` and `MaxRegister` of `Reflection` stand for 256 KiB and 2^32 - 1.

`CHECK_DEADLOCK FALSE` is set where the system rests: with all submissions made and
all work done, these instances have nothing left to do.  That they do not rest
earlier is what the liveness properties say.

### Fairness

Weak fairness is assumed of threads that can go on: the operating system runs
them.  In `Scheduler` a work function owes its return only once its token is
cancelled (it tests the token, and the child it waits for is killed by the abort),
so `shutdown()` is shown to return under that assumption alone, and `QueuedWorkEnds`
states the rest as its own premise.  Mutexes are released and granted: where one is
contended for ever (`IdleWait`), strong fairness of `Lock` stands for it, as the
platform's mutexes are not starved by a finite number of threads.  In
`WorkerProcess` the deadline passes, since every request has one, and the child
owes nothing.  In `Manager` every request to the child ends, which is `RequestsEnd`
of `WorkerProcess`; callers owe nothing.  In `RequestServing` handlers return
and analyses end, because they wait only for requests with deadlines; no spurious wake-up is
owed.  In `Capture` the two threads
go on, sending and reading end by their time limits, and hosts and requests owe
nothing.  `Documents` and `Features` have safety properties only: what must
eventually be shown is stated of the states in which all is quiet
(`NewestIsReported`, `StaleHintsAreRefreshed`).

## 4. Findings

1. `idle_wait_lost`: `worker_loop` decrements `outstanding_` and notifies without
   `idle_mutex_`, so both can fall between the test and the parking of `wait_idle`.
2. `manager_fatal_stage`: `recovery_attempted` is cleared before the compilation is
   asked for, so a compilation that kills the child is recovered, and suppressed,
   for ever.

### Divergences

These definitions state what a document or a test says and TLC finds them violated
on the instance given; they are kept as definitions, without a run of their own.

| definition | instance | what happens |
|---|---|---|
| `UnavailableIsDisplayed` of `Documents` | `Document = Staged = Editable = {d1}`, `Opened = {1}`, `MaxVersion = 2`, `MaxEvents = 3`, `MaxRevisions = 1`, `MaxFaults = 1` | the publication of a validation (`server.cpp:6430`) replaces the analysis-unavailable diagnostic by an empty list although no analysis has succeeded; `server.h:436` says that a successful analysis replaces it |
| `StagesAreCurrent` of `Documents` | `Document = Staged = Editable = {d1, d2}`, `Opened = {1}`, `MaxVersion = 2`, `MaxEvents = 3`, `MaxRevisions = MaxFaults = 0` | a closed stage is compiled at version 0 (`server.cpp:6233`), which the scheduler drops as older than a queued compilation of the open text; nothing completes the validation; `docs/shadertoolsconfig.md:377` says that closing a stage reloads its saved contents |
| `RangesAreOfAnalysedTexts` of `Features` | `Served = {"prepareCallHierarchy"}`, `Requested = {shader}`, `First = shader`, `MaxEvents = MaxRequests = 1`, `RefreshSupport = TRUE` | a header is changed in the store before the shaders that include it are submitted; a request in between cuts ranges of the old analysis from the new text; `docs/call-hierarchy.md:407` promises `ContentModified` |
| `ContextsAreOfTheirAnalysis` of `Features` | the same | the analysis of a new configuration is handed to the manager (`server.cpp:6186`) before its submission is recorded; a request that asks in between gives items of the new analysis the older context; `docs/call-hierarchy.md:118` |
| `SettledRangesAreOfAnalysedTexts` of `Features` | `Served = {"compilationInfo"}`, `Requested = {shader}`, `First = shader`, `MaxEvents = 2`, `MaxRequests = 1`, `RefreshSupport = TRUE` | a closed document keeps its entry and its discarded buffer in the store, and ranges are cut from it, while the analysis read the file; the comment at `server.cpp:4831` |
| `NothingIsEverGuessed` of `MCAlgorithms` | the inputs of `algorithms` | a file emitted before is not visited again (`include_resolver.cpp:842`): an include in a file below it stays resolved although a macro it is spelled with was redefined since, and what is read only the second time may be missing from the dependencies; `docs/shadertoolsconfig.md:142` says that such macros are not guessed |
| `SourceMacrosAreFound` of `MCAlgorithms` | the same | a line break in a block comment ends the directive (`include_resolver.cpp:175`), which the compiler reads to its end behind the comment; `tests/workspace/include_resolver_tests.cpp:581` has it that comments keep source definitions authoritative |
| `NoFileGroupWinsLast` of `MCAlgorithms` | the same | a captured file in the root of the workspace gets a group whose path is a glob of its name in every directory (`configuration_authoring.cpp:441`, `configuration.cpp:368`): of captures of `d/a` and `a` the group of `a` is the last of both; `docs/runtime-capture.md:189` asks for variants to avoid just that |

One more is in `Messages` and needs no run.  `parse_id` (`message.cpp:25`) asks
`is_number_integer()` first, which in the library also holds of unsigned numbers, so the
test of their range in lines 28 to 32, which would refuse an id of 2^63 or more, is never
reached: such an id wraps around (`"wrapped"` of `ParseId`), and the answer goes out
under another one.  `MessageIsUnderstood` is about all other ids.

Hazards met on the way that no document contradicts are in `PROJECT.json`, with a note or
with what a property excepts: a comment between template arguments and parenthesis, a
recovery left over from before an `erase()`, and others.

## 5. Proofs

The theorems hold for every value of the constants: any number of workers, threads,
callers, roots, requests and children, and any capacity (but `Features` has two
documents, whatever the constants are).  Each states a property that
a run checks on a small instance, except `TypeCorrect` and `StructureCorrect`, which
the others rest on, and those about pure code.  The latter, which end the table, are about
all inputs: each states the operator that the run `algorithms` evaluates for the inputs of
their instances, under the property that the table names.

| theorem | property | says |
|---|---|---|
| `SchedulerProofs!OneAnalysis`, `BarrierOrder`, `QueryOrder`, `QueueOrderCorrect` | `QueueOrder` | one pending analysis of a root; no barrier overtakes earlier work of its root, and no query an earlier pending analysis |
| `SchedulerProofs!WorkAccounted` | `WorkIsAccountedFor` | queues stay within their capacity, dropped work is cancelled, a drained worker stays empty, `outstanding_` is what is neither over nor dropped |
| `SchedulerProofs!ContractKept` | `KeepsContract` | every step of the queues, the threads and `shutdown()` is a step of `WorkContract` or changes nothing in it |
| `IdleWaitProofs!IdleSafety` | `Safety` | `wait_idle` does not return while work submitted before the call is unfinished |
| `RequestProofs!ServingSafety` | `Safety` | requests in progress, and only they, can be reached by a cancellation, and `run()` leaves none unanswered |
| `RequestProofs!CancelledAnswered` | `CancellationWins` | a request that is cancelled is not started and gets no result; past the first test it may still be refused for the server's state or its method |
| `WorkerProofs!RequestsApart` | `RequestsAreApart` | late aborts, left replies and aborted children do not touch other requests |
| `WorkerProofs!CleanShutdown` | `ShutdownIsClean` | pipes in use stay open, no child is left running |
| `ManagerProofs!CachesCorrect` | `CachesAreTrue` | a worker knows what its child has cached, and caches no more than its share |
| `ManagerProofs!RecoveryOnce` | `RecoveredOnce` | what fails as a recovery is not recovered by that failure |
| `ManagerProofs!SharedCorrect` | `SharedStateIsTrue` | the metadata of a root is that of its newest submission, and an erased root has none |
| `DocumentsProofs!RecordsCorrect` | `RecordsAreTrue` | what is on record of a document's version is of its text, and on display |
| `DocumentsProofs!NewestStays` | `NewestValidationStays` | no validation is replaced by an older one |
| `DocumentsProofs!NothingOwed` | `NothingIsOwed` | when all is quiet the newest analysis of an open document has been reported, and nothing is shown of a closed one, unless it was lost to a full queue or an exception |
| `CaptureProofs!CountsCorrect` | `CountsAreTrue` | what a session counts adds up, and to no more than was reported to it |
| `CaptureProofs!QueuedReportsSent` | `QueuedReportsAreSent` | `disconnect()` drains what `report()` queued, to the endpoint it was queued for |
| `CaptureProofs!PreviewsCorrect` | `PreviewsAreOfShownEntries` | a preview is of entries of the session they were shown in |
| `FeaturesProofs!AnswersOfOneAnalysis` | `AnswersAreOfOneAnalysis` | answers are of the analysis their request submitted, items are expanded in their own analysis, incoming calls were true at one moment |
| `FeaturesProofs!AnswersCurrent` | `AnswersAreCurrent` | contexts and hints are of the moment they are answered, unless a change that invalidates the hints has just begun |
| `FeaturesProofs!HintsRefreshed` | `StaleHintsAreRefreshed` | with a client that supports it, stale hints on display are about to be refreshed, or have been since they were asked for |
| `RequestProofs!ConfigurationCorrect` | `HighestLayerWins`, of `TheHighestLayerWins` | every setting and every origin is of the highest layer that declares it, and include directories are searched in the order of the layers |
| `RequestProofs!TargetsCorrect` | `TargetIsExplained`, of `TargetsAreExplained` | the origin shown of the entry point and of the profile is of the value the compiler gets |
| `RequestProofs!MessagesCorrect` | `MessageIsUnderstood`, of `MessagesArrive` | a message says what was sent, and a call that is refused is refused under its own id |
| `DocumentsProofs!CollisionsCorrect` | `CollisionsAreOfRegisters`, of `ReflectionIsJudged` | two resources are reported to collide exactly if they share a register |
| `DocumentsProofs!CompatibilityCorrect` | `CompatibleMeansCovered`, of `ReflectionIsJudged` | a root signature is compatible only with resources whose registers it provides to the stage; an issue is of a resource that no one parameter provides, and says why |
| `DocumentsProofs!PipelineCorrect` | `PipelineFits`, of `ReflectionIsJudged` | a pipeline has no issue exactly if each stage is given what it reads and shares what it has in common |

The last six are in the modules of the components that use these parts: what is asked of
the server goes through messages and configurations, what is on record of a pipeline comes
from reflection.

### Assumptions

`SchedulerOptions` (at least one worker and a queue place for each: the constructor
throws otherwise) and `SubmissionAssumption` (every root has an owner among the
workers); `IdleAssumption` (finitely many
workers, at least one, and a queue place); `ExecutorLimits` (a thread, an id, a queue of at least one
place); `ProcessBounds` (a caller, and callers are not called "none" or "shutdown",
which `holder` uses for nobody and for `shutdown()`);
`ManagerAssumption` (finitely many roots, at least one; room for a job and for an
entry; a stage is not a document); `DocumentsAssumption` (stages and opened documents are
documents, of which there is one; a client gives versions from 1 on);
`CaptureAssumption` (finitely many invocations; limits are at least one);
`FeaturesAssumption` (the shader is not the header, requests are about one of them, and the
client supports the refreshing of hints or does not)
and `ServedAssumption` (requests arrive for handlers that have a plan).

The theorems about pure code assume what their inputs are.  `MaxRegister` is a natural
number, ranges begin at a register and have a length, of which 0 is unbounded (`IsRange`);
parameters are of the kinds there are (`IsParameter`), the resources of a shader have
different names, and the outputs of a stage different semantics (`IsStage`), as a compiler gives them.  A layer has settings and an origin, and no scalar is called
"mappings" or "includes" (`IsLayer`, `IsSettings`), because the origins of these two stand
beside those of the scalars; the keys of scalars are fixed in the code.  A value in an object is
not "absent".  In the additional arguments of `TargetsCorrect` an option is followed by
a value, or by nothing (`ValuesFollow`).  It is needed: of `-E -T lib` the compiler takes
`-T` as the entry point, while the search for origins
counts it as an option (`server.cpp:43`).

### Queue order

The three order properties are not inductive.  An insertion into the middle of a
deque is right only if `ahead` is a total order of the queue it is made in, if the
tasks not yet submitted are nowhere in it, and if a task that was taken has left.
`Structure` says this: `FreshTasks`, `OrderedQueues` (a strict order on each
queue), `TakenTasks` and `ClosingSteps` (what shutdown has drained so far).
`IInv == TypeOK /\ Structure` is inductive by itself (`InitInvariant`,
`StepInvariant`, one lemma per action or group of actions).  On top of it
`OrderInvariant` shows the three order properties together, because the
one-analysis property is what makes an in-place replacement keep the others: the
steps are of two kinds, those that only take tasks out (`SettledKeepsOrder`: what
remains is ordered as before) and `Submit` (`SubmitKeepsOrder`: by what the call
puts in front of the new task).  The operators on queues have lemmas of their own
(`FirstIsFirst` by a descent over finite sets, `ErasedOrder`, `InsertedOrder`,
`ReplacedOrder`, `FrontIsPrefix`).

### Accounting

`AccountInv` is `QueuesBounded`, `DroppedWorkIsCancelled` and
`DrainedWorkersStayEmpty`, inductive together with `IInv`: a worker that was drained
stays empty because no submission gets past a cleared `accepting_`, and a queue that
is full only changes by a replacement or after an eviction.  `CountsMatch`, which
restates `OutstandingIsExact`, comes on top.  A lemma per kind of step says what it
does to the statuses (`TakeEffect`, `LoopEffect`, `DiscardEffect`, `RefuseEffect`,
`NewerEffect`, `AdmitEffect`), and the counts follow from the cardinalities of the sets
that change by one element.

### Refinement

`SchedulerRefinement` maps each status of a task to a phase of the contract.  A step
that takes a task implements the contract's start only if nothing the contract orders
before it is pending: that is `QueueOrder` together with the single owner thread of a
root.  That a root's work is over when the next begins needs `HeldInv`: running work is
held by a thread, one each, and the task of a thread that is done with it is over.
`Submit` is a refusal (`RefuseImplements`) or an entry, with what it replaces or
evicts (`EnterImplements`); the rest stutters.

### wait_idle

A waiter returns when `outstanding_` is zero, and must then owe nothing that was
submitted before its call.  The invariant: a task is in one place (`OnePlace`:
one queue, one thread, or the hands of a submission that enters it), `outstanding_` is
the number of unfinished tasks (`Counted`), and what a waiter waits for is earlier than
its call (`OwedIsEarlier`), so that a task that is still being entered is never among it.
A zero then says that nothing is unfinished, what is owed included.

### Requests

An answer is certain only if a request is always somewhere: `InHand` says that it is in
the queue, in a thread's hands or the reader's until it is written; `InlineIsApart`
that the one the reader runs is nobody else's; `Left` that threads leave only when
nothing is queued.  `run()` joins all of them, so nothing can be in hand when it
returns.  That the table holds no stale entry is what makes the erasure in
`finish_request` complete: an entry that names a request has its id.  `Reached` adds,
for `CancellationWins`, that the request the reader runs is never cancelled, because it is
the reader that cancels; `Withheld` is what each step leaves to a cancelled request.

### Worker process

`Talking` says that the child a request talks to is `child_`, or was taken by
`shutdown()` and killed; `AbortsAreTimely` that an abort fires during its request, at
whose end its child is closed, for ever; `Children` that children are numbered in the
order of their launch, so that a closed one is never `child_` again, and that a child
owes at most one thing; `IdleIsClean` that between requests it owes nothing; `Closed`
that after `shutdown()` has taken the child none is launched.  A callback that kills late can
then only hit a closed child.  `TalkEnds` is the common end of a request.

### Caches

`Coherent` is the agreement of the caches, which holds except after a crash nobody has
noticed and until a failure has been handled.  It does not need the queue, the epochs or
the token: a job changes both caches in one step (`AnalyseReplies`, `Evict`,
`EraseEntry`) or loses everything (`HandleFailure`, `AnswerFails`, `EraseFails`), and
`LostKeeps` is what these three have in common.  The bound needs to know where one entry
too many may be (`Bounded`: from the reply of the child until the eviction, or the
handling of a failure, is over), and both need the form of the candidate
(`CandidateIsNew`), which becomes an entry by either path.  With `RecoveriesFollow` (no
recovery is left to schedule during an analysis), a failure schedules only what it
chooses itself, which gives `RecoveryOnce`.  `ChildKind = ExpectedKind` follows wherever
an analysis is asked for: the reset for a reply the parent did not expect is defensive.

### Metadata

Work finds out at its end whether it is still wanted: by its epoch, which every
submission and every erasure raises.  That is enough only if no work, wherever it is, has
an epoch that was never given out, and if an epoch that is still the newest of its root
means that the root has not been erased.  `TrueOf` says both, and `SharedInv` says it of every job in
the queue, of the running one, of the candidate and the entries of the cache, and of what
is left to recover.  Callers only move epochs forward, and with each one
what is asked for (`Advance`, `WorkStays`); the worker only passes on what it has
(`WorkerWorks`: an entry is of the entry or the candidate before it, a recovery of an
entry).  What the queue's searches, insertions and removals return are lemmas
(`SearchFacts`, `SubmittedFacts`, `WithoutFacts`), so that what is queued was queued before or
is the new job.  The removal of a root's jobs is a recursive function; that
there is one is shown by the least length at which there would be none (`KeptExists`).

### Documents

A client that reopens a document may use its versions again, so that the version of a
result says little.  `TrueWork` is what makes `analysis_completed` right nevertheless: a
queued, running or described analysis whose generation is still the newest is of an open
document, and if it is of the version there is, it is of the text there is.  An edit keeps
this because it raises the version, a close because it raises the generation, and an
opening because all work on a closed document is of generations gone by (`WorkStays`);
from being described to being submitted, a thread holds `analysis_submission_mutex_`
(`IsThread`).  `RecordsFollow` and `ShownFollows` then say of the record and of the display what
is to be shown of them.  Two further facts close the argument: a thread that clears the
display of a document on behalf of `did_close` finds it closed, as only the main thread
opens documents (`StaysClosed`); and documents that are no stage have no validation beside
their diagnostics (`PipelineFollows`), so a publication that removes one does not leave it
on display.  The same conjunct bounds the generation of every validation, which makes the
test in `pipeline_analysis_completed` enough for `NewestStays`.

`NothingOwed` needs to say where the newest analysis of an open document is as long as it
is not reported.  `Promised` lists the places: recorded or reported as unavailable, in the
queue, on the worker, with the thread that is about to submit it, or, when the
version has just changed, next on the main thread.  A step takes it from one place to
another, or makes it that of a newer generation or version, which is then in one of them.
Three parts of `OwedInv` exclude that it gets lost between them.  `QueuedIsOfThis`: what is queued
is of a version the document has had since it was opened, so that the manager's test for an
outdated submission, which goes by the version alone, refuses nothing but
what the main thread is about to replace.  `SubmittedIsNewest`: what a thread is about to
submit is of the newest generation, and no older thread's is.  `RootsOpen`: only the
main thread closes documents, and none that it still has to analyse, so that `did_close`
is not stopped before it has cleared the display (`Clears`).  What breaks the
promise is in `lost`: every step that drops the newest analysis (`Forget` and `Throw`, of the
documents `Concerned`) or ends a handler early (`Abandons`, in `DescribeFails`, `Submit` and
`CaptureFails`) puts the document in, and it stays there until it is described again, which
gives it a new newest analysis (`Describe`), or until `did_close` clears its display.  `Owed`
is about all the others.

### Capture

A report is a frame, which the host queues, takes in hand, sends into the backlog of a
pipe or socket, and the session's worker reads: four places that a disconnect, a reset or
a full queue can empty.  `CountedOnce` adds them up: what was accepted, what was rejected and
what is still on its way (`Flight`) is never more than was queued, of each invocation and of the
session as a whole.  A new session starts from nothing because its token is new:
nothing on its way can have it (`Issued`).  `DueIsUndelivered` says that what is due to be sent
is exactly what is queued or in hand, for the connection the client has, so that when the
sender has ended with an empty queue, nothing is due (`Places`).  The steps are of two kinds:
those that bring no frame in (`NothingEnters`, `MovesKeep`) and `Report`, `Receive` and
the start and end of sessions, which have lemmas of their own.  Sums over invocations are a fold; what it
computes is fixed by its recursion (`SumUnique`, `SumExists`, each by a smallest set for which
it would fail), and `SumOfOneMore` is all that the steps use of it.

### Features

A request that is at some step of some plan may be anywhere among 23 handlers, so the
proof first says what is common to plans: `WellFormed` (each loop has a way back and a
way out) gives `AfterGoes`, where a request is behind a step; `Moves` is a
step that alters some fields of the request and only adds to its results what the manager has
built, and a lemma for each part of the invariant says which of those steps keep it.  What
is particular to a plan is looked up in it (`OwnPlans`, `InlayPlan`, `ContextPlan`,
`CallsPlan`).

`Holding` is at the centre of two of the theorems: from now on the manager
answers a request with an analysis of this input, because the pending analysis is of it, or
there is none, or the request is not behind it, and the one that is built is of it.  For
a handler that tests its generation that is so as long as the generation is its own
(`OwnFollows`): the main thread gives out a generation before it hands the analysis to the
manager, both under `analysis_submission_mutex_`, so whatever replaces the input comes with a
newer one.  For inlay hints it is so as long as the hint generation is theirs and no
change has begun (`HintsFollow`), because the submission is made behind the snapshot of the
generation, and whatever changes the input raises it before it submits anything.  What is
shown of hints then stays `Fresh`, or the main thread is on its way to
`workspace/inlayHint/refresh` (`ShownFollows`).

The last test of incoming calls goes round the roots one after the other, and asks the
manager in between.  It shows that there was one moment nevertheless because nothing
comes back: a content generation that was replaced is never built again, and a submission that was
replaced is never the newest again (`ContentGone`, `SubmissionGone`, which no step
undoes).  `CallsTested` says that whatever was gone when the texts were read belongs to a
root that is still to be tested, so that at the end there was nothing.

`AnswersCurrent` is about the steps that answer; `AnsweredBy` shows that for these two
handlers these are only the last tests of their plans.

### Layers

`MergeLayers`, `Distinct` and `Scanned` are recursive functions.  That such a function exists,
and that what it returns has a property, is shown from the least length for which it would
not (`LeastNumber`); each of the two takes a lemma (`MadeExists` and `LayeredTops`, `SeenExists`
and `DistinctIs`, `FoundExists` and `DirectoriesAreOrdered`, `ScanExists` and `ScannedSays`).

`Tops` says that a part is of the highest layers among the first n, and `AllTops` that
scalars, definitions and mappings are, each with its origin.  One more layer keeps it
(`TopsOfMore`), and so does one that leaves a part alone (`TopsOfTheSame`).  For include
directories the order is the point: `OrderedAbove` says that the directories of the layers
above the m-th are those found so far, each pair in the order that `SearchedBefore` gives, and
`CombinedIs` what a removal of duplicates does to two lists, one behind the other.

`Stands` puts both together, of a configuration and a list of layers.  Files and groups
stand by `MergedStands`.  The client's default is put in after them and is a layer below
them all: it only stands where no file says anything (`DefaultStands`).  The
variant is the layer above them (`VariantStands`).  The editor settings are no layer, as they
clear what is below, or replace it: `OverridesWin` takes each part in turn, and scalars without
those that are cleared.

For the targets, the two searches differ in what they skip: the one that finds the value jumps
over it.  `SaysWhatIsGiven` relates the values found from an argument on to the options that the
other search would find there, `ScannedBehind` scans the end of a list as a list of
its own, and the pairs that the configuration puts in front are overridden by whatever
follows (`ArgumentsScanned`).

### Messages and reflection

`MessagesCorrect` goes through what an object can be taken for.  `Says` is what the message of
each kind owes to the object, and `SaysWhatWasSent` that writing such a message gives back
what the object has.

`RangesEnd` is the fact that the others need: the end of a range, which is computed in
the width of a register, is the last register that is in it.  `OverlapIsShared` and
`CoversIsContains` turn comparisons of ends into sets of registers, for ranges of any length and
position; `CompatibilityCorrect` then only has to follow the visibility of parameters
(`ActiveIsVisible`).  `PipelineCorrect` has no registers: an input is judged by the first output that
has its semantic, and there is no other, which is why stages fit if and only if no issue is
reported (`InputIsGiven`, `InterfaceIsJudged`), and resources of all stages are
compared with the first stage that has them, which is enough because equality is
transitive (`ResourcesAreJudged`).

### Only model-checked

All liveness: `QueuedWorkEnds` and the return of `shutdown()`, of `wait_idle`, of `run()`
and of requests to a child rest on fairness and ENABLED, which the prover does not handle.

Of the algorithms: globs and the inheritance of variants (`GlobsAreExact`,
`VariantsInheritInOrder`), includes and directives (`NothingIsGuessed`, `ChangesAreNoticed`,
`DirectivesAreThoseOfTheText`), calls (`ReadersOfCallsAgree`), edits (`StoreFollowsTheEditor`),
the frames of `MessagesArrive`, and the merge of captures (`PreviewsSettle`,
`CapturesTakeEffect`).  They are recursive operators and folds over texts, which the prover cannot
reason about.  Where a theorem needs an induction over data it is done by hand on a
recursive function (`SumUnique`, `KeptExists`, `LayeredTops`, `ScannedSays`), from a
smallest counterexample; for two readers of one text, each with a
state of its own, that is too long.  Nor is it proved that the files, groups and
variants of a shader become the layers that `ConfigurationCorrect` is about: `Configuration` finds
them with globs, and `TheHighestLayerWins` checks that part of it.

## 6. Not modelled

- `Scheduler`: the metrics (`started_`, `active_`, `queued_`, `peak_queued_`, `rejected_`).
- `Manager`: several workers, `after_roots_idle`, `invalidate_include_metadata`, the cache
  of includes, limits in bytes and the choice of the victim by age, metrics, `shutdown`
  (which is the scheduler's and the worker processes').
- `WorkerProcess`: the platform's process and pipe calls.
- `RequestServing`: the shape of error objects.
- `Documents`: the recovery of an analysis that failed (`Manager`), several pipelines and several documents of a stage, the reevaluation of the
  runtime and of the active variant, watched files other than the configuration.
- `Features`: what answers say, and their conversion.
- `Configuration`: the wording of errors, the text of JSON; `document_uri.cpp`, which
  converts strings.
- `Includes`: the cache of file metadata.
- The rest of `dxc/`: it calls a compiler library and converts what that returns; its
  crashes are the faults of `Manager` and `WorkerProcess`.
- The executables, which build the parts from their arguments; the Visual Studio client,
  which is presentation; the VS Code client, a program of its own in TypeScript.

## 7. Plan

1. The VS Code client's restarts and its tracking of stale analyses, against a server
   that starts, crashes and answers late.
2. `Manager` with two workers and `after_roots_idle`, composed with the handlers of
   `Documents` that use it.
