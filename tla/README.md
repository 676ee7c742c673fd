# Verification of the SignalFx .NET tracer

TLA+ models of the tracer under `src/src/`, TLC configurations that check them
on small instances, and TLAPS proofs of most of what the runs check. All paths
below are relative to `src/src/`; line numbers are in `PROJECT.json`, which maps
every definition to the code it stands for, names a mutant for every property,
and lists the hazards the properties are there for.

1. [The system](#1-the-system)
2. [The modules](#2-the-modules)
3. [The runs](#3-the-runs)
4. [Fairness](#4-fairness)
5. [What is proved](#5-what-is-proved)
6. [What the checks found](#6-what-the-checks-found)
7. [Not modelled](#7-not-modelled)
8. [Plan](#8-plan)

## 1. The system

An application runs with the native profiler loaded into its CLR. The profiler
rewrites calls of known library methods into calls of managed wrappers; a
wrapper opens a span around the original call. A web request, a message or a
client call gets its span this way, or from an event of the host. Spans of one
request form a trace, which goes on in other services through the headers of
requests and messages. When its last local span closes, the trace goes to the
agent writer, whose flush task posts it to a Zipkin collector, which may be an
agent process that the tracer itself keeps running.

| Part | Code | State | Operations | Talks to |
|---|---|---|---|---|
| Native profiler | `Datadog.Trace.ClrProfiler.Native/cor_profiler.cpp` | attached flag, module table with reference caches, domains with the managed profiler, domains already hooked | Initialize, Shutdown, module/assembly load, module unload, JITCompilationStarted | the CLR by callbacks on any thread, under one lock |
| Managed loader | `...Managed.Loader/Startup*.cs` | none after start | static constructor | started by the hook the profiler writes |
| Call wrappers | `...Managed/Integrations/*`, `ScopeFactory.cs` | none of their own: the call stack, the active span's tags, the headers | one wrapper per instrumented method | Tracer, propagators, original methods by delegates of `Emit/MethodBuilder.cs` |
| Messaging wrappers | `...Managed/Integrations/RabbitMQIntegration.cs`, `Kafka/*` | none: the active span's type tells nested producers | publish, deliver, get, produce, consume | Tracer, propagators, message headers |
| Request spans | `DiagnosticListeners/AspNetCoreDiagnosticObserver.cs`, `Datadog.Trace.AspNet/*`, MVC, Web API and WCF wrappers | HttpContext.Items: the active scope, the module's, MVC's | request start, stop, error; begin and end of an action | Tracer, `AspNetScopeManager` |
| Propagators | `Datadog.Trace/Propagation/*.cs` | none | Inject, Extract (B3, W3C) | headers |
| Tracer | `Tracer.cs` | instance, settings | StartSpan, StartActive, CreateSpanContext, shutdown handlers | all of the below |
| Scope manager | `ScopeManagerBase.cs`, `AsyncLocalScopeManager.cs`, `Scope.cs` | Active per logical flow, Parent per scope | Activate, Close, Dispose | raises span events |
| Log correlation | `Logging/LibLogScopeEventSubscriber.cs` | one disposal stack, one "safe" switch | handlers of the span events | the application's logging library |
| Trace context, spans | `TraceContext.cs`, `Span.cs` | span list, open-span count, sampling priority and its lock; per span: finished, tags | AddSpan, CloseSpan, LockSamplingPriority, SetTag, Finish | sampler, agent writer |
| Sampler, rate limiter | `Sampling/*.cs` | rules, poisoned patterns, queue of admissions, refresh event | RegisterRule, GetSamplingPriority, Allowed | called by the first span of a trace |
| Agent writer | `Agent/AgentWriter.cs`, `AgentWriterBuffer.cs`, `ZipkinApi.cs` | ring of 1000 traces, exit signal, flush task | WriteTrace, flush loop, FlushAndCloseAsync, SendTracesAsync with retries | the collector over HTTP |
| Process manager | `TracingProcessManager.cs` | claim files, agent processes, port files | Initialize, keep-alive loop, StopProcesses, port watchers | the file system, other processes |
| OpenTracing bridge | `Datadog.Trace.OpenTracing/*` | wrappers | builder, scope manager, codecs | Tracer |

Where it is hard, and what makes each part correct:

* **Agent writer.** Application threads, the flush task and shutdown handlers
  interleave; requests fail after the collector accepted them; a full buffer
  overwrites. Every trace must be in one place until the writer is through with
  it, be delivered at most once per attempt, and be covered by the last flush
  when it was queued before the exit signal.
* **Trace context.** Threads start, tag, finish and inject spans of one trace;
  the locks protect parts of each operation. Each span must be written exactly
  once, finished, and the trace must not be left behind; the priority must be
  set when it is needed.
* **Scope manager.** Any flow may close any scope, in any order, twice. A flow
  must come back to what it inherited.
* **Log correlation.** Per-flow contexts behind a process-wide stack. Log lines
  must carry the ids of their flow's span.
* **Call wrappers.** Instrumented methods call each other. One operation must
  give one span, the application must get back its active scope when exceptions
  unwind several wrappers, and the context the server was sent must be that of
  a recorded span.
* **Messaging.** A broker delivers a message to several services, again, or
  never; applications forward headers they received; producers wrap each other.
  A receiver must continue its sender's trace, and the services of a trace must
  agree about keeping it.
* **Request spans.** What is active at the end of a request need not be what
  was at its start: handlers leave scopes open, flows lose their context,
  actions nest and throw half-way. A request's span must end, the next request
  of the connection must start clean, and errors must go to the right span.
* **Native profiler.** Callbacks of several threads pass the attached test and
  then wait for the lock, modules and domains unload in between. A domain may
  only be hooked once; code may only call wrappers where the managed profiler
  is; nothing may be written for a module that is gone.
* **Sampler.** Threads refresh and extend the limiter's queue without a lock.
  The first matching rule must decide, the overshoot must be bounded and
  every caller must come back.
* **Process manager.** Several processes claim, start, kill and watch agents,
  and die between any two steps; their pids are used again. One of them must
  manage, its agent must be restarted, and no agent may be left behind.

## 2. The modules

```
TraceDelivery   <--refines--  AgentWriter = AgentWriterBuffer + ZipkinApi + flush task + shutdown
TraceWriting    <--refines--  TraceContext = spans of one trace, priority
ScopeManager    <--extends--  LogCorrelation      events of the scope manager (and refines it)
                <--extends--  InstrumentedCalls   wrappers, ScopeFactory, headers
RateLimiter     <--extends--  RuleBasedSampler
NativeProfiler                callbacks of the CLR
ProcessManager                tracers of one machine, agents, claim and port files
Propagation     <--extends--  Messaging           RabbitMQ and Kafka wrappers, several services
RequestScopes   <--extends--  AspNetCoreObserver, AspNetPipeline
                <--extends--  ServerRequests      a server of either kind
*Proofs                       theorems and their proofs, one module per component;
                              ScopeUsersProofs is that of LogCorrelation and of
                              InstrumentedCalls, on the ScopeManager of both
MC*                           constants for TLC
```

**AgentWriterBuffer** (`Agent/AgentWriterBuffer.cs`). `items` and `count` are
`_items` and `_count`; `PushFree`, `PushFull` and `Pop` are the locked bodies of
Push and Pop. The random slot of a full Push is any slot.

**ZipkinApi** (`Agent/ZipkinApi.cs`). One call of SendTracesAsync per sender:
posting, waiting for the back-off, giving up. `received` is what the collector
accepted, which the sender cannot see: a failed post did or did not arrive.

**AgentWriter** (`Agent/AgentWriter.cs`, shutdown handlers of `Tracer.cs`).
Composes the two. `flush.pc` is where FlushTracesTaskLoopAsync is between its
awaits; `flush.closing` is the value of IsCompleted it read before the last pop.
`closer` are calls of FlushAndCloseAsync. The process may end once a handler
has returned. `fate` records how the writer finished with a trace: it is the
history the properties and the refinement mapping read.

**TraceDelivery** is what IAgentWriter promises, without buffer, task or retry
loop: accept once, drop before anything was sent or offer at most
`MaxDeliveries` times, then delivered or abandoned.

**TraceContext** (`TraceContext.cs`, `Span.cs`, parts of `Tracer.cs` and of
Inject). `op[th]` is where a thread is inside a call; each lock block is one
step and what runs outside of a lock is a step of its own, so the unlocked read
of `_samplingPriorityLocked` and the write after it are two. A `bare` context is
one that never has a span: GetRequestStream makes it outside of any scope only
to inject from it, before a priority was set.

**TraceWriting** is what a trace does with its spans, without count, lock or
thread: they are started and closed, the one that leaves no other open hands over
all that wait, and what was handed over is written, whole and once.

**ScopeManager** (`ScopeManagerBase.cs`, `Scope.cs`, `AsyncLocal*.cs`). `active`
is an AsyncLocal: one value per flow, copied by `Fork`. `CloseCurrent` and
`CloseOther` are the two ways through Close.

**LogCorrelation** (`Logging/LibLogScopeEventSubscriber.cs`) adds to each
operation of ScopeManager the handler its event runs. No lock protects the
handlers, so each pop, the test of `_safeToAddToMdc`, the push and the two parts of
the catch block are steps, between which those of other flows fall (`handler`). A
disposable is the sequence of contexts it restores; the logging libraries are
external, a stack (Serilog) or a map. The four contexts of a span are pushed and
popped as one element: a flow disposes of another's only to set all its own anew,
so splitting them would show log lines with part of the four ids and nothing else
the properties tell apart. The flag is not volatile; a read is
taken to see the last write before it.

**InstrumentedCalls** (`ScopeFactory.cs`, the WebRequest, HttpMessageHandler and
ADO.NET integrations, StartActive). `frames[f]` is the part of a flow's call
stack that matters: open wrappers and using blocks. Tags are abstracted to
`kind` (span.kind) and `spanOf`, the operation whose method and URL, or type and
statement, are on the span; a request's headers are one context. For a traced
request, StartActive, the test of the parent's kind, clearing it, and Inject are
steps of their own: until the last, the span is in `creating`, and other flows may
finish its parent. An asynchronous call is a flow started by `ForkFlow`: what an async method assigns
to an AsyncLocal is not seen by its caller.

**RateLimiter** and **RuleBasedSampler** (`Sampling/*.cs`). The limiter holds no
lock: each read and write of the queue, the event and the time is a step. Rates
and hashes are small numbers on one scale.

**NativeProfiler** (`cor_profiler.cpp`, `module_metadata.h`). A callback is two
steps, the unlocked test of `is_attached_` (`Enter`) and the rest under the
lock. `loaded`, `dying`, `lives`, `managedPresent` and `il` are the runtime's
side; method bodies are what was written into them (hook, replaced and inserted
calls). Resolving a wrapper may fail with or without the failure being noted, and
an Import that fails ends one of the two passes over a body, not the other.

**ProcessManager** (`TracingProcessManager.cs`). `tracer[p]` is the state of the
process with pid `p`: where it is in Initialize, in the keep-alive loop or at
the port file's watcher (`at`), what it listed, the agent it holds (`own`), its
count of failures, how far StopProcesses is (`stop`). `claims` and `file` are
on disk and `agents` are processes: `Die` takes a tracer at any step and leaves
all three, and `Boot` uses its pid again. The loop has one step per place where
another process or StopProcesses can come between: the test of the token, the
look at the running processes, the free port, Process.Start (`StartAgent`), its
assignment to `metadata.Process` (`AssignProcess`), the check 200 ms later.
StopProcesses kills and then disposes (`Kill`, `Dispose`): the kill may fail, which
SafelyKillProcess swallows (`unkilled`), and sees no process before the assignment
(`unseen`). One agent stands for the two sub-processes, which are handled alike.

**Propagation** (`Propagation/*.cs`) is a library of operators. Headers map names
to sequences of values; an id is a number and `Malformed` a value that does not
parse; the text is left out. What is kept is which headers are set, which stay
as the carrier had them, which of several values is read, and what becomes of a
priority on the way: two bits.

**Messaging** (RabbitMQ and Kafka wrappers). A flow is a worker of a service;
`calls[f]` are the wrapped calls and the application's scopes it is inside of,
`spans` the spans of all services in the order they started, `queue` the
messages of the broker, which keeps them all: each may be delivered again, to
other services, or never. A handler may send with the headers it received. A
message into which nothing can be put (RabbitMQ without usable properties, Kafka
without headers) gets a span and no context, and locks no priority (`SendBare`; its
call is `bare`).

**RequestScopes** is what ASP.NET Core and ASP.NET share: requests of one
connection one after the other, a handler that opens and closes scopes in any
order and starts a task, and the scope manager (`AspNetScopeManager.cs` in
ASP.NET: AsyncLocal, then the item of the HttpContext). **AspNetCoreObserver**
(`AspNetCoreDiagnosticObserver.cs`) and **AspNetPipeline** (`TracingHttpModule.cs`,
the MVC, Web API and WCF integrations) add their handlers, and **ServerRequests**
is a server of either kind. `items` are the three items the tracer keeps in the
HttpContext; `actions` are the MVC actions under way, whose end finds its scope
there. Each half of an MVC action may run where `HttpContext.Current` is null: the
first then makes no scope, the second finds none to close. `strayed` and `abandoned` record where the application or a failure took
a scope away, so that the properties can say what else may go wrong: nothing.

Operators named in a comment as a mutant or a variant are not part of any
specification: they are plausible bugs of the definition that follows them, and
each checked property is violated when one of them takes its place.

## 3. The runs

| Run | Instance | Shows |
|---|---|---|
| `agent_writer` | 3 traces, buffer of 2, 3 attempts, 2 synchronous writers, 2 closers, both modes | no trace vanishes or is in two places; at most one delivery per attempt; the last flush covers what was queued before the exit signal; the writer implements TraceDelivery |
| `agent_writer_live` | 2 traces, 2 attempts | with fairness a queued trace is settled and FlushAndCloseAsync returns |
| `trace_context` | 2 threads, 3 spans, 1 tag call, global tags with and without a priority | `CountAndPriority`: the open-span count is exact and what is sent for a trace with spans carries its priority; `WrittenWhole`: a span is written once and never open, none stays in a closed trace; the trace implements TraceWriting; a finished span gets written |
| `log_correlation` | 3 flows, 2 scopes closed up to twice in any order, both kinds of library, exceptions, handlers interleaved | `FlowsBalanced`: nested flows come back to what they inherited and to no closed scope; map-based log lines follow the active span; Serilog's do in one flow; `OnlyLateContextsLeft`: once correlation is given up, only handlers that had tested the flag before push contexts |
| `instrumented_calls` | 2 flows, 3 scopes, a web request, a message with tracing off, a command, wrappers nested twice | `OperationsTold`: one span per operation, errors on the spans that threw and no other; `CallsNested`: the active scope is that of the innermost block; one client on a path unless it was finished before it could be cleared; the id sent to a server is that of a recorded span |
| `native_profiler` | 2 threads, 4 modules (corlib, domain-neutral or collectible, hosting, collectible), 3 methods, 2 domains of which one is unloaded and its id reused | one hook per domain; `ReplacementsSafe`: replacements only where the managed profiler is, domain-neutral code left alone; after unload nothing is written into a module's methods and nothing noted for it |
| `sampler` | 2 threads with 2 calls each, 4 rules, limit 1, 3 moments | `RulesDecide`: rules in order, and the first match decides although a pattern may time out; overshoot bounded; calls return |
| `process_manager` | 2 pids whose processes die and start again at any step, one of which announces its end before, 2 ports | one manager unless two processes claim at once; `NoAgentAbandoned`: the circuit breaker gives up no running agent, and a stopped tracer that lives leaves one only if the kill failed or the loop had not assigned the process yet; a watcher has the port of the file unless the file came in its window; a stopped loop ends; a missing agent is started again or the breaker gives up |
| `messaging` | 2 services, 3 spans, calls nested twice, B3 or W3C, a message of a sender elsewhere, with a sampling decision, whose first trace id does not parse | receivers continue their sender's trace; the services of a trace decide alike; one span for producers that wrap each other; `SentWithContext`: a message goes without context only where nothing could be put into it, or where a producer had failed before its call, which is also all that leaves a flow with an active span |
| `server_requests` | 4 scopes; 2 requests of one connection to ASP.NET Core, or 1 to ASP.NET with either pipeline; a task or a WCF thread beside the handler; actions nested twice | `RequestsEndClean`: a request's span ends and nothing stays active for the next; failures are on the failed request's span; MVC's scopes are closed unless a named failure took them; spans of one request are in one trace |
| `agent_writer_exit` | violation | see 6 |
| `trace_context_propagated` | violation | see 6 |

Why the bounds are enough to be of use. A buffer of two with three traces has
the free, the full and the overwriting Push and batches of one and two traces;
three attempts have a first, a middle and a last one; two closers have one that
waits and one that finds the signal set. Two threads are what each race in
TraceContext and RateLimiter needs; three spans are a root and two children
that close on different threads. Two scopes allow an out-of-order close, and three flows
are one that gives log correlation up, one that is on its way to push, and one that
uses the stack meanwhile. Two wrappers of one operation are the nesting of
`ExecuteReader()` in `ExecuteReader(behavior)`; three scopes let a client span
of the application surround two operations. Two lives of a domain id are what a
stale entry for the first needs. Limit one and an interval of one tick in three
moments make the trim race of two refreshes happen. Two processes are the two
that meet at the claim files, or a manager and a watcher; two ports are the one
in the file and the next; the number of failures is the code's own three. Only one
of the pids calls StopProcesses (`Stopping`), which keeps the run within its time:
StopProcesses acts on its own process and agent, and the other pid meets a manager
that stops as well as one that dies. Three spans are a sender, a receiver and one that
sends on; calls nested twice are a producer in a producer or a producer in a
handler; the span that a message without context gets is one of the three. Four scopes are a request, an action in an action and a span of the
application, or the spans of two requests and what one of them left open.
Symmetry is used where threads, spans, traces, scopes and services are
interchangeable, and not in runs with liveness.

Counters that only bound a run: `MaxTagCalls`, `MaxCloses`, `MaxJits`,
`MaxLives`, `MaxCalls`, `MaxTime`, `MaxDepth`, `MaxSpans`, `MaxScopes`,
`MaxRequests`, `Stopping`; each instance names them in its cfg. Within `instrumented_calls`
each operation is made once and starts with empty headers. `MaxFailures` is the
program's `circuitBreakerMax`.

Deadlock is checked where the system cannot stop: in the writer and the sampler
the only states without another step are the ended process and the finished
threads, which are steps of their own, and in the process manager a tracer can
always die or start. It is not checked where the program may
legitimately do nothing more (all spans finished, all scopes closed, all
bounds used up): trace context, log correlation, calls, native profiler,
messaging, server requests.

## 4. Fairness

* `AgentWriter!FairSpec`: the thread pool runs the flush task, HttpClient ends
  each request (it has a time-out), timers fire (`Task.Delay`, the 20 seconds of
  FlushAndCloseAsync). Nothing is assumed of the application or of shutdown.
  `CloseReturns` rests on the time-out: with recurring metrics errors the closing
  flush itself need not complete.
* `TraceContext!FairSpec`: a thread inside a call goes on. Nothing makes it call
  Finish, so `FinishedLeadsToWritten` has the alternative that a span stays open.
* `RuleBasedSampler!FairSpec`: a thread that runs keeps running; waiting on the
  event is a step that is not enabled while the event is clear.
* `ProcessManager!Spec`: the thread pool runs the keep-alive loop and its delays
  end. Nothing makes a tracer start, stop, die or handle a file event, and
  agents may die as often as they like.

## 5. What is proved

Every theorem is about the specification the runs check, for every value of its
constants that satisfies the module's assumption. The assumptions say no more
than that null is no value, functions on the constants have their types and
bounds are numbers, and TLC evaluates them in the runs.

| Module | Theorem | Statement |
|---|---|---|
| AgentWriterProofs | `TypeCorrect` | `Spec => []TypeOK` |
| | `OnePlaceHolds` | `Spec => []OnePlace` |
| | `DeliveryBounded` | `Spec => []DeliveryBound` |
| | `ExitCovered` | `Spec => []LastFlushCoversExit` |
| | `FlushReported` | `Spec => []FlushedMeansFlushed` |
| | `WriterImplementsDelivery` | `Spec => ImplementsDelivery`, that is `Delivery!Spec` |
| TraceContextProofs | `CountHolds` | `Spec => []CountAndPriority` |
| | `WrittenOnce` | `Spec => []WrittenExactlyOnce` |
| | `WholeTraces` | `Spec => []WrittenWhole` |
| | `ContextImplementsWriting` | `Spec => ImplementsWriting`, that is `Writing!Spec` |
| ScopeUsersProofs | `ImplementsScopeManager` | `LogSpec => ScopeSpec` |
| | `FlowsStayBalanced` | `LogSpec => []FlowsBalanced` |
| | `OnlyLatePushesLeft` | `LogSpec => []OnlyLateContextsLeft` |
| | `MapLogsFollow` | `LogSpec => []MapLogMatchesActive` |
| | `SerilogLogsFollow` | `LogSpec => []SerilogNestedMatchesActive` |
| | `Nested` | `Spec => []CallsNested` |
| | `Told` | `Spec => []OperationsTold` |
| | `OneClient` | `Spec => []OneClientOnThePath` |
| | `WireRecorded` | `Spec => []WireSpanRecorded` |
| NativeProfilerProofs | `HookedOnce` | `Spec => []HookOncePerDomain` |
| | `UnloadedLeftAlone` | `Spec => NothingWrittenAfterUnload` |
| | `ReplacementsHold` | `Spec => []ReplacementsSafe` |
| ProcessManagerProofs | `TypeCorrect` | `Spec => []TypeOK` |
| | `OneManager` | `Spec => []OneManagerUnlessTogether` |
| | `WatcherPort` | `Spec => []WatcherHasPort` |
| | `AgentsCaredFor` | `Spec => []NoAgentAbandoned` |
| MessagingProofs | `TracesContinue` | `Spec => []ReceiverContinuesTrace` |
| | `OneSpanEach` | `Spec => []OneSpanPerProduce` |
| | `UntracedOnlyThere` | `Spec => SentWithContext` |
| | `FlowsStayRestored` | `Spec => []FlowsRestored` |
| | `DecisionStands` | `Spec => []OneDecision` |
| SamplerProofs | `OvershootStays` | `Spec => []OvershootBounded` |
| | `RulesDecided` | `Spec => []RulesDecide` |
| ServerRequestsProofs | `EndsClean` | `Spec => []RequestsEndClean` |
| | `FailureFound` | `Spec => []FailureOnItsRequest` |
| | `ActionsClosed` | `Spec => []ActionsEnd` |
| | `OneTrace` | `Spec => []OneTracePerRequest` |

**Agent writer.** `TypeOK` is not inductive: that Pop returns traces and never
null needs that the slots below `_count` are the ones in use (`BufferShape`), and
that an attempt number stays within the limit needs that a sender only sleeps
with attempts left (`AttemptsLeft`). Together they are `TypeInv` in
AgentWriterProofs. The safety theorems follow from `IInv`,
whose parts build on each other:

* `TypeInv`, above;
* `ControlInv`: the flush task holds popped traces only between Pop and the
  send and has a call in progress only while it waits for it; an idle sender
  has no traces; each mode leaves the other's buffer or senders empty. Needed so
  that clearing a field loses no trace;
* `PlaceInv`: `OnePlace`, and no fate for a trace that was not written;
* `CountInv`: `DeliveryBound`; a trace that is new, queued or popped was never
  received; a trace in a call was received at most once per attempt made so far
  (`AcceptedSoFar`). The last is what makes the bound inductive;
* `ExitInv`: the two exit properties; the closing flag is only set after the
  signal; from the closing Pop on no trace of `beforeExit` is queued.

The refinement maps `status` to the fate (pending while it is "none") and
`received` to itself. Each writer step is one step of TraceDelivery or stutters: a
Push is Accept or AcceptInstead (overwriting is safe because a queued trace was
never received, by `CountInv`), a metrics error is Drop, a post is Attempt (below
the bound, by `CountInv`); `PlaceInv` gives that the traces of a call are pending.

**Trace context.** Why the count is exact although Finish tests and sets
`IsFinished` outside of the lock that guards the count: a span is finished from
the moment some thread begins to close it, no two threads are closing the same
one, and only spans that were added are closed (`SpanInv`, `ApartInv`,
`ThreadInv`). `CountInv` then ties the count to the spans not yet decremented,
and adds that the list is empty when there are none. `PlaceInv` says where a
span is: in the list, or in the batch of exactly one thread, or written once. A
trace has its priority from its first span on and only a bare context has no span
when it injects (`PriorityFromFirstSpan`), so that what a trace with spans sends has
one.

TraceWriting's open spans are those added and not decremented, its closed ones the
rest of the list, its handed-over sets the batches of the threads between the lock
and the write. AddSpan is Start; the locked part of CloseSpan is Close or, by the
exact count, CloseLast; CloseWrites is Write, and takes away one set only because
batches are not empty and no two threads share a span of one; all else stutters.

**Scope manager and log correlation.** While closes come from nested using
blocks, the open scopes of a flow form a stack: `UsingBlocks(f, q)` names it, and
Activate and Close push and pop it (`NestedInv`); the flow is back where it
started when the stack is empty. For Serilog the enricher stack is that stack,
and entry `i` of the process-wide disposal stack holds its first `i - 1` scopes
(`Mirrors`). The handlers only follow the events: every step of LogCorrelation
is a step of ScopeManager or leaves its variables alone. What a handler is about to
show is its flow's active scope, since the flow waits for it (`HandlersInv`); hence
the log lines, at whatever step the others are. After the flag is cleared, either
some flow is still clearing the stack, or all that is on it was pushed later, by
handlers past the test; such a handler returns, and its flow's next one sees the
flag (`LateInv`).

**Native profiler.** A domain is hooked once because it enters
`first_jit_compilation_app_domains` in the step that writes the hook (`HookInv`).
Nothing is written or noted after an unload because a module's callback has it to
itself until it is loaded, and the table has no entry for one that is not
(`ModuleInv`, `InsertInv`). That replacements are where the managed profiler is needs
`ManagedInv`: as long as no hook is in shared code, the domains the profiler
takes for having the managed profiler have a loaded module that holds the hook.
It is needed on the .NET Framework only, where a domain may unload and its id be
used again; code of the shared domain never unloads there, so that a hook in it
stays in evidence. Elsewhere any module may be collectible, but a domain has one
life and keeps the managed profiler.

**Process manager.** `ClaimInv`: while no two tracers were between the listing
and the writing of claims together, the claim of a live manager is on disk, a
tracer about to delete claims has it among those it listed and not among those
of the dead, and no tracer is about to claim. `AgentInv`: what a tracer may know
of the port file from File.Exists on (`PortSound`), and where its own agent can
be at each step of the loop and of StopProcesses (`OwnSound`). `NoAgentAbandoned`
is about tracers that live: one that dies leaves its agent running, which
`AgentRestarted` leaves to the next manager.

**Messaging.** First the propagators: `RoundTrip` says that the ids Inject sends
are those Extract reads, whatever other headers the carrier has, and `ExtractTyped`
that anything else is a context or none. Then, for each flow, `FlowOK`: the calls
under way are nested, the active span is that of the innermost call that has
one, or a scope that a producer left open; only a producer has no span of its
own, and none opens one inside a producer's. `SentInv` and `QueueSent`: a call or
message that names a sender carries that span's context, and a call that names
none is in a flow with such a scope, or one into which nothing could be put. Each action has one of five shapes (it
opens a call, wraps one, starts a span beside the calls, ends a call, changes a
priority), and the invariant is proved once per shape.

That the services of a trace decide alike (`DecisionStands`) needs who knows of a
decision, and from whom: a message or call that names a sender has headers that
say what the sender's trace decided, and that decision is locked
(`CallsTell`, `QueueTells`); a trace that began here is in a second service only
after it was locked (`TracesInv`); and the spans of a trace agree with each other
and with the foreign headers that brought it (`AgreeInv`, `ForeignInv`). The
assumption on foreign headers is that of random ids: what comes from elsewhere
names no trace of ours, and senders elsewhere agree about theirs.

**Sampler.** A queue that is shortened and extended without a lock is still the
end of the sequence of all admissions, and their times grow (`Trims`). Two counts
of threads do the rest: who is about to enqueue saw the queue below the limit, so
that the queue and those threads together are at most the limit and one for each
other thread (`QueueBound`); and an admission leaves the queue within its
interval only at the hand of a thread that had peeked an older entry, which
another thread took (`WindowBound`). Their sum is `OvershootBounded`. For the rules,
a call that is at rule `n` has passed only rules that are not eligible or are
poisoned by now (`CallInv`), the default rule is last and always matches, and a
poisoned rule stays so: `DecidedInv`, hence `RulesDecide`.

**Call wrappers.** The blocks of a flow have a shape (`Shape`): using blocks of
the application, each with its scope, then the wrappers of at most one operation,
of which the outermost has the operation's scope if it is traced. The active
scope is that of the innermost block with one, and so is, one block further
out, the parent of each open scope (`FlowInv`, `Under`): this is what makes Close
go back to the right scope when an exception unwinds several wrappers. It also
gives that an inner wrapper always finds the scope of its own operation active
and skips (`Operation`), from which there is one span per operation
(`SpanInv`), with its error (`ErrorInv`). `RunsInv` keeps an operation within one
flow. `WireInv` ties what was sent to the header and the header to the span's id.
Opening, closing and the quiet steps are proved once each (`FlowPushed`, `Closed`,
`QuietKeeps`) and used for every action. A span that is being made has a parent
of the application's (`CreatingInv`), so that once its steps are over the parent
has been cleared or was finished before (`OneClientOnThePath`).

**Server requests.** Which scope is that of the request under way (`OurScope`)
depends on the host: with ASP.NET the one in the items, with ASP.NET Core the one
that was active when the handler was called, and while no handler runs the one
that is active now. Unless a handler left its flow in another scope than it found,
no other request scope is open (`RequestInv`), which gives both the clean end and
the failure on the right span. That an action's scope is closed needs who will
close it: an end under way that found it, or the end of the action that opened it,
while the item still holds it (`Awaited`, in `ActionInv`). An item that is
overwritten, an end that does not see the HttpContext and a call that failed leave
neither, and these are the scopes the property leaves out. For the one trace of a request, the scopes
made in its HttpContext lie on each other down to that of the module, and whatever
is active there is one of them (`LineInv`); in the integrated pipeline the spans of
Web API and WCF that lost the context find the same trace in the headers. The
invariant is kept by a scope that opens and by one that closes (`ScopeOpens`,
`ScopeCloses`), and these lemmas serve most actions.

Only model-checked: all liveness, since properties under fairness are out of the
prover's reach. Every invariant and every action property of a passing run is a
theorem, without a hypothesis beyond the modules' assumptions.

## 6. What the checks found

Two runs show that the code does not do what a comment in it says.

* `agent_writer_exit` / `FlushedBeforeExit`. `Tracer.cs:137` registers handlers
  "to make sure we flush the traces before exiting". A second call of
  FlushAndCloseAsync returns at once while the first still waits, so the process
  can end without the flush.
* `trace_context_propagated` / `PropagatedPriorityKept`. `TraceContext.cs:66-67`:
  the priority is locked when a trace starts from a propagated one.
  CreateSpanContext has set it before, so that branch is never taken and a tag
  can replace the propagated priority.

Observations made while modelling, each a behaviour of a model that a property
leaves room for by name, or that a definition describes:

* `TraceContext.cs:45`: a setter of the sampling priority that passed the test of
  the lock before it was taken writes after it, and after the priority was sent.
* `LibLogScopeEventSubscriber.cs:28`: with Serilog, one disposal stack for all
  flows makes log lines carry another request's ids. 194 and 217: a handler that
  read the flag before another flow gave correlation up still pushes its contexts
  after that one has cleared the stack; they stay until a later handler, of any
  flow, disposes of them.
* `WebRequestIntegration.cs:159`: outside of any span, GetRequestStream sends the
  ids of a new trace, and the span that GetResponse makes takes over the span id
  but starts yet another trace. These headers carry no sampling decision. It also sends headers
  to excluded hosts.
* `ScopeFactory.cs:125-138`: a parent that another flow finishes between the start
  of the request's scope and SetTag keeps its client kind, and the path two clients.
* The unload of a single collectible module makes the profiler forget that its
  domain holds the managed profiler.
* The rate limiter lets through up to two traces more than its maximum for each
  further thread.
* `TracingProcessManager.cs:278`: an agent that the loop starts after
  StopProcesses has killed the one before outlives the tracer, as does one that is started but not assigned yet when
  StopProcesses looks, and one whose kill fails (204 to 212); 420: a port file
  that appears between File.Exists and EnableRaisingEvents is missed; 155: two
  tracers that start together both become the manager.
* `AspNetCoreDiagnosticObserver.cs:249`: the end of a request closes whatever is
  active; after a handler that leaves another scope active than it found, the
  request's span stays open and the next requests of the connection are its
  children.
* `AspNetMvcIntegration.cs:288` and 344: a BeginInvokeAction that throws leaves its
  scope open, and so does an action begun before the one around it has read the
  item that holds its scope, and an action whose end runs where HttpContext.Current
  is null (340); the trace is then never written.
* `ProduceKafkaIntegrationHelper.cs:39`: a producer whose delegate cannot be built
  leaves its scope active, and later producers of the flow take themselves for
  nested ones and send no context.
* `RabbitMQIntegration.cs:443` and `ProduceKafkaIntegrationHelper.cs:260`: a message
  without usable properties or headers has a producer span but no context, and the
  priority of its trace stays open to change.
* `B3SpanContextPropagator.cs:101`: Inject sets either `x-b3-flags` or
  `x-b3-sampled` and removes neither; in forwarded headers an old flag decides.

## 7. Not modelled

Serialisation (formatting), Reflection.Emit output and duck-typed proxies,
metadata and signature parsing and IL encoding in the profiler (sequential
transformations of data), configuration (read once; settings are constants of
the modules), logging set-up, the statsd client (that it may throw is modelled),
the OpenTracing adapters, the client wrappers without context of their own
(Redis, MongoDB, Elasticsearch, GraphQL, ServiceStack), vendored libraries.
Within modelled parts: span fields that no property reads, durations, the
sampler's statistics windows (nothing calls them), disabled integrations (the
wrapper only calls through), the tracestate of W3C, the list of subscribers to
an agent's port, a null HttpContext.Current on the main flow outside of the MVC
calls, a Kafka producer that fails to set its headers and then again. `PROJECT.json` gives the reason component by component.

Most lines of the repository are none of this program's logic: the headers of
the CLR under `src/lib/`, vendored managed libraries under `Vendors/`, samples and
tests. The modules map the parts of `src/src/` that keep state or decide something,
and are small against the whole.

## 8. Plan

1. **TracePipeline**: TraceContext with AgentWriter in place of its Write step,
   through TraceDelivery, so that "finished leads to written" becomes "finished
   leads to delivered, dropped or abandoned".
2. **Subscribers of a port** in ProcessManager: the retry after a subscriber threw
   (`TracingProcessManager.cs:478`).
3. **ModuleLookup and MethodBuilder**: the populate event and the delegate caches;
   PropertyFetcher's two fields.
4. **Tracer start and shutdown**: instance replacement, heartbeat, the handlers.
5. OpenTracing bridge; configuration precedence as pure operators.

Theorems next: the refinements of the composed pipeline (1), and that of the rate
limiter to a limiter whose trim and count are one step, with the overshoot as the
difference.
