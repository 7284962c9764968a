# A verification of txova-go-middleware

`txova-go-middleware` is a Go library of HTTP middlewares: functions from
`http.Handler` to `http.Handler` that a service stacks around its routes. This
directory models the middlewares in TLA+, checks the models with TLC and proves
theorems about them with TLAPS. `PROJECT.json` lists the components, the runs,
the source lines behind each definition, the hazards, the findings and the
theorems; this file explains them.

## 1. Inventory

A service stacks the middlewares in an order its README recommends
(`README.md:208`): request ID, recovery, logging, CORS, timeout, maintenance,
rate limit, auth, and rbac on single routes. They talk to each other in three ways:
- the request's **context** (request ID, user, roles, claims), which only the
  inner layers see;
- the **ResponseWriter**, which recovery, logging and timeout wrap; each
  wrapper remembers for itself what has gone through it;
- the **unwinding**: a return or a panic that passes outwards through all of them.

State that outlives a request exists in two places only: the rate limiter's
counters in Redis and the flags of the maintenance store.

| Component | State | Operations | What is hard | What makes it correct |
|---|---|---|---|---|
| Rate limiting, `ratelimit/ratelimit.go` | a counter with a TTL per `prefix:key` in Redis, shared by all instances | count (a script, or INCR then EXPIRE), read the TTL, read the clock, decide, answer 429 | the commands of concurrent requests interleave; a lost reply, a failed EXPIRE, a crash; windows cut to seconds; instants computed from values read at different times | at most limit + burst served per window; nobody is rejected for another's traffic; every counter goes away; announced times are less than a second early |
| Timeout, `timeout/timeout.go` | the flags `timedOut` and `wroteHeader` under a mutex, the channel `done`, a context | the middleware's goroutine selects between `done` and the context; the handler's goroutine writes | the deadline against a late answer, any order of writes, a handler that never stops, a client that does not read, a panic in the second goroutine, headers no lock protects | one author of the response; every timeout answered; nothing after the return; the middleware returns, if the client reads |
| Recovery, `recovery/recovery.go` | the flag `written` of its writer | recover a panic and answer 500 if nothing was written | what its wrapper saw against what was really sent; its answer is two writes, with a deadline in between | a clean panic is answered; an error body is never appended |
| Logging, `mwlog/mwlog.go` | status and size of its writer | wrap, Flush, Hijack, log after the return | panics pass it by; Flush and Hijack go past its bookkeeping; it logs from the context it was given | the log tells what the client got; every request is logged; entries lead to the request and its user |
| Chains, `chain/chain.go` | the slice of a `Group` | `Chain`, `NewGroup`, `Use`, `Clone`, `Extend`, `Middleware`, `Then`, `ThenFunc` | slices share arrays, `append` writes in place, closures read late | groups behave as values; the first middleware is the outermost |
| Authentication, `auth/` | the context | extract and validate a token, inject its claims | layers may be nested; each validates at its own time; a validator may be nil in two ways; empty claims are not injected | only authenticated requests get through; identities are stable |
| Access control, `rbac/rbac.go` | none, reads the context | five `Require...` middlewares | judges by one part of the context, logs from another; empty owner against empty user | served requests meet every guard; good ones are served; denials name the actor |
| Maintenance, `maintenance/maintenance.go` | the flags of the store | three calls that may each fail or hang | the operator acts between the calls | blocking, serving and the notice are each justified; bypasses never wait |
| Request context, `context.go` | typed keys of a context | `With...`, `...FromContext` | a layer sees what the layers outside it have put in, and no layer outside sees it | identities are stable; limits by user go by the right name |
| Request ID, `requestid/requestid.go` | a header and a context value | accept or generate | nested layers; order relative to recovery and log | the ID in log, response and context agree |
| Client address, `httputil.go` | none | `GetClientIP` | a list that begins with a comma or blanks | bypass clients are recognised behind any proxies |
| CORS, `mwcors/cors.go` | none | hands its configuration to go-chi/cors | order relative to auth | preflight requests need no identity |
| Errors, `errors.go` | none | codes, their statuses, constructors | - | pure functions over constants; only the codes appear in the models |

The `hazards` of `PROJECT.json` name the line where each of these bites and the
properties that would catch it.

## 2. Modules

| Module | Models | Specification it implements |
|---|---|---|
| `Ratelimit` | `Middleware`, `Limiter.Check`, `checkAtomic`, `calculateResult`, `writeRateLimitError`, over Redis and a clock | `FixedWindow` |
| `Timeout` | `timeoutWriter` and `Middleware`, statement by statement | `OneAnswer` |
| `ResponsePath` | the writers of recovery, mwlog and timeout in any nesting, two goroutines, and the unwinding | - |
| `ChainGroup` | `Chain` and `Group` over Go slices | `Groups` |
| `Access` | auth, optional auth and rbac: the handlers of these layers | - |
| `Pipeline` | one request through a whole route and back; uses `Access` | - |
| `ClientAddress` | `GetClientIP`, and what its comment promises | `IsFrom`, a definition |
| `Maintenance` | `Middleware` and an operator; uses `ClientAddress` | - |

`FixedWindow`, `OneAnswer` and `Groups` are abstract: they say what the comments of
the code promise, with no Redis, no mutex and no arrays. Each `...MC` module gives the constants
of its component values (`PipelineMC` those of `Access` too); each `...Proofs`
module holds theorems. Operators whose comment begins with *Mutation* are broken variants
of the definition after them: a property is listed only if such a variant
violates it.

### Ratelimit
One state machine for any number of requests on any number of instances: the
instances share only Redis, so a request is all there is to an instance. `store`
is Redis. `pc[r]` is where request `r` is in `Middleware` and `Check`: `count`
(`Eval`, or `IncrOnly` with a client that has no Eval), `expire` (`ExpireKey`),
`ttl` (`ReadTTL`), `decide` (`Decide`), `reject` (`WriteRateLimitError`). Every
Redis command and every reading of the clock is a step. A counting command that
fails may have been executed (`FailOpen`). `Crash` ends a request anywhere
between two commands. `Tick` is time, in fractions of a second, so that the
cutting to whole seconds is visible. `reset` and `retry` hold instants relative
to now, so they stay bounded while time does not; `phase` is how far the wall clock, on
which all services agree, is into its second, and `Announced` the instant that
X-RateLimit-Reset names, `resetAt.Unix()`: `resetAt` cut to its full second. `Faults` are the
commands that may fail. `life` numbers the successive
counters under one key, and `hit` is a history variable: the life that counted a
request. The five key functions appear only as the keys they return.
The TTL of the client is exact; a client whose TTL is rounded to seconds, as that of
Redis' own command is, announces instants that are off by up to as much.

### Timeout
`mpc` and `hpc` are the two goroutines; the handler does any sequence of
`Header`, `WriteHeader` and `Write` and may return or panic at any time. `mu`
is `tw.mu`; a method of the handler's takes it in one step and works in
others, because the timeout branch writes to the underlying writer without it.
`base` is that writer, which knows statuses, headers and bodies by their
authors. One request is enough: requests share nothing. The two outcomes of a
data race on the header map are a header set and a process that ends
(`HeaderRace`). A 1xx status is sent at once and leaves the final one open (`base.early`).

### ResponsePath
`path.layer[k]` is what the wrapper of layer `k` remembers, `path.base` what
net/http has sent. `WriteHeader`, `Write`, `Flush` and `Hijack` are functions of
a path: they apply the rules of every wrapper from the handler outwards, as far
as the wrappers let them through. The three wrappers have the same rules for
`WriteHeader` and `Write`, but timeout's lets nothing through once it has
timed out; only mwlog's forwards Flush and Hijack. `mode` and `at` are the
unwinding, for each of two goroutines: without a timeout layer the request is
on one, with it the handler and the layers inside run on the other, and the
panic of one never unwinds the layers of the other. In `Timeout` the steps of
the two goroutines interleave within an operation; here an operation of the
handler is one step, so that the layers on both sides stay in reach. Recovery's answer is two
operations, `Recover` with the status and `RecoverBody` with the body, each under `tw.mu`
by itself, and the deadline may pass between them.

### ChainGroup
`heap` is the arrays, `slice` a pointer and a length for each group and each
chain; the capacity is the length of the array. `AppendSlice` is Go's append:
in place while there is room, else into a new array with any spare room up to
`MaxSpare`, since the runtime decides the growth. `NewGroupOf` is
`NewGroup(s...)`, which keeps the caller's array.

### Access and Pipeline
`ctx` is the innermost context so far, `at` the layer reached. Each layer's
whole handler is one action: refuse, or pass with a context. `clock` is
where the present is in the validity of the token and moves between any two
layers (`TimePasses`). `Outcome` is `Validator.Validate`, with the order in
which its checks and `mapError` decide. A validator is nil as an interface, which
`auth.Middleware` finds out, or as a `*Validator` in the interface, which it does not.
The request has one token, so all layers take the same claims from it.

`Pipeline` adds the other layers and the way back. `held[i]` is the context
layer `i` was given: `r` in its code. What recovery and the log write after
`next.ServeHTTP` comes from there (`EntryOf`), not from `ctx`. A rate limit may
reject and maintenance may block at any time; which key a limit goes by
(`Key`) depends on what the layers outside have put into the context. An answer
or a panic leaves layer after layer (`Leaves`). A panic that comes to a timeout layer is at
the end of its goroutine: the process is `dying`, and until the runtime ends it (`Crash`)
the layers outside may still return, because `close(done)` is deferred. Deadlines do not
pass in `Pipeline`: what they do is in `Timeout` and `ResponsePath`.

### Maintenance
`pc` goes through the three calls of the store; `Operate` is the operator, who
may change one flag between any two of them. `failed` and `past` are history:
the calls that failed, and all values of the flags since the request arrived.
Whether a client is on the bypass list depends on `GetClientIP`, which is checked
against a definition of its own, `IsFrom`: the first address of the list, else
that of `X-Real-IP`, else the remote one.

## 3. Runs

| Run | Question | Expected |
|---|---|---|
| `RatelimitAtomic` | with Eval and faults: is counting exact, does the limit hold, are rejections earned and the announced times right to a second, and is it a fixed window counter? | holds |
| `RatelimitMixed` | one limiter with Eval, one without, on one Redis: is counting exact, and do the counters of the script go away? | holds |
| `RatelimitImmortal` | on the fallback path, does a key keep working after a failed EXPIRE? | violated |
| `RatelimitFraction` | is a window that is not whole seconds honoured? | violated |
| `TimeoutSafe` | one author, an answer, no shared headers without a timeout, a seal, a return if the client reads, and is it a response that two compete for and one gets? | holds |
| `TimeoutPanic` | is a panic of one handler contained, in the recommended order? | violated |
| `ResponsePath` | in any nesting of the three wrappers: are panics answered cleanly, does the log tell what was sent, do late handlers change nothing? | holds |
| `ResponsePathUnlogged` | is every request logged, a panicking one too? | violated |
| `ChainGroup` | are groups values, and is the first middleware the outermost? | holds |
| `Access` | 97 routes: who gets through, who is refused, where a panic ends, and what log, response and rate limits know of the request | holds |
| `AccessAnonymous` | does the log name the user of an authenticated request, in the recommended order? | violated |
| `Maintenance` | is every outcome justified, and do bypasses never wait? | holds |

### What the violations show
Each quotes its doc or comment under `findings`.
- `RatelimitImmortal`: without Eval, the EXPIRE after the first INCR fails, its error is
  ignored, and no later request tries again, for none gets a count of 1. The client that
  comes to the limit is rejected for ever. In the run no other command fails and nothing crashes.
- `RatelimitFraction`: with Eval a window is cut to whole seconds; below one
  second `EXPIRE 0` deletes the counter and nothing is limited.
- `TimeoutPanic`: recovery is recommended outside timeout, and timeout runs the
  handler on a goroutine of its own; a panic there ends the process.
- `ResponsePathUnlogged`: in the recommended order a panic leaves no log entry.
- `AccessAnonymous`: auth is recommended inside the log, and gives the user only
  to the layers inside itself: `user_id` is empty.

Met while modelling, and not made runs of their own:
- all three wrappers take a 1xx status for the final one, drop the real one that
  follows, and believe the response has begun: a later timeout or panic is
  then answered by nobody, and the client gets an empty 200;
- a log layer inside the timeout logs what the handler did, not what the client
  got, and so `LogMatchesClient` is about those outside;
- the rate limit is recommended outside auth, where `KeyByUser` always falls back
  to the address;
- `PRD.md` lists recovery outside request ID; the entry of a panic then has no ID;
- a list of addresses that begins with a comma is taken whole, and one that begins
  with blanks gives the empty address;
- a handler can still change headers after the timeout, and the header map is
  then used by two goroutines (`HeaderRace`);
- when both channels of the select are ready, a handler that has completed in
  time without writing may get the 503 (`SelectTimeout`);
- a Flush before WriteHeader sends a 200 that mwlog does not remember
  (`mwlog/mwlog.go:81`), if no recovery layer, whose writer cannot flush, is
  between the handler and the server;
- a deadline between the status and the body of recovery's answer, inside a timeout, drops the
  body and sends no 503: the client gets a bare 500 (`PanicIsAnswered` says just that);
- a client that stops reading holds the handler in `Write` (`timeout/timeout.go:82`), which
  holds `tw.mu`; `setTimedOut` waits for it, and the middleware returns long after the
  deadline, if at all;
- a log layer inside the timeout may write its entry after the response has ended;
- a nil `*Validator` passes the check of `auth/middleware.go:80` and panics when it is first used;
- the announced reset is up to a second before the end of the window;
- on the fallback path the INCR whose reply is lost may be the first one: nobody then sets the expiry;
- two groups made of one slice with spare capacity (`NewGroup(s...)`)
  overwrite each other's middlewares: `ChainGroup` shows it with `CallerSpare = 1`;
- rbac logs neither a request without claims nor one without an owner parameter;
- the maintenance response carries `SERVICE_UNAVAILABLE`, not the
  `MAINTENANCE_MODE` of `errors.go`.

### Preconditions of the runs that hold
The exceptions are in the properties themselves, as narrow as the code makes
them. `TimeoutIsAnswered` and `PanicIsAnswered` except responses that began
with a 1xx status; `PanicIsAnswered` allows the 500 without its body if the deadline has passed.
`MiddlewareReturns` is about clients that read (`ClientReads`): no write lasts for ever.
`ResetUnderASecondEarly` and `RetryAfterUnderASecondEarly` allow the second that is cut off.
`RejectedOnlyByOwnTraffic` is about limiters with prefixes of their own; the default prefix is
the same for all, and with it they use up each other's limit.
`FinishedIsFinal` is about the response and the entries of layers outside the timeout; `LogMatchesClient` excepts the status (not the size) of those
and of responses settled by a Flush or Hijack past the bookkeeping.
`EntriesAreTraceable` needs request ID layers that agree: one, or a client that
sends an ID. `LimitedByName` is about limits inside auth, `PreflightNeedsNoIdentity`
about CORS outside it. `BlockedOnlyInMaintenance` excepts clients whose headers do
not begin with an address (`Readable`). A process that has ended takes no steps. `ChainGroup` gives the caller's slice no spare
capacity (`CallerSpare = 0`). `RatelimitAtomic` has windows of whole seconds.
It leaves crashes out: a safety run lets every request stop anywhere anyway. They matter to
liveness, in `RatelimitMixed`.

### Bounds
- Rate limiting: three requests exceed the larger limit (2) by one and the
  smaller (1) by two; two limiters with their own prefixes and two keys give
  four counters; two ticks a second is the least that shows a part of a second;
  windows of one and two seconds. The runs with liveness, `RatelimitMixed` and
  `RatelimitImmortal`, have two requests and one key, the number at which one
  request finds the counter of the other.
- Timeout: one request, no bound on what the handler does: its operations
  change a finite state.
- ResponsePath: every sequence of at most four layers with at most one timeout, so
  that each kind is inside and outside each other and of itself; `MaxWrites = 2` writes
  of the handler, a first and a repeated one; a 1xx status, the 200 the wrappers imply, and
  another.
- ChainGroup: two groups, one chain, `MaxArgs = 1`, `MaxLen = 3`, `MaxSpare = 1`:
  a group can be appended to in place, and past its room, after it was shared.
- Access: eleven ways to authenticate, with nil (in both ways), permissive and strict
  validators, excluded paths and two layers, times eight ends with every kind of guard; and
  nine routes with all the other layers, nested recoveries and timeouts among them, in the recommended order and in others;
  24 tokens. Request ID layers all use one header.
- Maintenance: one request, because nothing is kept between requests; one message and
  one end time, which come and go, so that a notice can be out of date; all requests
  with lists of two parts, each an address of two, blank or empty.

`CHECK_DEADLOCK FALSE` stands where a request ends and nothing is left to do.

### Fairness
- Ratelimit: time passes (`WF(Tick)`) and a goroutine that can run does
  (`WF(Step(r))`). A crashed request has no enabled step.
- Timeout: the scheduler runs the middleware's goroutine where it does not write to the client
  (`WF(Computes)`) and the timer fires (`WF(Deadline)`). `SetTimedOut` and `HasWritten`, which
  need `tw.mu`, are strongly fair: a `sync.Mutex` goes into starvation mode after a
  millisecond and is then handed to the waiter. Writes to the client have no fairness:
  they may block, the handler's with `tw.mu` held. That they do not do so for ever is the condition
  `ClientReads` of the property. Nothing makes the handler start an
  operation, return, or look at its context.
- Maintenance: the middleware's own steps are fair (`WF(OwnStep)`), the calls of the
  store are not: they may never return.

## 4. Proofs

For every value of the constants (`PROJECT.json`, `theorems`):

**RatelimitProofs.** Any finite set of requests, any limiters, keys, limits, bursts,
windows, either kind of client, with or without faults and crashes.
- `TypeCorrect`, `Invariance`: `Spec => []TypeOK` and `Spec => []IInv`.
- `LimitHolds`: `Spec => []AtMostLimitPerWindow`.
- `RejectionOnlyByOwnTraffic`: `Spec => []RejectedOnlyByOwnTraffic`, assuming
  `PrefixesDiffer`. The default prefix is the same for all limiters, and with it the property is
  false: limiters share counters.

Neither counting property is inductive: nothing in "at most limit are served"
says which counts the requests still on their way hold. `IInv` adds that: the
counter of a window shows exactly how many requests that window has counted
(`CounterExact`), no count is handed out twice (`CountsDistinct`) or is
greater than the number counted (`CountEarned`), and decisions follow the counts
(`Decided`). So the served ones of a window hold distinct counts in 1..limit,
and there are at most limit of them; and a rejected one holds a count above the
limit, which the counter had to reach first. `RatelimitMixed` checks `IInv`, where both kinds of
clients count side by side. Each action either leaves a counter
alone or in a new life (`Kept`) or counts one request in it (`Bumped`); the
preservation lemmas need only that.

**RatelimitWindowProofs.** The same, with every limiter counting with the script under a
prefix of its own (`OwnScripts`). `IInv` says nothing of time; `Timed` adds that a
counter exists just as long as it has time left, at most its limiter's window
(`LastsAWindow`), and that what a request was told is never less than what is
left of the life that counted it (`ToldEnough`), because the TTL is read before
the clock and both then run down together.
- `ResetIsUnderASecondEarly`, `RetryAfterSuffices`: `ResetUnderASecondEarly` and
  `RetryAfterUnderASecondEarly`, also for windows of a part of a second. The first is about
  the instant of the header, cut to whole seconds; the step from it to `ToldEnough` is
  that the cut is below `TicksPerSecond`.
- `ChecksAFixedWindow`: `Spec => ImplementsFixedWindow`, if windows are whole seconds
  (`WholeWindows`; `RatelimitFraction` shows it is needed) and every limit admits somebody
  (`RealLimits`: otherwise a rejected request opens a window, which `FixedWindow` never
  does). The counting command is the step that judges; everything after it is a stutter.

**RatelimitExpiryProofs.** Any requests, limiters and windows. A step changes a counter in one
of four ways: time passes, the script counts, INCR counts, or EXPIRE sets the time that is left (`OneStep`,
`ExpiryOps`); and a request goes on to EXPIRE only if its INCR has made the counter.
- `ScriptCountersRunOut`: with faults and crashes, what the script counts in has an
  expiry at most a window away, which every tick brings nearer and nothing puts off. It is what
  `CounterEventuallyResets` rests on; that time passes is the fairness left to TLC.
- `FaultlessExpiryComes`: if no counting command and no EXPIRE fails and nothing crashes
  (`~ExpiryFaults`), a counter of INCR and EXPIRE lacks an expiry only while its creator is about to set it.
- `LostExpiryIsLost`: a counter nobody is about to give an expiry (only such faults make one)
  stays in its life and only grows, and from the limit on rejects whoever is counted
  under it. `RatelimitImmortal` shows one such counter; this is every one.

**TimeoutProofs.** Any set of codes. `Invariance` is `Spec => []IInv`: the mutex is held
exactly during the handler's `WriteHeader` and `Write` (`MutexHeld`), how far apart
the goroutines can be (`Phases`), and that the flags agree with what was sent
(`Remembered`); `OneAuthor` is one of its parts, and inductive only together with the others. From it:
- `ResponseHasOneAuthor`: `Spec => []OneAuthor`;
- `TimeoutAlwaysAnswers`: `Spec => []TimeoutIsAnswered`;
- `HeadersRaceOnlyAfterTimeout`: `Spec => []RaceNeedsTimeout`;
- `ResponseIsSealed`: `Spec => SealedAfterReturn`, an action property.
- `AnswersOnce`: `Spec => ImplementsOneAnswer`, the refinement. `OneAnswer` has one response that
  the handler and the timeout compete for, and one of them gets. The
  handler's operation takes effect where it looks at `timedOut` under the mutex, although
  its bytes go out steps later; the 503 takes effect with its body. That the 503 is never sent on top of
  something needs `Untouched` beside `IInv`: nothing goes out early from a handler that has
  begun nothing, and where the timeout writes its body there is none yet. Every other step is a stutter.
`TypeCorrect` is the type invariant.

**MaintenanceProofs.** Any messages, end times, addresses, bypass lists and requests.
`MInv` says what is known at each `pc`: the flags as they are belong to the history, a
request past the first call has seen maintenance on, and what it holds was
found in the store or stands in for something missing. The three properties and the type
invariant follow. `ClientIsFound` shows that `GetClientIP` does what its comment
says for every readable header, and never returns an address the request is not from.

**PipelineProofs.** Any routes of any length, tokens and parameters. `StepKinds` reduces
the actions to four kinds of steps: a layer lets the request go on (and numbers it,
names its bearer, or keeps the context), something answers it, it comes back
through a layer, or time passes (or the process ends). On these rest, one after the other:
- `Typed`: as many contexts are held as layers were passed (`TypeCorrect`);
- `Identity`: the context shows nobody, or in all its parts the bearer of a token that
  was proven (`IdentityStays`). The rest of the proofs about identity need that
  claims, user, type and roles never come from different tokens;
- `Guarded`: every layer passed still finds its demands met (`GuardsAreMet`,
  `IdentitiesAreProven`, `LimitsGoByName`);
- `GoodPasses`: a good request behind auth has its claims (`GoodRequestsPass`);
- `Traced`: of each context held, that its ID is the one in the response just if a
  request ID layer is outside (`EntriesLeadBack`);
- `Stopped`: a panic still on its way has met nothing that stops it, a recovered one was
  stopped and logged by the innermost such layer, one that ends the process came to a timeout
  first (`PanicsAreStopped`: `PanicsEndAtInnermost`);
- `LogsOnTheWayBack`: of the layers between the answer and `at`, those have logged that are
  not excluded and were not passed by a panic (`EveryLogLayerLogs`: an equivalence);
- `PreflightStops`: a preflight request comes no further than the CORS layer
  (`PreflightsPassBeforeAuth`);
- `DenialsNameTheActor`: `FORBIDDEN` and a logged denial imply each other; its entry has the
  user and the request of the context and a guard whose demand they miss. Refusals without claims or
  without an owner parameter are not denials and are not logged.

**ResponsePathProofs.** Any sequence of layers with at most one timeout, any codes, any
number of writes. The inductive `IInv` is `TypeOK` and four parts:
- `Places`: where the two goroutines can be, relative to the timeout layer and to each other;
- `OneAuthor`: whose status and whose parts the response consists of;
- `Mirrored`: what each wrapper remembers against what has been sent past it, for layers that
  are not cut off by the timeout;
- `Recovering`: how a panic that is being answered stands: while its status waits for its
  body, nothing but a deadline can have come between them, and a 500 without a body means that one has.
`WriteHeader`, `Write`, `Flush` and `Hijack` apply each wrapper's rules outwards; lemmas say, for
the path as a whole, which wrappers such a call reaches and what they then hold, and the
proof of each action uses only those. From `IInv`:
- `TypeCorrect`, `BodiesAreNotMixed` (`NoMixedBody`), `PanicsAreAnswered`
  (`PanicIsAnswered`), `LogsMatch` (`LogMatchesClient`);
- `FinishedStaysFinal`: `FinishedIsFinal`, an action property: after the outermost layer has
  returned, no step changes the response or the entry of a layer outside the timeout.

**ChainGroupProofs.** Any groups, chains, middlewares and lengths, and whatever spare room
`append` leaves.
- `TypeCorrect`: no slice reaches past its array, whatever spare capacity the slices passed to
  `NewGroup(s...)` have. `Shape` is the inductive part: no array ever
  gets shorter, and the callers' own has its element.
- `FirstStaysOutermost`: `Spec => []FirstIsOutermost`. `Chain` is a recursive function, and
  what it computes is shown by a least counterexample: were there a place up to which it does not
  keep the order, there would be a least one (`LeastIndex`, from the
  well-foundedness of finite sets of places), and one more layer keeps it (`OneLayerMore`).
- `GroupsAreValues`: `Spec => ImplementsGroups`, the refinement: each function does to the
  lists, seen as values, exactly what its comment says. Here the callers' slices have no spare
  capacity (`CallerSpare = 0`; with it, it is false). `Separate` is the inductive part: of
  the slices that share an array with a group's, none is longer, and if one is another group's
  the array is full. So an append in place writes where only its own group looks.

**Only model-checked.** Liveness under fairness: `CounterEventuallyResets`,
`MiddlewareReturns`, `BypassNeverWaits`. (`LostExpiryIsLost` is the safety side of what
`RatelimitImmortal` shows.) Liveness is out of this prover's reach, as are ENABLED,
the library's induction theorems, which take an operator, and RECURSIVE operators (the
modules have none).

## 5. Not modelled

- The text of logs and error bodies, the masking of query parameters, log levels.
- `Push` of the log writer, which changes nothing the wrappers remember.
- Custom `TokenValidator`s (which could give two layers different claims of one token), the matching of exclude patterns, the cryptography of tokens: a
  token is authentic or not.
- The text of rate limit keys: `Pipeline` has what they are made of, `Ratelimit` that
  they differ.
- Custom header names of request ID layers.
- The error values of `errors.go`, and the origins, methods and headers of CORS, which
  go-chi/cors judges.

## 6. Plan

Everything in the inventory that changes state is modelled, and every safety property
and refinement that a run checks and this prover can reach is proved. What
could still be added:
1. the time between reply and reading of a TTL for clients that round it to seconds;
2. the mutex of `Timeout` inside the nesting of `ResponsePath`, if TLC can be given the states;
3. `ResponsePath` as an implementation of `OneAnswer`, the layers inside the timeout
   taken together as its handler.
