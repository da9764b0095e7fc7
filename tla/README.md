# kato-bot in TLA+

kato-bot lets people start kato's troubleshooting use cases from Lark, from
Telegram, over REST and over MCP, one at a time or as a *group* of many targets.
These modules model the parts of it that are concurrent, stateful or easy to get
wrong at a boundary, check them with TLC on small instances, and prove for every
size of the system what TLAPS can reach: the group runner, the group service, the
calls to kato, both chat adapters' handlers, group runs in a chat with their summaries,
the cutting of long messages, and start-up.

Run `tlc -config X.cfg M` for a run of `PROJECT.json` and `tlapm M.tla` for each of
the eight modules named `*Proofs`. `PROJECT.json` also maps every definition to the
source lines it stands for, and names for each property a mutant of the code (an
operator next to the original, introduced as "Mutant") that breaks it.

## 1. Inventory

| Component | State | Operations | Hard behaviour | What makes it correct |
|---|---|---|---|---|
| Group runner, `core/group.go` | channels, worker locals, tallies, retries, context | `Run`, `runOne`, reporter calls | four kinds of goroutine over unbuffered channels, retries, cancellation at any point | no item lost or run twice, tallies exact, no goroutine left behind, complete unless cancelled, ends |
| Group gate, `core/group.go` | `inFlight` | `TryAcquire`, release | taken from REST, MCP, Lark and Telegram at once | one run per group, always released |
| Group service, `groupapi/groupapi.go` | record store | `Submit`, `GetRun`, eviction | eviction and restarts while runs go on and clients poll | a running record is never lost, polls move forward, store bounded |
| Calls to kato, `kato/client.go`, `gateway/`, `api/`, `mcp/`, `core/core.go` | none: an exchange over HTTP | proxy a request, run a use case, read its answer | requests refused, given up on, served late; answers lost or garbled; retries | an effect at most once unless a group retries, and what the caller is told is true |
| Group run in a chat, `lark/dispatch.go`, `telegram/dispatch.go`, `*/groupreporter.go` | progress message, results, summary | `handleGroupRun`, `runGroup`, `Start`, `ServiceDone`, `Finish` | every chat call can fail and shares the run's deadline | what the chat shows is true, the summary covers every result, gate released |
| Telegram wizard, `telegram/session.go`, `dispatch.go`, `render.go` | two session maps, messages, run slots | message, every kind of button, `/cancel`, submit, sweep | handlers of one chat overlap; users share a group; buttons of an earlier process | one wizard per user, only complete forms are run, slots counted |
| Lark card actions, `lark/dispatch.go`, `cardaction.go` | the cards themselves, run slots | message event, card action, run goroutine | redelivery, responses painted late, patches that fail, cards of an earlier process | no running card that never resolves, slots counted |
| Dedup, both `dispatch.go` | a bounded FIFO | `seen` | redelivery beyond the capacity | map and queue agree, no second picker within the capacity |
| Configuration and wiring, `config/config.go`, `cmd/kato-bot/main.go`, `core/registry.go`, `gateway/` | registries, filled once | `Load`, the registrations, the exits | names trimmed, checked and looked up in different places and orders | serves exactly the valid configurations, and what it serves is what the files list |
| Message chunking, `telegram/keyboards.go` | the text left, the chunks | `chunk4096`, `htmlSafeCut` | boundaries beside runes, entities, tags, newlines | lossless, within the limit, nothing cut in half |
| Group summary, `summary/`, `summaryfmt/` | the evidence block while it is built | evidence block, one LLM call, Markdown to HTML | a byte budget over runes | within budget, nothing skipped that fits, truncation said |
| Core intents, `core/core.go` | none | `Handle` | – | modelled inside the two adapters |
| Adapter shells, card and keyboard layout, callback data | none | decide from one update alone | – | not modelled, section 8 |

How they interact: a chat adapter decodes an update into a core *intent*, core
answers through the adapter's renderer, and a validated run comes back as a
deferred function that the adapter gates by its semaphore and starts in a
goroutine. A group run instead goes through the gate of the group runner, which
chats and the group service share; the runner calls kato from its workers and a
`GroupReporter` from the goroutine that collects. REST and MCP also proxy single
requests through the gateway. No lock is held across a call to Lark, Telegram, kato or
the LLM: every critical section of the code is one action here, and everything
between two of them may interleave.

`PROJECT.json` lists the hazards of this code line by line with the properties that
guard against them.

## 2. Plan

Written, in this order:

1. `GroupRun` (what a group run promises) and `GroupRunner` (the worker pool that
   implements it), with `GroupRunnerProofs`;
2. `GroupService`, the gate and the record store, then restarts, with
   `GroupServiceProofs`;
3. `TelegramSessions` and, over it, `TelegramWizard`, then the cluster and group
   buttons and messages of an earlier process, with `TelegramWizardProofs`;
4. `Dedup` and, over it, `LarkAdapter`, with `LarkAdapterProofs`;
5. `ChatGroupRun`, a chat around `GroupRun`, and `Evidence`, used by it, with
   `ChatGroupRunProofs`;
6. `ChunkMessage`, with `ChunkMessageProofs`;
7. `AtMostOnce` (what a caller may conclude) and `KatoCalls` (the doors, the client and
   the network that implement it), with `KatoCallsProofs`;
8. `Startup`, with `StartupProofs`.

What would come next: which element is which in `ChunkMessage`, and with it the order in
which `summaryfmt.inline` closes them.

Two abstract specifications carry the design. `GroupRun` is the contract of a group
run: `GroupRunner` implements it (TLC and TLAPS), and `ChatGroupRun` is built on it and
so needs no workers. `AtMostOnce` is what somebody who asks kato through the bot may
conclude from the answer: `KatoCalls` implements it for every door but group runs (TLC
and TLAPS), for which `TargetsBounded` says what is left of it: a retry repeats only what
was left open.

## 3. Modules

### GroupRun, GroupRunner, GroupRunnerProofs

`GroupRun` knows a phase, an outcome per item and whether the context is done. An
item is reported at most once, and a run ends with items missing only if it was
cancelled.

`GroupRunner` is `GroupRunner.Run`. The goroutines are the caller of `Run` (`caller`,
`summ`, `cur`, `outcome`), the feeder (`next`, `jobsClosed`), the workers (`pc`, `job`,
`attempt`, `out`) and the closer (`resultsClosed`). The channels are unbuffered, so
there is no channel state: a send and its receive are one step of two goroutines,
`Deliver` for jobs and `Collect` for results. `ServiceDone` and `Finish` are the
`CollectingReporter` (`rep`). `calls` and `lastAnswer` record what kato was asked and
last said; they are history. kato may answer anything at any time, also after the
context is done. That allows more than the HTTP client does, which usually fails
then, and so loses no behaviour.

### GroupService, GroupServiceProofs

A run is `new`, `acquired` (gate taken, record built but not yet stored), `working`,
then `succeeded` or `erred`, `finished` (record terminal, gate still held), `over`.
`Submit` takes two locks one after the other and is therefore two actions. Eviction is
part of the insertion, as in the code. Equal start times are ordered either way,
because the code sorts keys that it collected from a map. Chat runs
take the same gate and keep no record. The run between is one step with two
results; that it ends is `GroupRunner`'s `Termination`. `Restart` forgets gates,
records and goroutines at any moment (a run is then `lost`), while clients keep the
ids they were given and go on polling; new ids are drawn after it.

### AtMostOnce, KatoCalls, KatoCallsProofs

One call from its door (`rest`, `mcp`, `chat`, or a target of a `group` run) through the
gateway's or registry's lookup and `kato.Client.do` to kato and back. `wire` is the current
exchange, `late` counts requests the client gave up on that kato may still serve,
`served` counts the times kato did the work. A proxied answer is relayed as it is;
`chat` and `group` decode it and may fail to. Only a group's target is retried. `told`
is what the caller sees: for REST, the status and the kind of error; for the others
`Normalize` or `friendlyKatoError`, which distinguish the same three cases. That kato does
nothing when it answers 4xx, and does the work when it answers 200, is all that is
assumed of it; a 5xx leaves both open. `unsure` is history: the requests that ended
without kato's word on them (`Decided`), which are the only ones a retry may repeat.

### Startup, StartupProofs

`Load` and `main` as they run: one turn of `loadClusters`, of `loadGroups` and of each
registration loop is one action, and a `log.Fatalf` ends the process. A text is a member
of `Raw` and `trim` what `strings.TrimSpace` makes of it. Single environment variables
are abstracted to whether the platforms' credentials are set and whether everything
that is set parses. `Add` is the three registries' common
"replace, or append to the order"; `Items` is the flattening of a group's use cases and
targets into work items, `ForCluster` and `UseCaseCounts` are what pickers and lists read.

### TelegramSessions, TelegramWizard, TelegramWizardProofs

`TelegramSessions` has the two maps of `session.go` (`byM`, `byU`) and one operator per
method. A deadline is abstracted to: a wizard may be swept whenever it exists.
`TelegramWizard` adds the handlers, each a goroutine with a program counter because
the library runs one per update: a text (a new flow, or a reply), `/cancel`, a button of
any kind, the calls they make to core and to Telegram, the semaphore, and the run.
Handlers snapshot the session and go on using it after the lock is released, as the
code does. Input values are reduced to filled and not filled, since only
`requiredMissing` looks at them. `Unreliable` lets Telegram calls fail, and `OldScreens` is
what messages of an earlier process may show: their buttons still work.

### Dedup, LarkAdapter, LarkAdapterProofs

`Dedup` is `seen` as one atomic operation on the map and the queue. `LarkAdapter`
delivers any message or click again at any later time, paints the card of a
callback response at some time after the handler returned (or never, when it came
too late), and lets the patch of a result fail. There is no server-side state per
card: `shown` is the card, a click carries what its button said, and `Init` allows cards of
a former process (`OldCards`). Messages may come without an id, which `seen` never takes
for a duplicate; `PickersApart` is about those that have one. `spoiled` is history: the cards
whose last result was lost on the way, by a refused patch or painted over, until another
paint or patch takes effect; used by `RunningResolves`.

### ChatGroupRun, ChatGroupRunProofs

Extends `GroupRun` with the goroutine behind `handleGroupRun` and `runGroup`. `platform`
selects Lark (a threaded reply per service, then a patch of the parent, skipped when
the reply failed) or Telegram (one edit; a summary in several messages). Every call
uses the run's context: it fails without effect once that is done, and a call that
fails on the way may have taken effect all the same. `gate` is the group's gate as
seen from this run; `OtherRun` takes and returns it for everybody else. A call that
takes effect only after a later one is not modelled.

### ChunkMessage, ChunkMessageProofs

`s` and `out` are the variables of `chunk4096` and one action is one turn of its loop.
A byte is one of the classes the code tells apart, and a text is a sequence of whole
atoms, as the HTML builders emit them: characters, newlines, runes, entities, opening and
closing tags. `Tails`, `Names` and `Attributes` say how long they are, so that a link's
`<a href="...">` with entities in its attribute is one of them. Elements may nest
(`WellNested`, by counting: which tag it is is left out). The check that a cut is not
inside an entity or a tag (`Unclosed`) is on bytes and knows nothing of atoms.

### Evidence

`BuildEvidence` as a recursive function whose step, `Turn`, is one turn of its loop: a result's line is
skipped, written alone, or written with its summary. A result is reduced to lengths: its
line in bytes, its summary in runes of so many bytes, which `truncateHeadTail` caps. The
budget is for lines and summaries; the closing marker comes on top of it, as
`summary_test.go:86` allows. `ChatGroupRun` applies it to its `results`, so to every
order and every outcome a run can produce. `FillsBudget` is the reference: it looks at
what was written, not at how.

## 4. Runs

| Run | Shows | Bounds, and why they are enough |
|---|---|---|
| `GroupRunner` | conservation, tallies, completeness, no leak, justified outcomes, no call after a final answer, every run ends, the pool implements `GroupRun` | 3 items, 2 workers, 1 retry: more items than workers, so workers are reused; each answer, retry and cancellation in every order; no symmetry, as liveness is checked |
| `GroupService` | gate, store, polling, eviction, restart, accepted runs end | 2 groups, 3 submitted runs of which one is polled, 1 chat run, room for 1 record, a TTL that can pass once, 1 restart: both kinds of eviction, running records that alone overfill the store, both entry points, a poll across the restart |
| `KatoCalls` | at most one effect, true answers, retries bounded, the refinement of `AtMostOnce` | 2 calls, each through any door, to a known and an unknown cluster, 2 retries: late requests of two attempts overlap with a third, and a target may be turned away, left unsure and done in one run |
| `Startup` | exactly the valid configurations are served, and served as listed | every file of up to 2 clusters and 2 groups over names that are blank, padded, repeated or unknown; groups without use cases, without targets, with one listed twice; every combination of credentials |
| `ChatGroupRun` | the chat's view of a group run and its gate | 3 targets with all four outcomes, both platforms, a summary in 2 pieces, failures and timeout at every call; a byte budget that, by order and outcome, holds everything, is met exactly, or skips a line or summary before one that still fits |
| `TelegramWizard_group` | a group chat | 2 users, 2 messages that may hold an old picker, 2 handlers, a form and a use case without inputs, 1 slot, 5 updates: two overlapping handlers suffice for every check-then-act of one message |
| `TelegramWizard_private` | a private chat, with fairness | 1 user, 2 messages that may hold an old picker, 2 handlers, 4 updates |
| `LarkAdapter_cards` | cards under redelivery | 2 messages, memory for 1, 1 card (new, or left by a former process as a form, a confirmation or a result), 2 handlers, 1 slot, 2 clicks, 4 deliveries: forgetting, an over-cap submit and two handlers on one card |
| `ChunkMessage` | the cut arithmetic | every text of 1 to 6 atoms with its elements closed: atoms of 1 to 6 bytes, a limit of 11, so that no atom is over half of it and texts are up to three times as long; each kind of atom across each position of a cut, a tag with an entity inside it, two elements in a third |
| `TelegramWizard_double_submit`, `LarkAdapter_redelivered`, `ChunkMessage_parse` | disagreements, section 6 | as small as the counterexample needs |

Runs with `CHECK_DEADLOCK FALSE` stop because a run or the process ends, or because a
bound (updates, clicks, deliveries, run ids, clock, restarts) is used up. `ChatGroupRun`
checks for deadlock: other runs of the group come and go for ever.

Some properties and why they are not obvious:

- `ItemsConserved` places every item with exactly one owner across the feeder, the
  workers and the collector, also while a backoff is being cancelled.
- `TalliesAgree` relates the runner's count and the reporter's own count, which differ
  by the result in hand and which `Finish` overwrites.
- `PollsMoveForward` is what a polling client relies on: 404 always means "ended and
  forgotten", or lost by a restart, and no status is ever taken back.
- `RefinesAtMostOnce`: a status below 300 says the work was done, once; a 4xx says it was
  not and, whatever is still on the way, will not be. It fails as soon as a door other
  than a group run retries, or a client treats some error status as an answer.
- `ServesOnlyValid` compares checks that look at one entry at a time, against maps that
  the loops are still filling and over names trimmed on the way, with validity of the
  two files taken as a whole.
- `FinalIsComplete`: `Finish` writes "N/N" whatever was reported. It is true only since
  the last edit shares the run's expired context and fails. A well-meant fresh context
  there (as in `cardaction.go`) would make the message lie; that is its mutant.
- `TargetsBounded` counts kato's effects for a target, those of requests still on the way
  included, against what is known of each: at most one for every request that ended
  unsure, and one for the last. A group run that asked again after an answer that
  settled the matter would break it, whatever its limit on retries.
- `RunningResolves` is the promise of `cardaction.go`'s comments: a card that says
  running gets its result, with only a refused patch, or one that was overtaken by
  the callback response, excused.
- `Fits` also bounds the number of messages: backing up to a newline, a rune or a tag
  never costs more than half a message. `LimitAssumption` is what that takes: no rune, entity or
  tag is longer than half the limit, 2048 bytes in the code. A link whose target is longer
  would be backed up over further, and one over 4096 bytes cut in two.

## 5. Fairness

Only what the runtime and the timeouts give:

- goroutines that can run are scheduled (weak fairness of their steps);
- a call returns: kato calls by the HTTP client's timeout (`KATO_RUN_TIMEOUT`, passed
  to `kato.New` in `main.go`), chat and LLM calls by the context's deadline;
- a backoff timer fires;
- for `LarkAdapter`, Lark paints a response or drops it.

Nothing is assumed of users, clients, redelivery, the sweeper, the clock, restarts or
cancellation: a group run ends whether or not its context is ever done, and
`SubmittedRunsEnd` excuses the runs a restart lost. In `ChatGroupRun` one weak
fairness condition covers the goroutine, reporting included, since exactly one of
its steps is possible at a time except for which item or outcome comes next. Weak
fairness of the whole step is what one goroutine gets. `KatoCalls` and `Startup` state
safety only: that a call ends is the timeout above, and start-up is a straight line.

## 6. Disagreements found while modelling

Three have runs of their own, which end with TLC's counterexample:

- **Two runs of one wizard** (`TelegramWizard_double_submit`). Two replies to the last
  prompt both snapshot the wizard before either handler closes its input window
  (`telegram/dispatch.go:117-119`, whose comment promises the opposite).
- **A redelivered Run click runs twice** (`LarkAdapter_redelivered`).
  `ARCHITECTURE.md:242-243` calls card actions idempotent repainting; Run is not.
- **Chunks that do not parse** (`ChunkMessage_parse`). `keyboards.go:142-143` and
  `render.go:77-79`: tags are kept whole but elements are not, so a `<b>` or `<pre>`
  across a cut leaves two messages Telegram refuses.

These are stated in the modules and refuted by TLC too, but are not standing runs:

- `DoneHasEveryOutcome` (`GroupRunner`): a context that ends before all items are
  handed out makes `Run` return nil with items missing, and `groupapi` publishes *done*,
  of which `groupapi.go:122-124` says "every service's outcome".
- `DeliveredIsNotRepeated` (`KatoCalls`): an answer that arrived whole but cannot be decoded
  is an error without a status, which `retriable` (`group.go:319-327`, "429/5xx and
  transport errors are retriable") takes for a transport error: a target that was
  done is done again.
- `UnreachableWasTried` (`KatoCalls`): a REST body over the limit or cut off is reported
  like an upstream error, as a 502 (`api.go:85`, `api.go:110`), although kato was never
  tried.
- `TargetsHaveInputs` (`Startup`): the 2026-08-07 group-runs design, lines 66-69, wants
  each target to be a non-empty map; an empty one is accepted and becomes a work item.
- `RepliesFillOwnWizard` (`TelegramWizard`): when two users tap one picker, `begin`
  replaces the first one's wizard but leaves that user's index entry, and the first
  user's replies fill in the second one's form (`session.go:50`, `session.go:98`).
- `RejectionIsShown`: a kato 400 on Telegram shows a bare Run button without the error
  (`render.go:62-64`; `ARCHITECTURE.md:138-139` promises a form error).
- `RunningIsTrue`: after `RunTimeout` the failure is rendered with the expired context, so
  the Telegram message stays at running (`dispatch.go:122-124`; `ARCHITECTURE.md:141`).
- `PromptIsNext`: two overlapping form renders can leave a prompt on screen for an input
  other than the awaited one (`render.go:59-60`; `session.go:14`).

Behaviour worth knowing that contradicts no document, or only a design note:

- a group run cut short by its timeout leaves its message at running, for the reason
  that makes `FinalIsComplete` true;
- on Lark, a very fast run's patch can be overpainted by the callback response that
  says running (excused in `RunningResolves`, until the card is painted again);
- `docs/superpowers` 2026-08-07 group-runs design, lines 98-100, puts group runs under the
  global run semaphore; the code does not take it; a group's configured concurrency
  has a default for values below one and no upper limit;
- a message counts as seen before its picker is posted: one whose picker could not be
  posted is not tried again on redelivery;
- a group run's terminal status is published before its gate is released: a client that
  sees *done* and submits again at once may still be refused;
- the Telegram session store is bounded only by its TTL;
- `/cancel`, and the error of a late button handler, end whatever wizard the message has
  by then, which may be a newer one than was meant;
- the evidence budget is spent in the order targets end, not in that of their severity;
- callback data is limited to 64 bytes; `cbFits` (`callback.go:10-13`), which says so, is
  used by a test only, so long names make a picker Telegram refuses;
- `KATO_RUN_TIMEOUT` of zero or less leaves the HTTP client without a timeout while
  contexts made from it are done at once;
- a stop of the process does not wait for runs in flight; their cards and messages stay
  at running.

## 7. What is proved

Every theorem is for all values of the constants, under the assumptions the modules
name. Each module's argument is an inductive invariant, `IInv`: its theorem `Inductive`
shows that `Init` has it and each action keeps it, with a lemma or step per action and,
below it, one per conjunct the action can disturb. Hardly any of the properties is
inductive by itself; what is added to them is the point of each proof.

**`GroupRunnerProofs`** (any number of items, workers and retries; `NAssumption`,
`ConfigAssumption`, `WorkerAssumption`): all invariants and the action property of the run
`GroupRunner`, and `Refinement`. `IInv` is the conjunction of

- `ControlInv`: which goroutines exist at which point of `caller`, and that
  `resultsClosed` means every worker has ended;
- `UndispatchedInv`: items the feeder has not handed out are untouched everywhere;
- `WorkersInv`: what a worker's locals say of its item at each program counter (calls
  made, last answer, attempts left);
- `OwnershipInv`: an item in a worker's hands is in no other's, and has no outcome yet;
- `OutcomeJustified`, `ReporterInv` (tallies and results by item) and `TypeOK`.

`ItemsConserved` needs ownership, ownership needs the workers' locals, and
completeness needs control: the feeder stopped early only if the context is done,
and the results channel closed only after the last worker delivered.
`TalliesAreExact` adds the cardinality facts (one more item in one bucket).
`Refinement` maps each action to an abstract action or a stutter; `Collect` is `Report`,
`Finish` is `End`, and `End`'s guard is `CompleteWithoutCancel`'s argument.

**`GroupServiceProofs`** (any finite set of groups, any number of runs, polls and
restarts, any store size and TTL; `FiniteAssumption`, `BoundAssumption`,
`DistinctAssumption`): every safety property of the run. `GateInv` ties `inFlight` to the
runs under way, `RecordInv` a record's status to where its run is, `PollInv` what a
client was last told to what can still be true, and `StoreBounded` follows because
whatever eviction leaves over the limit is running, one record per group.

**`KatoCallsProofs`** (any calls, clusters and retries; `RegisteredAssumption`,
`RetriesAssumption`): types, `TargetsBounded`, and that `Spec` implements `AtMostOnce`.
Calls do not influence each other, so `IInv` is a `CallInv` for each: `EffectInv` counts
requests that may still have an effect, against those that ended unsure and the last one,
which counts only while it is open or was done; `AnswerInv` and `ToldInv` carry the
meaning of a status from the wire to the caller.

**`TelegramWizardProofs`** (any users, messages, use cases, inputs, handlers and slots;
the assumptions of `TelegramSessions` and `TelegramWizard`): types, `OneWizardPerUser`,
`RunsAreComplete`, `SlotsAreCounted`, and `IndexedIsOwn` for a chat with one user, where
no other wizard can be at a user's message (with two users it does not hold: whoever
picks in a message where another's wizard is open leaves the other's index entry
behind). `LocalOK` says for each program point what a handler's
locals hold: the inputs it checked are its own copy, which is why a form stays complete
whatever others do to the session, and the slot flag marks the handlers `sem` counts.

**`LarkAdapterProofs`** (any FIFO capacity, messages, cards, clicks, deliveries and
handlers; `CapAssumption`, `IdAssumption`, `SemAssumption`, `BoundAssumption`,
`OldCardsAssumption`): types, `PickersApart`, `SlotsAreCounted`. `PickersApart` is about all of
history, of which the adapter only has the FIFO; `Window` says that the FIFO is the end
of the history, and `Remembering` that one more message keeps it so.

**`ChatGroupRunProofs`** (any targets, summaries and texts; `NAssumption`, `PartsAssumption`,
`TextAssumption`, `BudgetAssumption`): every safety property of the run. The message on screen
is one of the past; `Counted` says that results and tally are those of the targets reported,
and `ShownTrue` that the message is the tally of the first results, which later ones do not
change. `SummaryInv` (theorem `SummaryInductive`) carries what is known from the last edit on:
the edit succeeded, so the context was not done, so the run was complete; and the evidence is
what `BuildEvidence` makes of the results, which do not change any more.
`EvidenceFillsBudget` is then about `BuildEvidence` alone, and needs the loop invariant
`SoFar`: what has been written so far is the sum the reference `Written` gives, it is within
the budget, and a result left out did not fit in what was written before its turn.

**`ChunkMessageProofs`** (texts of any length, runes, entities and tags of any length, any
limit; `AtomAssumption`, `LimitAssumption`): `Lossless`, `Fits` and `AtomsWhole`, which are
inductive together with the types. The code looks at bytes and the property is about atoms.
`AtomSound` says what all atoms have in common: the bytes after the first are a rune's, or
none of them is the atom's own opening or closing byte; and what opens inside one closes
inside it, hence (`TextClosed`) in any text. `Locate` finds the atom in which a position lies,
`EndIsGood` says that the end of an atom is a cut after which whole atoms follow and before
which nothing is open (`Boundary`). `SafeCutIs` and `RuneCutIs` show that backing up from
inside an atom ends at its beginning and no further, also when an entity is inside a tag;
`HardCutIs` and `NewlineCutIs` that each way of choosing a cut is a `GoodCut`.

**`StartupProofs`** (files of any length; `TrimAssumption`, `ClusterFilesAssumption`,
`GroupFilesAssumption`): `ServesOnlyValid`, in both directions, and `ServesConfiguration`. What
the loops have built is the image of the entries before the current one, and those are valid;
`ClustersMeaning` and `GroupsMeaning` relate this to validity of the files. `RegInv` (theorem
`RegistriesInductive`) says the same of the registries: names are unique by then, so each `Add`
appends. What remains is what loops compute: `ItemsAre` (the nested loops are a flattening),
`ForClusterPicks` and `PickersPartition` (each picker has its cluster's groups, so all
pickers together have as many entries as there are groups), and `CountsAddUp` (each turn of
`UseCaseCounts` adds one to one count, and keeps a use case to one count).

Some of these proofs are by induction over data: evidence, chunks, items, pickers, counts. The
library's induction rules cannot be used, and need not be: the loops are recursive functions
on `0 .. n`, `Induction` (a set of numbers with 0 and successors has them all) is proved from the
least number outside the set, and `LoopDefined` gets the loop's function from it. What a
loop's result means is then stated of its state after turn `i`.

Only model-checked: liveness (`Termination`, `SubmittedRunsEnd`, `GateReleased`,
`HandlersFinish`, `RunningResolves`), which is beyond the prover. Every invariant and every other
action property that a passing run checks is a theorem, and so are both refinements.

## 8. Not modelled

- Card and keyboard layout, message wording, logging, JSON shapes, listings of use cases
  and runs, the MCP transport: no state, and no property here is about them.
- The adapter shells: SDK wiring, mention filtering, the Telegram allowlist, the trigger
  of a new flow and the codec of callback data decide from one update alone, keep no
  state and have table tests. What their calls to Lark and Telegram can come to is in
  the modules above.
- The details of environment variables (`Startup` has whether they are set and parse) and
  of the Markdown rules in `summaryfmt`; the LLM call is total and its text does not matter.
  Reading those rules showed two oddities that no model here would: a code span inside a
  link's text keeps its placeholder, since codes are restored before links
  (`summaryfmt.go:187-192`), and emphasis that overlaps bold, as in `**a_b**c_`, is closed
  in the wrong order (`summaryfmt.go:170-185`).
- The kato service, Lark, Telegram and the LLM are the environment.
- Persistence: nothing is persisted, so a restart is `GroupService`'s `Restart` for what
  clients can still ask about, and `Init` with what the chat kept (`OldCards`, `OldScreens`)
  elsewhere. A card left at running by a run that died stays so for ever.
