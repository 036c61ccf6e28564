# ProxyLoop in TLA+

ProxyLoop is an agent that renegotiates a bill by phone for a user. Several
asyncio tasks share one event log and the blackboard folded from it. Two quick
models talk (*FastU* with the user, *FastC* with the company's rep). One slow
model (*Slow*) decides. A deterministic *Guard* decides what Slow may do, and a
*Speaker* says the one kind of line that binds the user, the accept. This
directory models the parts of it whose correctness depends on order: who may
commit to what, when, and after hearing what.

Source paths below are relative to the Python package `src/src/proxyloop`.

## 1. Inventory

| Component | Source | State | Operations |
|---|---|---|---|
| Case status machine | `guard/status.py` | `bb.public.status` | `transition`, by 15 triggers |
| Guard | `guard/authorize.py`, `capability.py`, `mandate.py`, `verify.py`, `terms.py` | none: pure over the blackboard | `request_approval`, `accept_offer`, `revalidate`, `decide`, `verify_completion`, `verify_no_deal`, `share_fact` |
| Slow loop and tools | `slow/loop.py`, `tools.py`, `authority.py`, `offer_slots.py` | `LoopState`, wake event, ids used | a step; `record_offer`, `decline_offer`, `propose_mandate`, `tighten_mandate`, `request_approval`, `accept_offer`, `revoke`, `check_account`, `finish`, `guide`, messages and facts |
| Approvals and card timers | `kernel/fence.py` | approvals queue, timers, `_replan` | `decide`, `_expires`, `move`, `hang_up` |
| Fences | `kernel/fence.py` | `_raised`, `_lines`, `_basis`, `_covers`, `moved` | `_raise`, `_bind`, `_minted`, `_rep_line`, `_completed`, `close` |
| Speaker | `kernel/speaker.py`, `channels.py` | floor lock, `_queued`, `_partner`, `_barge`, the rep's incoming turns | Fast turns, `verbatim`, `_floor_revalidated`, `partner_turn`, barge-in |
| Fast lanes | `kernel/lanes.py` | triggers per lane, generation in flight | `generate`, cancel, freshness check, hand-over to the Speaker |
| Wakes, holds, heartbeats | `kernel/wake.py`, `watchdog.py` | timers | wake Slow, re-hold the rep |
| Call gate | `kernel/calls.py`, `guard/needs.py`, `readiness.py`, `holds.py`, `slow/asks.py` | `opened`, ready events, the needs ledger | ask for a fact, open the call once the facts are there or the user has answered |
| Session | `kernel/session.py` | tasks, end event, first error | start, hang-up, ends, drain |
| Bus, log, fold, clock | `core/*.py` | log, queue of nested emits, blackboard | `emit`, `fold` |
| Simulated rep | `env/counterparty/*.py` | policy state | scripted moves, slips, hang-up |
| Simulated user, approver | `env/user/*.py`, `kernel/channels.py` | `_later`, `_seen` | answers, decisions, stop requests |
| Model clients, spend | `llm/*.py` | attempts, ledger | stream, retry, charge |
| Live server | `serve/*.py`, `kernel/web.py` | case registry, streams | start, subscribe, post |
| Evidence chain | `evidence/*.py` | none: pure over a bundle | trace each line said to what produced it |
| Fast grammar | `contract/protocol.py`; `models/fsm.py`, `repair.py`, `cues.py` | parser state | feed, finish, format |
| Read-back, text rules | `guard/readback.py`, `negation.py`, `policy.py`, `declass.py`, `screen.py` | `readback_asks`, what each offer has confirmed | ask the rep to read back, confirm an offer's fields, judge what was said |
| Slow prompts and views | `slow/prompt.py`, `state.py`, `hints.py`, `heard.py`, `contract/views.py` | none: pure over the log and the view | the fate of each GUIDE, the next step for each offer, render |
| Evaluation | `eval/matrix.py`, `benchmark.py`, `obs/` | the runs directory | run, abort, resume and score a campaign |
| Model selection | `src/scripts/mod/` | one file of rows per arm | run, resume and report an arm |
| Training, web app | `training/`, `training_jobs/`, `apps/web/` | outside a session | offline or display only |

**How they interact.** Everything goes through `Bus.emit`. It appends an event
to the log, folds it into the blackboard and calls each subscriber. A handler
that emits again does so inside the same task step, so one *atomic step* of the
system is what a task does between two awaits, with all events and handlers it
sets off. Waiting is done on asyncio events and locks: Slow's wake, `moved` (a
fence or the epoch changed), the floor lock, the approvals queue and the timers.

**What is hard.**

- A grant is checked when Slow asks, and used when the floor comes free. In
  between the user may post decisions, the epoch may move, offers may be
  revised, and the rep may speak.
- One answer of Slow's model holds several tool calls. They run without a pause,
  even after a `finish` among them.
- A card has a timer that outlives the card, and card ids repeat.
- The accept line waits for a fence, the fence for FastC's turn and a Slow step
  that saw it, and FastC may want the floor the line keeps.
- A verbatim line waits for the rep, the rep's turn for the floor, FastC for the
  lines that wait, and each gives the floor back to another.
- An accept that the rep cut off was said, so it counts, but was not heard, so
  it is retried.

- One timer serves three reasons to wake Slow, and each that sets it may forget
  another.
- Slow is told what to do next from a view that lacks part of what the Guard will
  look at, and each offer may leave its step to a better one.
- What the rep heard is worked out twice, by FastC's lane and by Slow, from
  different events.
- Outside the session too, state outlives the process that wrote it: a campaign
  or an arm is killed and resumed, a browser reconnects, a start outlives its
  request.

**What makes each part correct.**

| Component | Property |
|---|---|
| Guard, Slow tools, approvals | every accept said is one the user's decisions allow, once per terms (`ImplementsConsent`, `AcceptOnce`); what the Guard lets through the fold takes (`FoldTakesTheChecked`) |
| Status machine | the status agrees with the line, the card and the outcome (`CommitTracksLine`, `AwaitingHasCard`, `OutcomeTruthful`, `ClosedStaysClosed`, `ReplanOnlyWhenDue`), and no waiting status waits forever (`AwaitingResolves`, `CommitResolves`, `ReplanResolves`) |
| Fences | they are exactly those the unseen inputs need (`FencesTrackInputs`); no accept over something not considered (`ReleaseCovered`); somebody is at work on each (`FencesPursued`); each clears (`FencesClear`) |
| Speaker | the accept is released or revoked (`LineResolves`) and waits for nothing that has changed (`LineWaitsForCause`); one speaks at a time (`OneSpeaker`); no verbatim line before the rep's turns have landed (`ReleaseAfterRep`) or cut by an older one (`LineCutFairly`); no wake is missed (`NoWakeMissed`); everyone gets the floor (`QueuedCounts`, `LinesEnd`, `TurnsLand`) |
| Fast lanes | a GUIDE the rep heard is not said again, and what a lane owes is not lost (`LaneKeepsFaith`); it is settled (`Answers`); Slow is told the truth of what was heard (`FatesSettle`) |
| Evidence chain | every log passes the check of where each line said came from (`LogsPass`) |
| Fast grammar | the items told as a turn streams are those of its text (`TurnsParse`) |
| Wakes | no rep line waits for Slow past the bound, and Slow looks at an open call every heartbeat (`SlowLag`) |
| Call gate | the call opens early only on answers to questions that were heard, and no fact is stuck (`NeedsHonest`) |
| Read-back | the Guard binds only the rep's last word (`BindsReadBack`) |
| Status bar | the next steps it names are ones the Guard lets through, and some offer has one (`HintsAgree`) |
| Bus | every subscriber sees the events in log order; a rejection reaches its emitter (`EventOrder`) |
| Session, clients, spend | each attempt charged once; a limit stops new calls; the end names the worst that happened (`CallsCharged`) |
| Simulated rep, user, approver | the rep commits only what was meant, and a grant does not overtake the stop sent before it (`PartnersHonest`) |
| Live server | no session runs unknown and a click counts once (`LiveCasesExact`), a hung start frees the lock (`LockFreed`), a browser misses nothing (`StreamExact`) |
| Evaluation, selection | no cell or item is scored twice, however often the run is killed (`ResumesExact`) |

## 2. Plan

Written first, in this order: `CaseStatus`, `Authority` with `Consent`, `Fence`,
`Speaker`, and the proofs of the three. Then, by the hazards that no property
covered: the tasks around a session's core (`Wakes`, `FastLane`, `CallGate`,
`Bus`, `ModelCalls`), the simulated partners that `Authority` and `Fence` take as
their environment (`SimRep`, `Principal`), what reads the log (`Heard`,
`Readback`, `Fold`, `Grammar`), the live server (`LiveCases`, `LivePosts`,
`Stream`) and the offline campaigns (`Matrix`, `ArmRun`). Last, the steps the status bar
names (`Hints`) and the provenance of each line in the log (`Chain`).

Left, most worthwhile first:

1. `Authority` and `Fence` composed on the epoch, the accept line and the fences,
   so that `Authority`'s free fences become the real ones. Now `Authority` takes
   any fences, which covers the real ones; the composition would add liveness
   without the help of the expiry.
2. The rest of the status bar (`slow/state.py`): the levers line, the ask to close and
   the final offer, each judged against what `Heard` says was heard.
3. The other checks of a finished bundle (`check.py`, `reality.py`), over its files.

## 3. Modules

| Module | Models |
|---|---|
| `CaseStatus` | the transition table of `guard/status.py`, as operators |
| `Authority` | offers, mandates, cards, decisions, capabilities, the accept line, the status, the end of a case |
| `Consent` | abstract: what the Guard promises the user |
| `AuthorityConsent` | the refinement mapping from `Authority` to `Consent` |
| `Hints` | the verdicts and the next step the status bar names for each offer |
| `MCAuthority` | the root that checks `Authority`, under six sets of bounds |
| `MCOffers`, `MCHints` | the roots that check `Hints`; the second under three sets of bounds |
| `AuthorityProofs` | theorems about `Authority` and `Hints`, and that `Authority` implements `Consent` |
| `Fence` | fences, the Fast turns and Slow steps that move them, the accept line's wait |
| `FenceProofs` | theorems about `Fence` |
| `Speaker` | the floor of the call: lock, FastC's turns, verbatim lines, the rep's turns |
| `SpeakerProofs` | theorems about `Speaker` |
| `Wakes` | when Slow takes a step: merged wakes, held lines, the one timer |
| `FastLane` | a lane's triggers, its one generation, what it voices and says again |
| `Heard` | the log a lane writes, and what Slow reads in it: the fate of each GUIDE |
| `Chain` | the events of lanes, model calls and speakers, and the check of a bundle's chain |
| `CallGate` | readiness, asks and their ledger, `start_call`, the deadline, holds |
| `Bus` | nested, isolated and failing subscribers; the rejection of an event |
| `Fold` | the reducers of the authority events, against the Guard's checks |
| `ModelCalls` | attempts, the retry, charges, limits, the end of a session |
| `Readback` | offers recorded, read-back requests, what confirms a term |
| `Grammar` | the stream parser of a Fast turn, and the canonical text |
| `SimRep` | the simulated rep: backlog, policy, strikes, timers |
| `Principal` | the simulated user's voice, approval button and scripted stop |
| `LiveCases` | starts, their lock and time-out, the registry, the one session |
| `LivePosts` | clicks on cards, and the kernel's decisions |
| `Stream` | following a log over a WebSocket, with reconnects |
| `Matrix` | an evaluation campaign: cells, abort, kill, resume, report |
| `ArmRun` | a resumable arm of the world-model selection |
| `MCParts`, `MCProgress` | the roots that check them, part by part; the second also the liveness of `Authority` and `Speaker` |
| `KernelProofs` | theorems about `Bus`, `Wakes`, `CallGate`, `Fold`, `Readback` |
| `PartnersProofs` | theorems about `ModelCalls`, `Principal`, `SimRep` |
| `HostProofs` | theorems about `LiveCases`, `LivePosts`, `Stream`, `Matrix`, `ArmRun`, `Chain` |
| `LaneProofs` | theorems about `FastLane` and `Heard` |
| `PartsProofs` | that they hold of the parts as `MCParts` instances them |

Operators described as *Mutant* are variants of the definition that follows
them, each with one plausible error; no specification uses them. For each
property they show an error in the code the property would catch.

### Authority

Each variable is a field of the blackboard or of a kernel object; the
declarations name it. A terms hash is the revision it hashes, a record of the
offer, revision, price and change. Two ideas carry the module:

- **Steps of Slow.** `StepStarted` builds the view and notes a pending replan.
  While `slow = "thinking"` the model call is in progress and every other task
  moves. `Act` and the tools then run with `slow = "acting"`, and every other
  task's action has the guard `Others`, because `slow/loop.py` does not await
  between the tools of an answer. A `finish` sets `"closing"`, which refuses
  nothing: later calls of the answer still run.
- **Moves.** `Move(trigger)` is `Authority.move`: a trigger that is no transition
  of the status changes nothing, which the code relies on. Entering
  `NEEDS_REPLAN` arms `_replan`. A step that starts later has seen it, and its
  completion returns the case to `IN_CALL`.

`Grants` is `_grant`, `MayAccept` the refusals of `accept_offer`, `Verdict` the
loop body of `_floor_revalidated`, `MayDecideCard` and `MayDecideMandate` the
conditions of `decide`. Left open: the model's choice of tools, whether a
read-back confirmed an offer (it only refuses more), which lines a mint fences
and which fences a step clears (that is `Fence`), what the partners do. Refused
tool calls change none of the state modelled here and are not actions.

`consents` is a history variable: the mandates granted, with the epoch they
grant in. It lets `Consent` speak of the user's decision, not of the slot Slow
may overwrite with a new proposal.

### Hints

`Hints` adds no state and no action to `Authority`: it reads its state as
`slow/hints.py` reads Slow's view. A view `v` holds what the bar looks at and
`Authority` does not: which slots an offer has recorded so far (`have`) and whether
the rep confirmed them (`sure`); a property is stated for every view of a state.
`DryAccept` is the accept rule on the board `_board` builds, which has no
capabilities: that is the whole difference between what is named and what the Guard
does. `Better` is `better`: a set of answers, since of equally cheap offers the code
takes the first recorded and the model any. `Names...` are the conditions under which
an entry names a step. What words a step takes, by whether a lever is free or on its way,
a read-back asked or stuck, is left out; so is the line that replaces all of them
once the user asked to stop. The term and the one-time fees of a revision are given by
the constant `Rest`, any numbers; a mandate bounds the price and forbids changes, as in
`Authority`; a required feature is part of the change.

### Fence

Positions of the log are kept for the events a comparison can tell apart. A
fence is `[lane, seq, at]`: the line's own position and the position a Slow
step's basis must reach, `None` until a Fast turn answered it. `transcript`,
chosen once, is `SlowViewMode`: with the transcript in view a rep line is covered by its own
position, and without it by Fast's answer. `fast[l]` is the generation in
flight with what it has seen change; `pending[l]` holds its triggers. The accept
line's stages separate `"held"` (FastC must stay off the floor) from
`"waiting"` (it may answer). `inputs` is a history variable: what a partner said
and no completed Slow step has considered. It is kept apart from `raised` and
`lines`, so that it can judge them.

### Speaker

An action is what one task does between two awaits, where another task can come
between them. `floor` is the lock with its queue, as asyncio keeps it: first
come, first served, a released lock goes to the first that waits. `stage[v]`
follows the task of one verbatim line through `verbatim`,
`_floor_revalidated` and `_floor_after_partner`; `fast` follows FastC's one turn,
the disclosure being the first. `incoming`, `composing` and `rep` hold a rep turn
from its beginning until its lines land (`TurnLands`). Rep turns are numbered as
they begin; `begun`, `landed` and `mark` are history, which let a property say
which turn is older than which speech.

`sim`, chosen once, tells the simulated rep, whose channel is busy while it hears and composes,
from a person who types at any time and whose channel never is. A turn of several
lines is one speech. The clock of a speech is a choice: it is heard whole or, once
the rep barged in, in part. Left open: whether an accept may go out (`Authority`,
`Fence`), which models want to speak, what the rep answers. A hang-up or a quit
ends the session, and is not here.

### The parts

The modules below share no state with each other in the model, so one root checks
many: its variable `part`, chosen by `Init`, says which module's `Next` is taken,
and `x1, x2, ...` stand for that module's variables (`INSTANCE ... WITH`). A
property of the root is that of its part under `part = "..."`. The union of the
state spaces is what TLC explores; nothing is a product. The bounds are constants
of `MCParts`, which `Parts.cfg` gives their values, so that its theorems hold for
any. `Heard` is the exception
among them: it EXTENDS `FastLane` and writes the log beside the lane's own steps.

**`Wakes`.** Time is urgent: a ready task runs before the clock moves. `timer` is
`_due` with the reason it will wake for; `lines`, `gens` and `held` are `Wakes`'
own sets as Booleans. `unseen` and `rested` are history: they judge the bound that
the docstring of `kernel/wake.py` states.

**`FastLane`.** One lane, either one. `pending` is the merged trigger, `phase` where
its single generation is; `"loop"` is the moment in which a generation has ended
and the next is taken with no await between. A turn may say nothing, hold, wait,
end the call or be cancelled. The retry of an empty turn, the re-trigger of a stale
one and the GUIDEs given back by a cut one are all there, since `_said`, `_retried`
and `s2f_pending` decide among them who says what again.

**`Heard`.** `gens` is the log by generation (request, turn with what it cites,
cancel, deliveries). `fates` caches the pure function of `slow/heard.py`, so that
an action property can compare it with its next value.

**`Chain`.** `log` holds the events that the check follows, an event's id its place;
what it cites is a set of places. Whether a turn is stale, a line cut or an accept
revoked is free here: `FastLane`, `Speaker` and `Authority` say when. `state` keeps apart
`_ending`, when what runs goes on to its next await, and the end, after which only
records are written. Each operator of the check is a function of `evidence/chain.py`;
`ItemsOf`, what the grammar makes of a text, is a constant.

**`CallGate`.** A key's need is `none`, `pending` or `replied`; `voicing` keeps, for
each ask not voiced yet, the needs before it, as `guard/needs.py` does to restore
them when the turn says nothing. `told` is history.

**`Bus`.** An event is its place in the log. A subscriber's code is any: it may
return, raise, emit again, and swallow what that nested emit raised.

**`Fold`.** `todo` holds the effects of one check, emitted in turn with no task
between but with the clock free to tick. Each reducer's conditions are those of
`core/fold.py`, each check's those of `guard/*.py`: the two are written apart in the
code, and here.

**`ModelCalls`.** A charge moves the ledger by one unit; a deadline, a cancellation,
the death of an endpoint and the crossing of a limit can each come between an
attempt and its charge. A task that is ready runs once more after the first end.

**`Readback`.** A rep line is one clause, given by the values it states for each
field. Reading those off English words is not modelled. An offer has a price and
either a fee or the statement that there is none.

**`Grammar`.** A text is a sequence of words, one for each token the grammar tells
apart; a delta may end inside a word (`half`). `Parse` is the text in one piece,
and the streamed parser is compared with it.

**`SimRep`, `Principal`.** The models behind the rep (Ear, Mouth) give any of their
outputs. The facts of the identity are not counted: a fact is wrong, one of those missing,
or the last. `Principal` keeps the two channels apart: replies, which are serialised
behind a lock, and approvals, which are not.

**`LiveCases`, `LivePosts`, `Stream`.** A request's handler, its start task and the
session are three actors; a client may leave, a start may time out, hang or
swallow its cancellation. A card's id is its stem and the count of approvals
decided under it, which is why ids repeat. A stream reads a chunk and then sends
its frames one by one; the client may leave between any two, and what is on the way
is lost, the close included. The browser is external: it asks for what comes after
the last frame it took.

**`Matrix`, `ArmRun`.** What is on disk survives a kill; what is in memory does
not. A kill of an arm may leave any prefix of a row. What a row says is abstracted, and
with it one thing that can break it: rows are written with `ensure_ascii=False` and read
with `splitlines()` (`world_select_run.py:422-424`, `:474`), so that a reply with a
Unicode line break, as U+2028, makes two lines that do not parse. Its item is then run
again by each resume. `ArmRun` assumes that no reply has one.

## 4. Runs

The bounds of a run are constants of its `.cfg`. All act in guards of the
environment or of Slow's choices, never in a check of the Guard.

| Run | Asks | Bounds and why they suffice |
|---|---|---|
| `authority_safety` | `ImplementsConsent`, `AcceptOnce`, `CommitTracksLine`, `OutcomeTruthful`, `AwaitingHasCard`, `ReplanOnlyWhenDue`, `ClosedStaysClosed` | six parts, all properties on each. *Retries*: one offer, an approval and a mandate, one confirmation id, one newer epoch, three ticks: an accept cut or revoked, a second grant of the same terms, a second accept of them, every outcome. *Mandates*: two prices and revisions, two mandates, two epochs: one that covers a price and not the other, is tightened, replaced or denied, and a second accept on the strength of a spent one. *Changes*: a mandate that forbids the change of a revision. *Two offers*: two approvals, one newer epoch: a grant for one offer or epoch tried on another. *Cards*: offers that live 1 or 3 units, card life 2, four ticks: a card outlives, or is outlived by, its successor of the same id. *Fences*: one offer, an approval or a mandate, one newer epoch, two ticks, and both partners may speak: an accept waits behind a fence until it clears, the epoch moves or its capability expires |
| `authority_denial` | `DenialWins` (violated) | one offer, two decisions |
| `fence_safety` | `FencesTrackInputs`, `ReleaseCovered`, `FencesPursued`, `LineWaitsForCause`, `FencesClear`, `LineResolves` | both views; two inputs, of them one message at most, one mint, one epoch: a rep line before the mint and one after it, in every order with FastC's turn and Slow's steps; a rep line that FastC cannot answer because its turn to a nudge waits for the floor; no other wake of Slow is assumed. A second accept that meets lines the first left is beyond this run, and within the proofs of the four safety properties |
| `speaker_safety` | `OneSpeaker`, `QueuedCounts`, `ReleaseAfterRep`, `LineCutFairly`, `NoWakeMissed` | a simulated rep, and a person who also types before the call opens; an accept and a decline, three rep turns, two FastC turns, one fence wait: one turn on the floor, one queued and one composed, while both lines and FastC want it |
| `speaker_older_turn` | `OlderTurnWaits` (violated) | one accept, two turns |
| `speaker_disclosure` | `DisclosureFirst` (violated) | one decline |
| `parts` | the fourteen properties of the parts | see below |
| `progress` | `LinesEnd`, `TurnsLand`, `Answers`, `LockFreed`, `AwaitingResolves`, `CommitResolves`, `ReplanResolves` | *Authority*: one offer, one approval, one newer epoch, two ticks, a fence that may never clear: the card expires, or the accept's capability does. *Speaker*: both kinds of rep, an accept and a decline, two rep turns, one FastC turn after the disclosure, one fence wait: every pair can wait for each other. A line is said once and they are finitely many, so that `LinesEnd` asks for a moment when none is under way. *Fast lane*: two GUIDEs, two messages, a notice, an epoch; rep lines and user messages without bound. *Live cases*: two requests |
| `principal_offer` | `OfferStops` (violated) | two cards, one message |
| `live_posts` | `JudgedAfresh` (violated) | three clicks, two revisions |
| `hints_agree` | `HintsAgree` | three parts, each under every view. *Mandates*: two offers at two prices, one fee apart, two mandates to choose among and replace, one newer epoch: one offer inside and one outside, both outside and one dominating, equal prices. *Approvals*: two offers, one decision, a user's message, two ticks: approved, denied, expired, accepted and cut. *Both*: one offer that a mandate covers, does not cover or forbids, with its card. More than two offers only lengthen the search for the least, which the proof covers |
| `hints_capability` | `NamedAcceptPasses` (violated) | two offers, one decision, no mandate |

`parts` gives each part the smallest instance in which its hazard can bite twice:

| Part | Property | Bounds |
|---|---|---|
| wakes | `SlowLag` | heartbeat 2, waits of 1 and 3 (under it and over), two rep lines, three steps |
| call gate | `NeedsHonest` | two keys, asked one by one or together, two asks: one that restores what the other changed |
| bus | `EventOrder` | three subscribers, one of them isolated; four events, so that nesting is two deep |
| model calls | `CallsCharged` | three tasks of which one streams, one endpoint without a price, two calls each, limits of 1 |
| rep | `PartnersHonest`: a commitment was meant, each strike is reported once | two rungs, one of which lapses; two strikes; five utterances, two to a block |
| principal | `PartnersHonest`: no grant overtakes a stop | one card, one user message; a stop due before, at or after the decision |
| live cases | `LiveCasesExact`: no session runs unknown | two requests |
| live posts | `LiveCasesExact`: a click is handed over once, and not again once decided | three clicks, three cards of two revisions |
| stream | `StreamExact` | five events, chunks of three half lines, any of them hidden |
| fold | `FoldTakesTheChecked` | one offer of two revisions, an epoch, a card that lives one instant |
| matrix | `ResumesExact` | one cell in two conditions; plans of one or both in either order; three bundles a folder |
| arm | `ResumesExact` | three items, two at a time, two calls, four rows |
| heard | `LaneKeepsFaith`: a GUIDE is heard once; `FatesSettle` | two GUIDEs, three generations of two sentences, one rep line, one verbatim line, one epoch |
| chain | `LogsPass` | one lane, two generations, texts of two lines alike or of none; the disclosure and one accept: a call retried, a turn cut between two lines that read alike, an accept revoked |
| read-back | `BindsReadBack`: what is bound is the last word, and became so by no answer that changed it | two offers, three revisions, one request, three rep lines of five kinds |
| grammar | `TurnsParse` | every text of at most four of ten words, cut into deltas anywhere |

Two accepts are enough for the accept properties since each compares two
capabilities, and two cards for the timers since each compares a timer with the
card pending now. The proofs of section 6 remove the bounds where they reach.

Deadlock is checked in the `Fence` run. `Authority` may stop: an ended session
takes no step. So may `Speaker`, when nobody has anything left to say, and each
part, when its bounds are used up or its process has returned.

### What the violated runs show

*`DenialWins`.* `guard/authorize.py:195` says that a user's denial of terms in this epoch wins
over an approval and a mandate, whatever its expiry. That holds for the next
mint. It does not hold for an accept minted already: `request_approval` does not
look at the case status, so Slow may show a second card for the terms while
their accept line waits for the floor. If the user denies that card, the line is
still released, because `revalidate` reads epoch, fences, offer, terms and
expiry, and no denials. `ImplementsConsent` holds nevertheless: the first card
*was* granted, and a denial of the second does not withdraw it.

*`OlderTurnWaits`.* `kernel/speaker.py:230` says that a rep turn begun before a
speech waits for the floor instead of cutting it. The code tells such a turn by
`channel.busy` when the speech began. A turn already composed and queued, which
the ingress takes one iteration of the loop later, is older too, and the channel
is quiet. If FastC's turn is ready in that very iteration, it begins to speak and
is cut at once. `LineCutFairly` shows that accept and decline lines are safe from
this, since they also look at the queue.

*`DisclosureFirst`.* `kernel/calls.py:34` calls the disclosure the first thing the
rep hears. A decline needs an open offer only, and an offer recorded without slots
needs no rep line, so Slow may record and decline one in the intake. The line goes
out on the free floor before the call is opened.

*`OfferStops`.* `env/user/simuser.py:28` says that a rep's offer fires the stop of a
task whose trigger is `after_offer`. It never does. `kernel/fence.py:121` looks for
the event's `intent` in a set of names, and the rep emits the intent as a mapping
(`env/counterparty/simrep.py:138`).

*`JudgedAfresh`.* `serve/cases.py:27-30` says that a denial does not use up the
single-use slot, "only a post handed to the kernel does", and concludes that a later
POST is judged afresh and that an early one cannot burn a valid card. The premise
holds, the conclusion does not: the kernel judges what was handed over once more, and
may deny it, and the slot stays taken. A card that expires with a click in the queue is denied; requested again it
has the same id, since only decided approvals count, and every later click on it is
answered `already_decided`.

*`NamedAcceptPasses`.* `slow/hints.py:166` argues that a board without capabilities is
enough to tell whether an accept would pass, because an authorised accept has moved the
case out of `IN_CALL`. An accept that the rep cut off moves it back, by way of
`NEEDS_REPLAN`, and stays released. If the offer is still approved, the bar then tells
Slow to accept it, and the Guard answers `already_accepted`. Until an accept has gone
out the argument holds, which is `StepsPass`.

## 5. Fairness

For `Authority` the properties assume weak fairness of Slow's own progress (a woken loop starts, a
model call ends within `CALL_S`, an act runs to its end), and strong fairness of
the clock, of a card's timer and of the accept line's task. Strong fairness is
needed because Slow's acts disable the other tasks again and again. It is
justified because asyncio runs each ready task after the current one awaits, and
a timer or lock that became ready stays ready. `AuthorityFair` states
this as the premise of the three properties rather than in the specification, where
TLC would expand the strong fairness against those of every other part. Nothing is assumed of the user,
the rep, FastU, FastC or Slow's choices, so fences may stay up forever; the
capability's expiry ends the wait.

`Authority` has Slow's loop start whenever it is idle. In the code a wake starts
it, and the status changes the liveness properties rest on all wake it; other
wakes are frequent and only add steps.

`Fence` assumes weak fairness of each lane's request, turn and cancellation, of
Slow's start and completion and of the line's task, and strong fairness of
FastC's turn at the floor. Slow starts only if it was woken, and `OtherWake` is
*not* fair: `FencesClear` therefore shows that the wakes `_bind`, `_rep_line` and
`_minted` send suffice. `Expire` is not fair either, so `LineResolves` holds
without help from a timer.

Both assume the floor comes free: a Fast line or a partner's turn ends. The
speaker part of `progress` shows that it does (`LinesEnd`), under weak fairness of
every task that can run, of the end of a speech (12 s at most), of the rep's
composing, of a model call's end, of the end of a fence wait (the capability
expires) and of the opening of the call (the intake has a deadline). Nobody need
begin anything: no turn of the rep or of FastC, no line. Strong fairness is not
needed: the lock is first come, first served.

The lane part assumes that the lane's task runs and that its model call and its
speech end (`Run`), and nothing of its partners. `Answers` is stated under what the
code needs for it: a message of Slow waits for a moment with nothing more urgent,
so it is settled if the lane has such moments again and again; a FastC that is
overtaken speaks if it keeps having something to say.

The start part assumes that the server's loop, its threads and its timers run. A
start may hang and a session may never end.

## 6. Proofs

TLAPS checks these for every value of the constants within the assumptions: any
number of offers, prices, epochs, messages, turns, lines, events, requests,
revisions, utterances, cells, items and clicks. `BoundsAssumption` and
`NoneAssumption` (`Authority`), `FenceConstants`, `SpeakerConstants` and
`PartsAssumption` (`MCParts`) are stated where the constants are declared, and TLC
evaluates them. The theorems about one part name in their own `ASSUME` what they
need of it (`WakeConstants`, `GateConstants`, `FoldConstants`, `RbConstants`,
`CallConstants`, `UserConstants`, `RepConstants`, `MatrixConstants`, `ArmConstants`,
`StreamConstants`, `LogConstants`), each implied by `PartsAssumption`; those about the lane need
nothing. All of them say only that bounds and times are numbers, lifetimes positive,
`None` and `NoTime` none of the values they stand beside, the required keys keys, a
line's values those of the fields, verbatim lines and endpoints finitely many, a text
with one parse, the Guard's lines of one kind each, and that a plan holds a cell once.

| Theorem | States |
|---|---|
| `AuthorityTypes` | `Spec => []TypeOK` |
| `AcceptsOnce` | `Spec => []AcceptOnce` |
| `CommitTracked` | `Spec => []CommitTracksLine` |
| `ClosedCase` | `Spec => ClosedStaysClosed` |
| `AwaitsWithCard` | `Spec => []AwaitingHasCard` |
| `FenceTypes` | `Spec => []TypeOK` |
| `FencesTrack` | `Spec => []FencesTrackInputs` |
| `NothingUnheard` | `Spec => ReleaseCovered` |
| `SpeakerTypes` | `Spec => []TypeOK` |
| `OneSpeaks` | `Spec => []OneSpeaker` |
| `CountsHold` | `Spec => []QueuedCounts` |
| `RepLandsFirst` | `Spec => ReleaseAfterRep` |
| `OutcomesTruthful` | `Spec => []OutcomeTruthful` |
| `ReplansWhenDue` | `Spec => ReplanOnlyWhenDue` |
| `AuthorityImplementsConsent` | `Spec => ImplementsConsent` |
| `CutsFairly` | `Spec => LineCutFairly` |
| `NobodyForgets` | `Spec => []FencesPursued` |
| `WaitsAreDue` | `Spec => []LineWaitsForCause` |
| `WakesArrive` | `Spec => []NoWakeMissed` |
| `HintsInAgreement` | `Spec => []HintsAgree` |

Of the parts, first for the part alone and then, by `PartsProofs`, for `MCParts`:

| Theorem | States | and of `MCParts` |
|---|---|---|
| `LagBounded` | `[](LagBound /\ NeverIdle)` | `SlowSeesInTime`: `[]SlowLag` |
| `EventsInOrder`, `RejectionsReach` | `[]LogOrder`, `[]RejectionReachesEmitter` | `EventsReachInOrder`: `[]EventOrder` |
| `KeysUnstuck`, `StartsAnswered` | `[]NoKeyStuck`, `[][StartCallStep]_vars` | `NeedsAreHonest`: `NeedsHonest` |
| `TakesTheChecked` | `[]FoldTakesTheChecked` | `FoldTakes`: the same |
| `BindsLastWord` | `[]LastWord /\ [][ChangeAskedAgain]_vars` | `BindsTheReadBack`: `BindsReadBack` |
| `CallsAccounted` | `[](EveryAttemptCharged /\ RunawayStops /\ EndNamesTheWorst)` | `CallsAreCharged`: `[]CallsCharged` |
| `GrantsHeedStops`, `RepMeans` | `[]GrantHeedsStop`, `[](CommitMeant /\ StrikesReported)` | `PartnersAreHonest`: `[]PartnersHonest` |
| `CasesKnown`, `OneHandover` | `[](OneSession /\ NoCaseLeftRunning)`, `[]HandedOnce` | `LiveCasesAreExact`: `[]LiveCasesExact` |
| `MatrixResumes` | `[](Counted /\ Claims /\ OneMatrix) /\ [][ScoredOnce]_vars` | `ResumesAreExact`: `ResumesExact` |
| `StreamsExact` | `[]StreamExact` | `StreamsAreExact`: the same |
| `ArmRowsExact` | `[]OneRowEach /\ [][RowsStay]_vars` | (the same theorem) |
| `HeardOnce`, `HeardAlike`, `NothingOwedIsLost` | `[]GuideHeardOnce` of the lane; with the log, `[](Agree /\ WaitsHonest /\ GuideHeardOnce)`; `[]DebtsKept` | `LanesKeepFaith`: `[]LaneKeepsFaith` |
| `EveryLogPasses` | `[]LogPasses` | `LogsAllPass`: `[]LogsPass` |
| `FatesSettled` | `[][FatesStay]_hvars` | `FatesAreSettled`: `FatesSettle` |

**The accept.** `CommitInv` is the conjunction of `CommitTracksLine`,
`AcceptOnce` and "an abandoned case has ended". The parts need each other.
`AcceptOnce` survives a mint because `accept_offer` refuses a second capability
in flight and released terms. Of the terms minted, one is consumed only with the
line that carries it, which `CommitTracksLine` says. The status survives other
steps because the only rows of the table out of `COMMIT_AUTHORIZED` are those of
the line's own triggers (`OtherMoves`, `AcceptMoves`). `hang_up` is the
exception, and the third conjunct covers it: the session has ended, no line is
released. Most actions leave all that state alone, and `Aside` collects them, so
that each of the remaining ones has a lemma of its own.

**The closed case.** `TerminalStays`: no row leaves a terminal status. A release
happens on a line, which by `CommitInv` needs `COMMIT_AUTHORIZED`, or
`ABANDONED` after the end.

**The card.** `AwaitInv` adds to `AwaitingHasCard` that a pending card's epoch is
at most the current one. Without it a bump of the epoch could miss the card: the
code compares `card.epoch < epoch`, not `#`. The timer removes itself only when
its card is due, and if that card is the pending one the case leaves
`AWAITING_APPROVAL` in the same step.

**The fences.** `FencesTrackInputs` with the types is inductive: an input, its
fence and its remembered line carry the same `at`, so that `_bind` sets them
together and `_completed` removes them by the same comparison. `NothingUnheard`
follows from it: a release needs an open call and no fence, while a line in
flight has every input fenced.

**The waits.** Three theorems are the safety half of what the liveness runs check.
`FencesPursued` with the types and `AllInLog` (no fence or line is later than the log) is
inductive: a fence not answered has a turn asked or a trigger that will ask one,
and an answered one has a Slow step that will cover it or a wake. Each step that takes
the pursuer away, a turn gone stale, a generation cancelled, a step completed on an
older basis, leaves another. `LineWaitsForCause` says the line never waits on what has
changed: `moved` is set by every step that changes its reason to wait. `NoWakeMissed`
says the same of the floor's events, from the coupling of `stage`, `queued` and `rep`.

**The floor.** `FloorInv` is the conjunction of the types, `OneSpeaker`,
`QueuedCounts` and `Accounted`. Each step leaves the lock's queue alone, joins it
at the end or takes its first away (`FloorStays`, `FloorJoined`, `FloorLeft`); who
speaks is its first, so whoever gives the floor back leaves nobody speaking. The
count moves by one line at a time, and `TypeOK` follows, since a count is not
negative. `Accounted` says that each rep turn begun is composed, queued, at the
floor or has landed; a release needs the first three empty.

**The cut.** `LineInv`, beside `FloorInv`: while a line is said, the simulated rep
has nothing composed, queued or waiting, and a person only turns begun after the
line did. It holds when the line goes out, since a release finds no turn pending,
and until the line ends nothing is heard and no watchdog ticks, as one speaks at
a time (`OneLine`). So what sets `barge` is newer than the line, and typed.

**The outcome.** `OutcomeAside` is `Aside` for steps that also lose no evidence
and move the case into no status that `OutcomeTruthful` speaks of. By the table,
only the accept's triggers lead into `COMMITTED` and only the two verifiers'
into a verified outcome (`OutcomeMoves`). `CommitInv` gives what those steps need:
the released capability is the line's, and a completion finds one alone.

**The replan.** Only `approval_stale` and `approval_expired` lead from
`AWAITING_APPROVAL` to `NEEDS_REPLAN` (`WaitingMoves`). The first comes with a
bump of the epoch. The second comes from a timer, which compares its card with the
pending one as a record, so that a repeated id does not fire it.

**The refinement.** `ConsentInv` has three parts: everything recorded, shown,
decided or minted is terms of an offer (`KnownInv`); no decision is of a later
epoch, and a mandate that grants is one the user granted (`DecisionInv`); a
capability of this epoch rests on an approval that outlives it or on a mandate
that no accept used up (`BackedInv`). The last is what the release needs: `Verdict`
looks at the capability, the fences and the offer, and not again at the decision
the capability was minted from. Each step of `Authority` is then `Decide`, `Lapse` or
`Commit` of `Consent`, or a stutter.

**The status bar.** `HintInv` needs of `Authority`: the types; `CommitInv`; `KnownInv`, so
that a card or a decision speaks of terms an offer has; and `WholeInv`, that an offer bound by a
read-back is complete. `DryRunTrue`: when nothing has been released and the case is in the
call, no capability is in flight, so the dry run without capabilities is the Guard's
own rule. `CoversOrOutside`: of terms without a hard violation, a mandate in force either
covers them or they are outside it, which is why the hints divide the offers between them.
Deferring ends because each of the two rules picks a least offer: `CheapestUnbeaten` takes a
minimum by price, term and fees, shows by `Least` (natural numbers are well founded) that there
is one, and that nothing dominates it (`Dominance`); `InsideFirst` that an offer inside the mandate
defers to none. `DominantSteps` then finds the step of the one that comes first.
It needs that no card of this epoch was shown for those terms: an expired card counts as
a decision in `approval_hint`, though the Guard would allow a new one, and then neither offer
names a step.

**The parts.** Each has an inductive invariant of its own:

- *Bus* (`OrderInv`): the queue is in order, later than the event being delivered,
  and ends where the log does; those whose turn has come have the event and the
  others nothing so late.
- *Wakes* (`WakeInv`): a rep line Slow has not seen is either with FastC, whose turn
  will wake Slow, or wakes Slow now (`Answer`), and an idle Slow has a wake due
  within the bound (`NeverLate`). One timer serves three reasons, so what must
  survive is not a reason but that something is due in time.
- *Call gate* (`GateInv`): a need says what befell its ask, and so do the needs that
  an ask not voiced yet would restore; restoring them is therefore as honest as
  leaving them.
- *Fold* (`FoldInv`): the effects still to emit are a suffix of what one check
  emits, each taken by the fold if its time is not past (`Plan`), on a clock that is
  at most a speech later than the check. One capability exists per revision, which
  the second authorization of one relies on.
- *Read-back* (`RbInv`): a request cites revisions that were; while one is the offer's
  last, it has the offer's terms. `Borne` is what makes a revision one to bind, in
  terms of the last line that stated each field.
- *Model calls*: the attempts begun are those charged and the one in flight of each
  task that runs (`ChargeInv`); a limit crossed or an endpoint that died has left
  its error, and an error has ended the session (`EndInv`).
- *Principal*: a card has one job, from its asking until its trigger ran (`JobsInv`);
  the approver knows the stop its card set off before it begins to wait, and gets past
  the wait only when that stop is cleared or too late (`WaitOf`).
- *Rep*: `Reacted` is the contract of the policy on one utterance, proved once for
  all its branches, and kept along a block. `AskInv`: only offers made are open, and
  what is confirmed is what was asked last. `StrikeInv`: strikes decided and not
  yet reported make up the difference between the counts.
- *Live cases* (`CaseInv`): a session that opens or lives is registered, stopped,
  reported late, or reached by a request or task that is about to do one of these
  (`Known`); only the last run may not be over (`OnlyLast`).
- *Clicks* (`SlotInv`): whatever is in the kernel's queue or was decided has its slot,
  which nothing frees.
- *Streams* (`StreamInv`): a frame's number is the count of visible events before its
  own. What was taken and what is on the way carry those numbers in a row
  (`Taken`, `OnWire`), and a connection has sent what is visible of the lines behind
  it, from where the browser was when it connected (`Sent`). `CountOrders` turns
  numbers back into events.
- *Campaign* (`MatrixInv`): the folders are those of one plan (`Placed`), nothing
  follows a bundle that is kept (`KeptLast`), and what the process counted of each
  cell behind it is what the cell's folder says (`CellDone`).
- *Arm* (`ArmInv`): an item's final row is its last (`LastFinal`), and a process has
  yet to do exactly what is not done, on whole lines (`Working`).
- *Lane* (`LaneInv`): a GUIDE is a token. It waits unvoiced, or one trigger
  carries it, or the generation at work does; once heard, it is nobody's (`Tokens`,
  `Serving`). The queue of triggers holds one of a kind (`LaneTypes`), so that
  merging two does not double what they carry. `DebtInv` adds that the newest GUIDE and each
  message not settled stays with a trigger or the generation that voices it (`DebtsKept`).
- *Heard* (`HeardInv`): beside the lane's invariant, the log's: generations are
  in the order of the GUIDEs they knew of, and each is over or the one at work
  (`LogGens`, `Working`); the lane's `said` is what the log shows heard whole
  (`Remembers`), the two views that the code computes apart. `Grows`: a step only
  adds to the log or changes the generation at work, which is why a fate that is
  settled stays (`FatesSettled`).
- *Chain* (`ChainInv`): the check looks back over a whole log, so the invariant says
  of each event that it follows from earlier ones (`Follows`), which no later event can
  undo (`FollowsOn`), and of each kind that must be single that it is: one turn a
  generation, one sentence an utterance, one release and one delivery a source. A step
  keeps that since what is at work points at events not used yet: the request has no
  turn (`Asks`), the queued sentences and the released line are undelivered (`Tells`,
  `LineInv`). That no Speech item is said twice, though two may read alike, comes from
  an injection of the deliveries of a text into the items that read so.
- *`MCParts`*: in each module of proofs a part is an instance, as it is in the root,
  with the same substitutions. The lemmas `Same...` of `PartsProofs` show the two
  instances agree definition by definition; a step of the root is then a step of
  the part it began as, or leaves it alone.

**Only model-checked.** The liveness properties (`FencesClear`, `LineResolves`, the
seven of `progress`): fairness and ENABLED are
outside the prover's reach. `TurnsParse` compares a parser with a parse of *every*
text, both of them folds over its words: an induction over data, which this prover
cannot do. TLC checks it over all texts within the bounds.

## 7. Not modelled

- What was said: negation, clauses, policies, declassification and screens are
  regular expressions over English. The modules take their answer as a choice, in
  both directions where it matters; `Readback` takes the values a line states.
- `share_fact`: no effect on commitments. The portal as evidence binds like a
  confirmation, and the rep's closing reply in `verify_no_deal` only refuses more.
- Prices other than one number, except the term and fees in `Hints`, and offers with incomplete fields beyond what
  `Readback` has: nothing compares them further.
- Sub-millisecond clock movement within a task step, except in `Fold`, which is
  about it.
- Prompts, views and the scripted models' cues (`slow/prompt.py` and `slow/state.py`
  beside GUIDEs and the offers line, `contract/views.py`, `models/fsm.py`, `repair.py`, `cues.py`):
  text rendered afresh from the board, with no state of its own.
- Request formats and prices per token (`llm/`), and what the live server shows:
  pages, CSRF tokens, the rep's typed lines, the list of bundles.
- The checks of a finished bundle beside its chain (`evidence/check.py`,
  `reality.py`): pure over its files. What they rely on is checked where it is produced:
  a turn's items (`Grammar`), the log's order (`Bus`), one charge per attempt
  (`ModelCalls`). Of the chain, the digests of models and prompts, which a request and
  its call take from one place.
- Metrics and `obs/`: folds over finished logs that nothing acts on. Of the scripts,
  the spikes and the one-pass reports, exports and profile checks: no state between
  two runs. Training: offline jobs that write their rows once. The web app: a view
  in TypeScript of the stream (`Stream`).
- The fold of events that only record (facts, summaries, evidence), and setting up
  a session from its config.
