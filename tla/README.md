# TLA+ models of the ACTIVE Operating System

This directory verifies the core of the real-estate ERP under `src/`: how units of
inventory are held, reserved and sold, how money is booked against a contract's
payment schedule, how automations run, the two synchronisation primitives everything
else leans on, and the services around them: approvals, CRM, AI agents and their
follow-ups, integrations, imports, brokers, permissions and routes. All of it is
model-checked with TLC. Of the 35 safety, action and refinement properties that hold in the
runs, 34 are theorems too, which TLAPS checks for every value of the constants (section 6; those
on the quiet market and most of those on the ledger under an assumption their run shares and a
finding justifies).

Paths below are relative to `src/` of the repository copy (`src/src/modules/...` is
the server's code, `src/public/` the browser's).

## 1. The system

One Node process (`src/src/main.ts`) serves HTTP. Services keep documents in
repositories (`src/src/infra/repository.ts`, SQLite behind `Repository<T>`): every
method is asynchronous, a `save` writes **one whole document** durably, and there
are **no transactions**. An operation over several documents is a sequence of reads
and saves, with an `await` at each. What keeps operations apart is

- `KeyedMutex` (`src/src/infra/keyed-mutex.ts`), in memory, one line per key: units
  (inventory), reservations (sales), payment lines (finance), leads (CRM), runs
  (automation);
- `ConcurrencyLimiter` (`src/src/infra/concurrency-queue.ts`), the bound on the
  automation runs in progress;
- checks made under those locks, on documents read under them.

A restart loses both, and every promise, and keeps every document saved. Timers of
60 s sweep overdue lines, expired reservations, CRM service levels, scheduled
automations, AI follow-ups and AI memory; an event bus carries what services
announce to the automation engine.

### When requests interleave

The shipped repositories resolve at once, so two requests interleave only where code
waits for real input or output (webhooks, integrations, back-off sleeps) or starts
several operations together. The services are nevertheless written for repositories
that take time: the mutexes exist for that, their tests hold a save back behind a
gate to force the interleaving (`inventory.test.ts`, `finance.test.ts`), and the
README of the code announces a move to Postgres behind the same interface. The
models therefore let any other request run **at every await of a repository**. Two
of the four findings (`SalesDoubleSell`, `AutomationRejected`) need no interleaving
of requests, one only the order of microtasks, and one (`LedgerAmendRace`) this
assumption; its entry says so.

### Components

For each: state; operations; what is hard; what makes it correct. The modules are in
section 2; what is left out of a part, in sections 2 and 8.

| Component | State and operations | Hard part | Correct when | Status |
|---|---|---|---|---|
| Keyed mutex | a chain of promises per key; `runExclusive` | microtask order; a body that throws or never returns | one body per key; first come, first served; keys independent | modelled |
| Concurrency limiter | `active`, `waiters`; `run` | the gap between waking a waiter and its continuation | at most `maxConcurrent` jobs; no lost wake-up | modelled |
| Inventory: units, holds, reservations | unit status, hold and reservation rows; hold, reserve, edit, sweep, mark contracted/available | stale copies saved; sweeps racing signatures; expiry | one live hold; a sold unit stays sold | partly |
| Inventory import | none of its own: creates and corrects units row by row | a row failing half-way | as inventory | partly |
| Sales | opportunities, contracts; reserve for an opportunity, sign, cancel, amend | five documents saved in turn without a transaction | one contract per reservation; no double sell; conversion backed by a schedule | partly |
| Payment plans | templates and their versions, lines; generate, rescale | rounding; lines saved one by one | lines add up to the price; paid lines untouched | partly |
| Finance | payments, refunds, receipts; record, refund, overdue sweep | line and ledger rows saved apart; receipt counter in memory | line = sum of its rows; numbers unique; announced once | modelled |
| Payment import | none of its own: calls `recordPayment` per row | partial failure | as finance | modelled |
| Approvals | requests with a status and an action; request, approve, reject, resume | an action resumed once; two approvers at once | approved at most once, effect follows approval | modelled |
| Commissions | rows per contract; record, approve, pay, claw back | claw-back racing payment | one commission per contract and party | partly |
| Automation engine | rules, runs, steps; trigger, execute, retry, approve, recover at boot | duplicate triggers, retries with back-off, crash between steps | a trigger runs once; a step is not repeated; every run ends | partly |
| AI agents | action requests; request, decide, execute | permission, policy and approval gates in order | nothing executes past a closed gate | partly |
| AI workflows | follow-up runs; start, wait, sweep, resume | two sweeps resuming one run | one resumption per wait | modelled |
| AI memory, lead scoring | rows with an expiry; a pure score | none | expired rows are not read | partly (the score) |
| CRM | leads, stages, queues; assign, stage, SLA sweep, merge | round robin under concurrent leads; sweeps racing owners | fair turn; one breach per lead; one default stage | partly |
| Brokers | registrations with a protection window; register, approve, settle | two brokers for one client | one protected broker per client | partly |
| Quotations | reference numbers, versions, statuses | overlapping generations | references unique (they are not, section 5) | partly |
| Integrations, e-signature | connections, their secrets, outbound deliveries, envelopes; connect, send, retry, callback, disconnect | a disconnection during a send; a callback late, early, or on a lost attempt; duplicates | nothing connecting stored outlives a disconnection; reports find their lead; one verdict per envelope | partly |
| Documents | extraction runs; review, correct, confirm | confirmed twice, or reviewed again | imported once per review | partly |
| Imports | import sessions; upload, map, confirm, write row by row | confirmed twice, half-way, or long after it was read | what is stored changes at most as the file says | partly |
| Permissions | roles, grants, scopes; a pure evaluator | precedence of deny and scope | a list shows only what may be opened, a view-only account changes nothing | partly |
| Authentication, onboarding | users, sessions, failed logins; login, lockout | lockout window | locked after the limit | not modelled |
| HTTP server, rate limiter | sliding windows per client; routes | window boundary | never more than the limit in a window | partly (routes) |
| Repositories | tables of documents; find, save | no transactions | a save is atomic and durable | as the services use it |
| Composition root, timers | six timers, boot recovery, routes | overlapping ticks | ticks are idempotent | partly |
| HR, operations, legal, purchasing, marketing, tasks, communication | documents with two to four statuses | calls on one document overlap | legal transitions only; each announced once | modelled |
| Organization | companies, branches, departments, teams, employees | little: one call changes one document | - | not modelled |
| Analytics, forecasting, portal | none: they read others | none | - | not modelled |
| Parsers, CSV, money, logging, search, seed | none | none | - | not modelled (formatting) |
| Frontend | browser state over the routes | none shared | - | not modelled |
| Prisma schema | the relational schema to come | unused today | - | not modelled |

How the modelled parts interact: a route calls Sales; Sales calls Inventory (whose
methods take the lock of the unit), then Payment plans, which writes the lines that
Finance books payments on. The timers call the sweeps. Amendments come back from
Sales to Payment plans and rewrite the lines Finance locks. Approvals stand in front of
signatures, amendments and refunds, and of every action of an AI agent; what routes
announce on the event bus starts automations; imports, brokers and CRM create leads
through one method.

## 2. Modules and their correspondence to the code

| Module | Models |
|---|---|
| `FifoLock` | abstract: a first-come, first-served lock per key |
| `UnitMarket` | abstract: what a unit is held, reserved and sold for, one step each |
| `KeyedMutex` | `keyed-mutex.ts`: `chains`, the promise each call captured, who has settled |
| `KeyedMutexProofs` | theorems about `KeyedMutex` |
| `ConcurrencyLimiter` | `concurrency-queue.ts`: counter, line, microtask queue |
| `ConcurrencyLimiterProofs` | theorems about `ConcurrencyLimiter` |
| `Inventory` | `inventory.service.ts`: units, holds, reservations, the lock of a unit, the sweep |
| `Sales` | `sales.service.ts` composed with `Inventory` (EXTENDS), and the restart of the process |
| `SalesProofs` | theorems about `Sales` |
| `Ledger` | `finance.service.ts`, `rescaleUnpaidLines`, `amendContract`'s effect on one contract |
| `LedgerProofs` | theorems about `Ledger` |
| `Automation` | `automation.service.ts`: the runs of one workflow, their steps, gates, retries and recovery |
| `AutomationProofs` | theorems about `Automation` |
| `Desk` | what the modules below share: the callers, each with at most one call in progress |
| `Sample` | calculations without state: a behaviour is one input and its answer |
| `Registers` | the documents of twelve small services, the moves between their statuses, and the dedupeKeys under which changes are announced |
| `Agents` | `ai-agent.service.ts`: permission, policy, approval and execution of an action; the sales agent's decisions |
| `AgentRules` | the decision rules of the nine agents and the score of a lead (`lead-scoring.service.ts`) |
| `FollowUps` | `ai-workflow.service.ts`: the follow-up of a lead, its wait and its sweep |
| `Schedules` | `schedule-generator.ts` and `money.ts`: amounts and dates of a schedule |
| `Permissions` | `rbac.evaluator.ts` and `scope-filter.ts`: may this account open this record, does its list show it |
| `Routes` | matching of `http-server.ts`, and every route of `app.ts` with its guard and whether it changes anything |
| `Approvals` | `approval-engine.service.ts`, the three actions `app.ts` gates with it, and `sales-commission.service.ts` |
| `Pipeline` | `crm.service.ts`, `crm-stage.service.ts`, `lead-distribution.service.ts` |
| `Deliveries` | `integration.service.ts`, `communication-delivery.service.ts`, `e-signature.service.ts` |
| `Imports` | import sessions, the four imports, and documents whose extraction becomes a row |
| `Brokers` | `brokers.service.ts`: registration and approval of one prospect |
| `Workflows` | `automation.service.ts`: creation and editing of workflows, and the ticks that start scheduled ones |
| `GateProofs` | theorems about `Approvals`, `FollowUps`, `Deliveries`, `Agents`, `AgentRules`, `Permissions`: what waits for an approval, an answer, a callback or a human, and who may see what |
| `RecordProofs` | theorems about `Registers`, `Brokers`, `Workflows`, `Pipeline`, `Schedules`, `Imports`: what calls that save copies leave in the records, and sums |
| `FoldProofs` | lemmas about the folds of the community modules: sums over sets, folds of sequences |
| `MCOffice` | composes the modules from `Desk` on for TLC |
| the other `MC*` | instances for TLC |

**Requests.** In `Inventory`, `Sales`, `Ledger` and `Automation` an asynchronous method call in
progress is a record `req[w]`: its operation, a program counter and the values it has
read and will use later. An action is what happens between two awaits that another
request could tell apart. Acquiring a lock and the one read that follows are one
action, because nobody else may write what is read in between without that lock, or
because the write would be ordered before the acquisition with the same result. A
save writes the copy the request read, as `save({...row, status})` does: if others
wrote in between, they are overwritten. That is kept in each place where it can
happen (`SaveEdit`, `CancelReservation`, `AmendSave`, `SaveLine`, `SweepSave`,
`RescaleSave`).

**Locks.** `unitLock`, `signLock` and `lineLock` are `KeyedMutex` instances, one lock
per key with any waiter next. `KeyedMutex` itself, with its chain of promises, is
shown to implement `FifoLock`, so the composed models do not repeat the chains. They
allow more orders than the code (any waiter, not only the first), so what holds of
them holds of the code; what they need from the order, that a waiter's turn comes, is
in the fairness.

**KeyedMutex.** A call registers (reads the tail of the chain, sets itself as the new
tail), waits for the promise it read, runs its body, and settles; settling lets the
next in line pass. A body may return, throw, or (on keys outside `EndingKeys`) hang.

**Inventory.** A unit is available, held, reserved or contracted; the further
statuses of the domain are reached by no operation modelled. The hold, reservation
and sweep code is step by step; `expired` stands for the comparison of `expiresAt`
with the clock, and the clock may pass an expiry at any moment. `updateUnitDetails`
takes no lock and saves the status it read; so does the model's `edit`.

**Sales.** `signContract` is one action per save, in the code's order: contract,
schedule, unit, reservation, opportunity, all under `signMutex`. `SignPlanFails` is
`generateForContract` throwing. Cancellation and amendment read, then save, without
the lock. `Crash` clears every request and every lock. The route that calls
`generateForContract` again (`app.ts:1217`) is not an action of its own.

`UnitMarket` is what these steps come to: per unit, the holds on it, the reservations of
it and its sales. `Sales` instantiates it with the rows saved (`OnHold`, `Standing`,
`SalesOf`); statuses, locks and requests are not part of it. That a unit has one live hold
at most (`OneLiveHold`) is part of what implementing it says.

**Ledger.** One contract. A line has amount, amount paid and status; `payments` and
`refunds` are the sums of the rows per line; amounts are integers in units of
1/`Fraction` of a cent, and `RoundCents` is what the service's `Math.round(x*100)/100`
does. `receiptCounter` is a module variable and a restart resets it. `restarts` is a
history variable: the lines on which a restart came between the save of the line and
that of its row (`torn`), an amendment cut short (`repricing`), and the receipts
saved in earlier lives. The sweep's events are emitted in one step after it
returns.

**Automation.** One active workflow with fixed `Steps`; rows are numbered in the order
of their creation. `Skips` says which steps the payload of a trigger skips, and a step
is a gate, or an action with its `maxRetries` that stops the run or not. The code's
loop is one action per save and one per attempt; `copy` is the run the loop carries
and saves. Decisions and retries read, then save, and take no lock, so two may act on
one run. `Crash` clears the requests; if runs are `running`, one slot becomes the
recovery, and nothing else starts until it ends (`Listening`). `effects` counts the
successes of each action, and `marks` notes what the code gives up: runs a restart
caught between an action and the save of its index (`repeated`), between a decision
and the save of the run (`dropped`), or that two requests had at once, or a restart
before the parking (`doubled`). The limiter, a delay here, is left out.

**ConcurrencyLimiter.** `tasks` is the microtask queue: resolving a waiter appends its
continuation, which runs after what was queued before. This order is the subject of
the module.

**Desk.** In the modules from here on a call in progress is `...Call[w]`, `Rest` when
caller `w` has none; the conventions are those of the requests above, an action per
save or per read that is used later. Every one of them has a `Stop...` action, the end
of the process: calls vanish with what they had not saved.

A guarantee of these services often holds only as long as two calls do not meet on one
document, since nothing locks it. Each module then has an auxiliary variable that is
set exactly when they meet (`muddled`, `stale`, `crossed`, `contested`, `doubled`,
`early`, `atOnce`, `overlapped`, `torn`, `rushed`, `clashed`, `met`, `reclaimed`), and
the property says what holds until then, and what holds whatever happens.

**Registers.** One document of one register. `Move(op, from, to)` is a method of the
service: its check of the status, and what it saves. `DedupeKey` is the key under which
the route announces the change, and `heard` the keys the automation engine has runs
for: an announcement under a key it has is taken for a duplicate. A ticket may return
to a status it had, so it is exempted (`Reentrant`) where keys are built from statuses.

**Agents, AgentRules.** `Agents` carries one lead through decision, request, policy,
approval, execution and record, while policies and grants change. `AgentRules` has the
rules themselves over samples: `RunDecisionRules` proposes a tool and a confidence, and
`DecisionStatus` compares them with the agent's boundary. Confidences are in percent.
A request that needs an approval is one step here: the code saves the request, the approval,
and the request with the approval's id (`ai-agent.service.ts:394-405`). A decision between the
last two has its status on the request overwritten, and a stop leaves a request nobody is asked
about; neither changes how often an action is carried out or asked for, as the approval decides.

**Schedules.** Money in cents; `RoundExactSum` rounds every share and gives the
remainder to the last. Dates are days counted from the first of January, with the
overflow of `Date.setMonth`. Fees are copied, and left out.

**Permissions, Routes.** `Accounts` ranges over user types, scopes, overrides and
expired roles, `Records` over owners, departments, branches and companies. In `Routes`
a path is a sequence of segments and a route is a row: method, path, verb and resource
of its guard, and whether its handler changes anything. `Serve` matches in the order of
registration, as the server does.

**Approvals.** One approval and its action; signature and refund are one step here,
their own interleavings are in `Sales` and `Ledger`.

**Pipeline.** `crmLocks` are the locks of the company (creation) and of a lead; stages,
pool and the last save of the sweep have none, as in the code.

**FollowUps.** The steps before the wait, the message, the wait, the continuation. An
action's outcome is chosen among those of the pipeline of `Agents`.

**Deliveries.** The provider is external: each attempt of a send is a new request to
it, which it may accept under an id of its own (`accepted`) and its answer be lost, and it
may call back on any of them early, late, twice, or after the disconnection. `timeline` has
the rows of each id: the row `sent` of the attempt that was answered, and the reports.
`secrets` is what is stored for the connection, `credentialKeys` what connecting noted;
`SetSecret` is the secret store, which takes any key at any time. The model has one call
that gets through; sends that fail may come before it.

**Imports.** A file is a sequence of rows with a key, a project and an amount. `items`
is what is stored under a key: a lead, a unit, a line, a document's unit.

**Brokers.** One prospect; `leadFrom` says which registration its lead came from.

**Workflows.** Either one scheduled workflow or those that claim one webhook slug.
Whoever changes a workflow saves the copy it read, the tick included, which may come to
a workflow long after it listed it, since it executes the ones before.

Left out of these modules: tenants, companies and audit rows; texts; fields no guard
looks at; prices of units outside `Imports`; everything an edit of a unit changes other
than the status and price it writes back.

## 3. Runs

All constants are sets of model values or small integers. `CHECK_DEADLOCK FALSE`
everywhere: ids, amounts and restarts are finite budgets, and a system in which every
request has ended and every budget is spent may stop.

| Run | Question | Instance | Result |
|---|---|---|---|
| `KeyedMutex` | Are the promise chains a FIFO lock per key, also after throws, also beside a key whose body hangs? | 4 calls, 2 keys, every assignment; 36,496 states | holds: `MutualExclusion`, `ImplementsFifoLock`, `KeysServedIndependently` |
| `Sales` | What do signing and selling guarantee under every fault? | 1 unit, 2 reservations, 1 opportunity, 2 contracts, 2 requests at a time; expiry, edits, cancellations, failing schedules, restarts; 670 k states | holds: `OneContractPerReservation`, `SaleBacked`, `SoldStaysSold` |
| `SalesQuiet` | Is a unit sold once when no reservation expires, nothing is cancelled or edited and nothing restarts? Is each step one of an abstract market? Do requests end? | 2 holds, 2 reservations, 2 contracts, 3 requests at a time; expiring holds, failing schedules; 27 k states | holds: `NoDoubleSell`, `ImplementsUnitMarket`, `RequestsEnd` |
| `SalesDoubleSell` | Is a unit sold once when a schedule fails and a reservation expires? | as `Sales`, 1 request at a time | **violated** |
| `Ledger` | Do lines and rows agree under interleaved payments, refunds, sweeps and a restart? | lines of 1 and 2 cents, 2 requests at a time, 1 restart; 1.5 M states | holds: `LedgerAgrees`, `MoneyStays`, `SweptOnce`, `ReceiptNumbersUnique` |
| `LedgerAmend` | With requests one after the other, do the lines add up across amendments, and is every due line flagged? | lines of 1 and 3, new prices 2 and 5, 1 restart; 490 k states | holds: `ScheduleAddsUp`, `AmendLeavesPaidLines`, `DueLinesFlagged` |
| `LedgerAmendRace` | Does an amendment leave paid lines alone when a payment is in flight? | 2 requests at a time | **violated** |
| `ConcurrencyLimiter` | Is no wake-up lost, does every call end? | 5 callers, 2 slots; 26 k states | holds: `NoIdleSlot`, `CallsEnd` |
| `ConcurrencyLimiterOver` | Do at most `maxConcurrent` jobs run? | 3 callers, 1 slot | **violated** |
| `Automation` | Does a trigger create one run, are steps done once and in order, is a waiting run asked for, do runs settle? | skipped step, action that goes on, gate, action that stops; 2 requests at a time, 1 retry, 1 restart; 368 k states | holds: `OneRunPerTrigger`, `ExecutedOnce`, `StepsDealtWith`, `WaitingIsAsked`, `EndedStays`, `RunsSettle` |
| `AutomationRejected` | Does a rejected run execute nothing more? | a gate and an action, 1 request at a time, 1 restart | **violated** |
| `Office` | What does each service of the office guarantee when calls overlap and the process stops anywhere? Do rules, schedules, permissions and routes answer every sample as promised? | 2 callers, one desk per behaviour; 1.1 M states | holds, property by property below |

Type correctness of the core is a theorem of its own, that of the modules in `GateProofs` and
`RecordProofs` the first conjunct of their inductive invariants (section 6).

In `Office` the variable `desk` is chosen once and only that desk's module moves: the
modules share no state, and what crosses their border is modelled inside each as its
environment, so the run is the union of nine small state spaces and one of samples.
Its properties:

| Property | Module | Says |
|---|---|---|
| `ChangesHeard` | Registers | each announced change of status has a dedupeKey of its own, so its automation runs |
| `Earned` | Registers | whatever overlaps, nothing is fulfilled, paid or verified whose predecessor never was |
| `DecidedOnce` | Agents | an action is executed once per approval, and not after a rejection |
| `AsksOnceAnHour` | Agents | no second open approval for one lead within the hour |
| `AsksForHelp` | AgentRules | a lead always gets a next action, and a human is asked exactly at the end of the pipeline |
| `ScheduleExact` | Schedules | lines add up to the cent; each is its share by weights that grow with the years, within half a cent, the last within half a cent for each of the others; in order of their dates |
| `ListedIsAllowed` | Permissions | a list never shows what the account may not open |
| `ViewersOnlyLook` | Routes | a request is served by its own route, and an account that may only view changes nothing |
| `OnePerPerson` | Pipeline | no two leads of one phone or national id, whatever overlaps |
| `PenalizedOnce` | Pipeline | one penalty per missed deadline |
| `GatedOnce` | Approvals | nothing gated happens unapproved, twice, or beside a rejection; commissions once, and where a base rate is configured no override without a base |
| `NeverAssumes` | FollowUps | a run waits only for a message that went out, and moves a lead only after it replied |
| `CallbacksAgree` | Deliveries | what a disconnection leaves was stored by hand, and only a send under way undoes it; reports find their lead unless they came before the row, and only a message with its row `sent` has one; one verdict per envelope |
| `ImportKeeps` | Imports | an import neither reprices a reserved unit nor imports or pays twice |
| `BrokerCredit` | Brokers | approved means the lead is the broker's; one protected company per prospect |
| `TriggersKept` | Workflows | scheduled runs an interval apart, each stamp with its run, one per bucket; one claimant per slug |

**Why the bounds are enough.** Every interference the code can show is between two
holders of copies of one document, so two requests at a time on one unit or line
reach it; `SalesQuiet` takes a third, so that two wait for a lock behind one. One
unit suffices where units share no state but the slots; two lines are kept in
`Ledger` because the sweep and the amendment loop over lines, and four calls on two
keys in `KeyedMutex` because the chain needs a predecessor, a holder and a successor,
beside another key. Two reservations and two contracts are the fewest with which a
double sell can happen. One restart per behaviour reaches every single point of
interruption. Amounts of 1 to 3 cents fill a line with one payment, with several, and
exactly; prices 2 and 5 shrink and stretch lines with a residue of rounding. Five
callers on two slots give a line of three that changes while slots change hands. One
key suffices for `Automation`, since runs of different keys share no row; room for a
second run is what a duplicate delivery would fill, and two requests let any two of
deliveries, decisions and retries meet.
`MaxCollected`, `MaxRefunded`, `MaxRestarts`, `MaxRuns`, `MaxRetries`, `Slots` and the
id sets are the bounds, each in the guard of the action that would exceed it.

In `Office` two callers reach every interference of two calls, and one document per
desk suffices because the services share no other state; two leads, two registrations,
two runs, three rows in a file and two confirmations are the fewest in which a
duplicate can arise. Three minutes and an interval of two cross the border of a bucket.
The constraint `Unmuddled` stops at states where `muddled` (Agents) or `crossed`
(Pipeline) is set: what comes after is exempt from their properties. Samples take each
threshold of a rule from both sides (`MCAges`, `Percents`), months of 28 to 31 days
(`StartDays`), and prices whose shares leave every kind of remainder.

**Symmetry.** `Sales` permutes reservations, contracts and slots, `Ledger` slots; both
check no liveness; `Office` permutes its callers. The liveness runs use no symmetry.

## 4. Fairness

- `KeyedMutex`: weak fairness of a call's own steps, and of the body's end for the
  keys in `EndingKeys` only. The event loop runs every microtask that is due; a body
  on any other key may hang for ever.
- `Sales`, `Ledger`: strong fairness of the steps of each request that has started.
  The database answers; and a request waiting for a lock, which others take again and
  again, gets its turn since the line of `KeyedMutex` is first come, first served
  (`ImplementsFifoLock`). Starting a request is never fair: clients may stop coming.
- `Ledger`: strong fairness of starting a sweep, which is the timer of `main.ts`: it
  fires again and again, whatever the requests do. The bound on slots, not the code,
  is why it is strong.
- `Automation`: weak fairness of the steps of each request that has started.
  Repositories answer, attempts are bounded, and an action returns or throws (the
  `fetch` of a webhook step sets no timeout, but Node's gives up by itself).
- `ConcurrencyLimiter`: weak fairness of the event loop, and of each job's end. A job
  of the limiter is a run with bounded retries; one that hung for ever would keep its
  slot, as in the code.

Expiry and faults are never fair. `Office` states no fairness: its properties are safety.

## 5. Findings

1. **`SalesDoubleSell`** (`sales.service.ts:150`). The contract is saved as signed
   before its schedule is generated. If that throws, the signature fails but the
   contract stays; the reservation, still active, runs out; the sweep frees the unit;
   a second reservation of it is signed. Two signed contracts for one unit, with one
   request at a time.
2. **`LedgerAmendRace`** (`payment-plans.service.ts:153`). `rescaleUnpaidLines` saves
   copies of lines without the lock of the finance service; a payment saved between
   its read and its save is overwritten. The comments promise that paid lines are
   never touched, and the tests check that with no payment in flight.
3. **`ConcurrencyLimiterOver`** (`concurrency-queue.ts:22`). The slot is counted free
   before the waiter it was given to has taken it; a caller resumed in between takes
   it too, and one job too many runs.
4. **`AutomationRejected`** (`automation.service.ts:654`). At a gate the approval is
   saved before the run is parked. If the process stops in between, recovery executes
   the gate again, and two approvals are pending. Rejecting one cancels the run;
   approving the other, which asks nothing about the run, resumes it, and the steps
   behind the gate are executed.

The passing runs show how far each reaches. As long as no reservation
expires and nothing is cancelled, edited or restarted, units are sold once, failing
schedules or not (`SalesQuiet`, theorem `SoldOnce`);
`OneContractPerReservation` and `SoldStaysSold` hold through all faults. In whole
cents the ledger agrees. With requests one at a time amendments are safe. Automations
repeat or lose a step only where a restart or a second request met a run, as `marks`
says. And the limiter, though it may overshoot, loses no wake-up.

Met while modelling, without a run of their own (the first is also why the theorems on
the ledger assume whole cents):

- `recordPayment` rounds the line to the cent (`finance.service.ts:79`) and stores the
  Payment row as given, so fractions of a cent drift apart.
- `crm-stage.service.ts:242-246` says that archiving a stage that holds leads is refused
  unless forced; lines 247-251 refuse only the default stage.
- `ai-workflow.service.ts:92-97` promises that no second concurrent run is started; the
  look-up and the save have no lock (`doubled` in `FollowUps`).
- The sales agent reaches out once (`ai-agent.service.ts:908-913, 969-975`) by looking
  for a delivery; while an approval of the first attempt is pending there is none.
- A payment import confirmed twice records partial installments twice;
  `payment-import.service.ts:78-86` calls `recordPayment` the backstop, which refuses
  only what exceeds the line.
- Reference numbers of quotations (`quotation.service.ts:96-101`) come from a count, so
  two generations at once share one.
- `markReviewed` (`document-intelligence.service.ts:219-227`) checks no status: a
  rejected or imported run comes back to life, and may be imported again (`reviews`).
- `main.ts:63-66` says the tick of scheduled workflows may run as often as one likes
  without duplicating work. Two that overlap may stamp in the wrong order and start two
  runs within one interval, in neighbouring buckets; and a pause made while a tick is
  at work is overwritten (`met` in `Workflows`).
- Taking an archived webhook workflow back checks no slug (`setWorkflowStatus`).
- `sales-commission.service.ts:85-87` says that nothing is recorded (`[]`) when no base rate
  is configured; lines 94-129 skip the base alone, and record the manager's override without
  it when that has a rate. `GatedOnce` therefore compares the two only where there is a base rate.
- `integration.test.ts:291` says that disconnecting removes the stored credentials. It deletes the
  keys connecting noted (`integration.service.ts:173-181`). A webhook secret stored later, as
  `communication-delivery.service.ts:61` advises, goes through `setSecret`
  (`automation.service.ts:1289-1307`), is not among them and survives; and since `handleWebhook`
  (lines 54-69) does not look at the status, reports are accepted behind the disconnection.
- `communication-delivery.service.ts:82-84` says that a report carries forward the link of the
  message's `sent` row. Only the attempt that was answered gets one (`integration.service.ts:264-280`):
  reports on an attempt that was accepted and its answer lost are linked to nobody, and neither
  are those behind a report that came before the row.
- A send saves the connection it read before its attempts (`integration.service.ts:259, 285`), so a
  disconnection in between is overwritten (`cutOff` in `Deliveries`).

## 6. Theorems

All are checked by TLAPS down to the last leaf, for any sets of ids, slots, calls, callers and
keys. No module with a theorem reaches a recursive operator. Every theorem follows the same
argument: an inductive invariant, which TLC checked on small instances first, the lemma that
the initial states have it, one lemma per action that a step keeps it, and the property as
a consequence. Below is what each invariant adds, since that is what the property rests on.

**`KeyedMutexProofs`** - `TypeCorrect`, `Exclusion`, `Refinement`. Mutual exclusion
alone is not inductive: nothing in it says why the successor's predecessor has
settled. The strengthening, `Line`, numbers the calls of a key in the order of their
registration and says that the chain points at the last of them
(`ChainIsTail`), that each waits for the one just before (`PreviousIsNeighbour`),
and that whoever has passed has only finished calls before it (`PassedInOrder`). The
refinement to `FifoLock` maps the calls that have registered and not settled, in that
order, to the line of the abstract lock; each step of the code maps to a step of it
or a stutter.

**`SalesProofs`** - `TypeCorrect`, `UniqueContract`, `SoldUnitsStaySold`, `SalesAreBacked`,
under every fault. `Inv` adds to the types that what a request refers to exists
(`Refers`), that it holds the locks its position implies and no one else is at such a
position for the same key (`Owns`), that contracts refer to reservations that exist,
and that there is at most one per reservation. The crucial part is the moment between
`SignCheck` and `SignSave`: no contract for the reservation exists as long as its
signer holds the lock. Each action is shown to change only its own request and rows
(`Effects`, `Frame`), so the invariant of the others follows from one lemma.
`SalesAreBacked` relies on `Inv`: `AllBacked` says of each signer that the opportunity it
is to write is that of its reservation, and that past `SignPlan` its contract has a
schedule; contracts and schedules are never removed (`SaleGrows`), and only the last two
writes make the claims (`ClaimsOf`).

Its last part is about the quiet market: if `Faults` contains at most expiring holds and
failing schedules, no unit has two signed contracts (`SoldOnce`), nor two live holds
(`HeldOnce`), and `Sales` implements `UnitMarket` (`MarketRefinement`). `Quiet` adds
that nobody is at a step that reopens a unit, that a unit with a reservation is reserved or
contracted unless the one request about to write that holds its lock, and that a unit
has at most one reservation; with one contract per reservation that gives the first
theorem. For the second, `HeldApart` adds that an active hold keeps its unit off the market
or is about to (`HoldTaken`), and that a request that frees a held unit has released
every hold on it (`FreedUnheld`, `SweptAreActive`). For the third, each step saves at most
one row the market sees (`Traded`): `SaveHold` is its `Hold`, the sweep of holds `Drop`,
`SaveReservation` `Reserve`, `SignSave` `Sell`, and every other step leaves the market
alone. That the unit has no such row yet, which is the guard of the abstract step, is where
the two invariants come in; what was added is that no reservation is cancelled
(`Uncancelled`). The finding `SalesDoubleSell` shows that the assumption cannot be dropped.

**`LedgerProofs`** - for any schedule, amounts, number of requests and restarts.
`AnnouncedOnce` and `MoneyOnlyRefunded` assume that no amendment meets another request
(`AmendsAlone`: prices are not amended, as in the run `Ledger`, or one request is served at a
time, as in `LedgerAmend`; `LedgerAmendRace` shows what happens otherwise). `Agreement` also
assumes amounts in whole cents (`Fraction = 1`, without which line and row drift apart,
section 5). `Inv`: a request inside a lock has a copy equal to the line, and an amendment, which
has no lock, copies that differ from the lines in their amounts only (`Place`); in whole cents a
line differs from its rows by exactly the amount of the one request between the two saves
(`Agreed`); a line that was announced, or is about to be, by one sweep only, is late
and no longer upcoming (`Announced`). `ReceiptsApart` assumes nothing: whatever runs beside it,
the numbers drawn and those saved since the last restart differ and are at most the counter
(`Serial`).

`AmendmentsSpare` and `AmendmentsAddUp` are about what amendments do to the schedule, at any
prices and any fraction of a cent, with one request at a time (`OneAtATime`). For the first, the
lines an amendment has yet to save are those nothing was paid on when it read them, and nobody
else can pay (`Spared`). For the second, the rescaled copies add up to the new price, since the
last one takes what rounding leaves over (`RescaledAddsUp`), and the lines saved so far are those
copies (`Restated`, `Balanced`), so that the sum is right when the last is saved.

**`AutomationProofs`** - for any workflow, keys, requests and restarts. `Typed` and
`TriggeredOnce`: that one run is created per trigger needs that a request about to
create one holds the lock of its key and that no run has the key yet (`Creating`), and that
no save changes the key of a run, for which each copy must have the key of the row it
will overwrite (`Local`). `ExecutesOnce`, `LeavesNoStepBehind`, `AsksWhileItWaits`,
`EndedRunsStay` rest on a second invariant, `Whole`: for each run two requests never had
at once (`Clean`), one request at most is at work on it, with a copy equal to the row and
a status that fits its place (`Working`); one approval at most is pending, for the gate
the run stands at (`Asked`); no action has succeeded beyond the index, and one at the index
only while its request has yet to advance (`Counted`); everything before the index is dealt
with (`Behind`). While the recovery is at work nobody else is.

**`ConcurrencyLimiterProofs`** - `TypeCorrect`, `WaitersKept`, `NoSlotIdles`, for any callers
and any limit. `active` is a counter and `waiters` a line: `Inv` says that the counter is the
number of the jobs in progress (`Counted`), that the line is exactly those who wait, each
of them once (`InLine`), that whoever has something to do has a task queued (`Queued`), and
that as many are working or woken as there are slots whenever somebody waits (`Handed`).
That at most `maxConcurrent` jobs run is false (finding 3), so nothing here assumes it.

**`GateProofs`** - five services where something must come before something else, and the
permissions.

- `GatedActions` (`Approvals`). `Followed`: who is to act has an approval; `Alone`: unless two
  decisions overlapped, one is in progress, before any was taken, and one action, before
  any was done; `Recorded`: even then one request records commissions, each once, the base
  first where it has a rate.
- `FollowUpsAssumeNothing` (`FollowUps`). `Executed`: what a run and the call at work on
  it have behind them was executed; `Single`: until two calls share a run, or one is cut off
  in its tail, one is at work, and no action it is still to take was taken.
- `DeliveriesAgree` (`Deliveries`). `Severed`: what connecting noted and is still stored is on
  the list of every disconnection at work, but for what was stored by hand, and no send starts behind
  one that cut everything off; `Linked` says of calls in progress what the property says of
  rows; `SentOnce`: one call sends, the provider accepts no more requests than it makes, and
  verdicts are on an envelope that was sent; `DecidedAlone`: one callback decides, before any
  verdict.
- `ActionsDecidedOnce`, `AgentAsksOnce` (`Agents`). `SettledOnce`: an action was performed
  at most as often as its approval is given, and one call settles a request; `InOrder`:
  decisions are dated in the order of the log, and name requests that exist; `AsksAlone`: who
  works on the lead now is alone, and no decision of this hour still waits for an answer.
- `HelpIsAsked` (`AgentRules`): the answer is `Outcome` of the sample, and of all the
  decisions of other agents none has a confidence or a tool that is escalated (`Confident`),
  for any ages, percentages and lengths of pipeline.
- `ListsAreAllowed` (`Permissions`): the scope of a list is granted and open to the account, and
  there is none only if no granted scope is (`Broadest`); so what it lists may be opened
  (`ListedCan`), and an employee whose lists are empty can open no more than an own submission
  (`EmptyList`); for any employees and grants.

**`RecordProofs`** - four services whose calls read, wait, and save copies, and two sums.

- `RegistersEarn`, `RegistersHeard` (`Registers`). Three facts are computed from the tables
  of moves, register by register: where moves lead (`Sound`), what they require (`Preceded`),
  and, where a dedupeKey is built from the status, that they lead upwards (`Ranked`).
  `EarnedSoFar` then also covers the status a call is about to save, and `ToldOnce` says that
  what was announced lies behind.
- `BrokersCredited` (`Brokers`). `Credited`: who is about to approve has created the lead;
  `Unclashed`, `Unrushed`: until calls meet, one is at work and what it decided on still holds.
- `WorkflowsTriggered` (`Workflows`). Times an interval apart fall into different buckets
  (`BucketsApart`, by division with remainder); `Timely`: what a tick is about to start lies
  an interval behind the last start, unless it met another call; `OneClaim`: who is about
  to create a workflow found its slug unclaimed.
- `LeadsApart` (`Pipeline`), whatever overlaps: who creates a lead holds the lock of the
  company and no lead is the same person (`CreatedAlone`); every other call saves copies of
  leads with the identity of the row (`SavesCopies`), so none brings a second one in.
- `OwnersPenalizedOnce` (`Pipeline`). The number of points has no deadlines attached: there
  is a set of missed deadlines with as many elements as there are points (`OwedFor`), and the
  latest one of a lead that is still to be penalized is not in it.
- `SchedulesExact` (`Schedules`), for any prices, discounts, terms and escalations: rounding is
  division with remainder, so each share is within half a cent, on either side (`Rounding`), and
  the sum of the first shares within half a cent for each (`SharesRound`); so the last line, which
  takes what they leave, is as near to its own (`LastShare`). Weights grow as escalations do since
  years elapse one at a time (`YearsElapse`, `PowerNext`); and dates grow with the number of months whatever day a schedule starts on.
- `ImportsAreKept` (`Imports`), for any files and number of confirmations. `Priced`: until a
  confirmation is cut off, who is about to save a unit has found it free, and it was not
  reserved since; `PaidOnce`: each confirmation pays a line at most once; `WrittenAlone`:
  unless two overlap, what a call evaluated is still so; `Documented`: a document is written at
  most once more than it was reviewed. The plan a call walks is a fold over the rows of the file,
  of which the proof needs that its rows are those of the file, each key once.

**`FoldProofs`** has no theorem of its own. The community modules state no facts about their
folds, and the induction theorems of the library take an operator as a parameter, which the
provers cannot instantiate. A least counterexample takes their place: `<` is well-founded on the
naturals, so a set of sizes at which a claim fails would have a least element (`LeastNatural`,
`Minimum`). With it, a fold exists and goes one element at a time (`Folding`, `PrefixFold`), and a
sum does not depend on the order of its elements and adds up over a partition of its set
(`SumAnyOrder`, `AddUpUnion`).

**Assumptions on constants** are named in the module of the constant and evaluated by every
run: bounds are natural numbers; a limit, an interval and a number of attempts are at least
one, as the code's defaults are; `None` is none of the values it is compared with; the ticket,
the one register whose document may return to a status, is among the `Reentrant`
(`RegistersAssumption`); the name of the scheduled workflow is no slug; amounts and days of a
schedule are integers, and an escalation does not take more than the whole amount
(`SchedulesAssumption`); a file is a sequence of rows with integer amounts (`ImportsAssumption`).

**Model-checked only.** All liveness (`KeysServedIndependently`, `RequestsEnd`,
`DueLinesFlagged`, `CallsEnd`, `RunsSettle`): the prover reaches neither ENABLED nor fairness.
`ViewersOnlyLook` is about one finite table without a parameter, the routes of `app.ts`: its
proof would be the evaluation of some two hundred rows, which the provers do not carry out and
TLC does.

Two refinements are stated by `INSTANCE`, each a property of a run and a theorem:
`ImplementsFifoLock` (`Lock == INSTANCE FifoLock WITH ...` in `KeyedMutex`) and
`ImplementsUnitMarket` (`Market == INSTANCE UnitMarket WITH ...` in `Sales`).

## 7. Plan

Done of the plan of this development: the core with its theorems; approvals with
commissions, CRM, brokers, AI workflows and agents, deliveries, imports, pure operators
(permissions, schedules, rules), routes, the small services, the bookkeeping of
scheduled workflows; theorems for every safety and action property within the prover's reach
(section 6). What is left, in this order:

1. `UnitMarket` with cancellation, which gives a unit back: what `Sales` then implements depends
   on the stale copies that a second cancellation saves (`CancelReservation`).
2. Theorems on the ledger beside amendments that overlap, once they take the lock of the line
   (`LedgerAmendRace`).
3. The parts of section 8.

## 8. Not modelled

- Authentication and onboarding: hashing, tokens and signatures are cryptography, and
  the rest creates a company with its first user once.
- The sliding window of the rate limiter, bodies, limits and static files of the HTTP
  server; parsers (PDF, XLSX, CSV, multipart), search, logging: input and output of one
  call each.
- The language models behind the AI (external), their budget and usage rows; the
  memory of the AI, rows with an expiry on which nothing is decided.
- Within modelled parts: secrets and AI suggestions of automations, and what an action
  of a step does; templates and fees of payment plans; projects, buildings and pricing
  rules of inventory, and the project fields a row of an import may carry
  (`applyProjectExtra`, `resolveUnitExtraIds`); custom fields and timeline of a lead;
  the rules that hold the rates of commissions; editing of roles; rendering of offers.
- Organization, analytics, forecasting, portal: reads, or one document moved per call.
- The frontend, which shares no state with the server but through the routes; the
  Prisma schema, unused.
