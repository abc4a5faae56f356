# Sovereign: TLA+ models, model checking and proofs

Sovereign is a one-process firm of agents.  A daemon ticks; in a tick a
heartbeat calls sixteen roles in a fixed order, each on a watchdog thread; the
roles act on one sqlite database, on files, on block chains, on mail and on a
language model.  Humans act on the same database from the command line while
the daemon runs.  This directory holds TLA+ models of the parts that decide
about money, agreement, work and recovery, what TLC checks about them, and
theorems that TLAPS proves.  `PROJECT.json` lists runs, mutants, theorems and, under
`map`, the source lines every definition stands for.

    tlc -workers 2 -config SettlementLogs.cfg MCSettlement.tla
    tlapm SettlementProofs.tla

## 1. Inventory

Paths are below `src/sovereign/`.  "Hard" is what tests hardly reach.

### Payments: `capital/payments.py`, `onchain.py`, `invoice.py`, `invariants.py`

State: the tables of jobs, invoices, ledger postings and `chain_txids`; the
record `payment_watch_v2` (per chain a baseline, last balance and height; the
suspense lots; counters of automatic, manual and reserved money).
Operations: `issue`, `collect`, `void`; `watch`, which fetches transfer logs
and, without any, balances, and then settles inside one transaction; the
operator's `paid --confirm`; the ageing of invoices.
Interaction: the treasurer's role calls `watch` every tick; clients and the
owner act on the chains; the command line acts on the same rows.
Hard: evidence is fetched outside the transaction that applies it; an
abandoned treasurer thread keeps running next to the next one; nodes lag, fail
and disagree; one payment is visible as a log and as a balance delta; only the
amount identifies a payment.
Correct when: books, invoices and counters agree; a transaction pays once; no
more is marked paid than arrived; a paid invoice stays paid, and one that was
written off is not paid as it stands; an exact payment is not lost.

### Bus and purchase quorum: `comms/*`, `engine/heartbeat.py`, `engine/watchdog.py`, `agents/roles.py` (operator), `governance/council.py`

State: the message table (status, attempts, deadline), the kv entries
`infra_quorum` and `vps_bought`, the vote rows, the ledger.
Operations: request, reply, inbox, ack, fail, requeue, expire, prune; the pump
of an inbox; the operator's role, which asks three seats, gathers the replies
over several ticks, and pays.
Interaction: a role sends, the recipient's inbox is pumped before its own role
runs, in pipeline order; mail for an inbox that was empty is pumped once more
at the end of the tick.
Hard: pumps and roles that overrun their budget go on as abandoned threads;
each step is its own commit, and the process may die between any two;
deadlines, retries, purges and frozen recipients end a request in different ways.
Correct when: money is spent once and only on a request that was approved; a
request counts as handled only when it was answered; nothing waits for ever.

### Ledger and treasury: `capital/ledger.py`, `treasury.py`

State: postings, and a cache of the balances with the version they were read at.
Operations: `post`, `balances`, `snapshot`, `can_spend`, `pay`, `receive`.
Hard: another connection may commit between the version read and the sums; a
transaction that is rolled back was visible to its own thread; `can_spend` and
the posting are separate.
Correct when: a cached balance is one the database had at its version, and no
cash is spent that is not there.

### Wallet and key store: `capital/wallet.py`, `fileio.py`

State: `secrets.enc`, the staged `secrets.enc.rotating`, the master key in a
file or the OS keyring, the configured backend.
Operations: `load_or_create`, `put_credential`, `rotate_master_key`,
`migrate_key_store`.  Hard: a crash between two of their writes, and a process
that comes back with the other backend configured.
Correct when: the key in use opens the newest secrets; no acknowledged
credential is lost.

### World, daemon and recovery: `engine/world.py`, `engine/daemon.py`, `heal/*`, `governance/reputation.py`

State: in memory the tick number, the frozen agents with reasons, scores;
in kv `meta`, which is written at the end of a tick and by every command that
boots a world, and the marker `tick_start`; the file `engine.lock`; the halt of
the paper broker.
Operations: `start_tick`, `finish_tick`, `freeze`, `thaw`, `thaw_cooled`,
`maybe_halt`, `maybe_unfreeze`, `persist_kv`, `load_kv`, `bootstrap`, `setup`.
Hard: a crash forgets what was not persisted; a command writes an older
snapshot over the daemon's; every process that boots repairs the lock file.
Correct when: one engine ticks; tick numbers are never reused; the trader is
frozen while the broker is halted.

### Jobs: `labor/pipeline.py`, `labor/craft.py`, `agents/roles.py` (hunter, closer, crafter, publisher, treasurer)

State: the rows of jobs with their status, the day's count of applications,
invoices, the directories of deliveries.
Operations: a lead is found, applied for by web or by mail, accepted or
rejected by mail or by the operator, crafted, billed, paid, or expires.
Interaction: a role reads rows, talks to a model or a browser for minutes, and
writes its copy back whole; the watchdog leaves a slow role behind and starts
the next; the operator's command is a process of its own.
Hard: two copies of one row under way; a crash between work and its record.
Correct when: nobody is billed for work that was not ordered or not made; the
day's applications stay below the cap; a client who said no is left alone.

### Mail and human requests: `channels/*`

State: rows of mail, drop-in files, labels and ids at the provider; one JSON
file of requests to the human, and the vault for what the human answers.
Operations: send, poll, ingest, act on; ask, reply, consume.
Hard: a send cannot be undone, and its record is two commits, one on each side; a label at the
provider, a file and a row are three places; credentials are stored one by one
while the file is written once.
Correct when: no mail leaves twice and none that came is lost; a reply reaches
the vault and then leaves the file.

### Clocks and budgets: `engine/schedule.py`, `runtime/router.py`, `alerts.py`, the market part of `engine/world.py`

State: the schedule's entries, the router's tokens and degradation with their
snapshot, the throttle marks of alerts.
Operations: claim, mark, retry after; ask a model, fall back, degrade, roll
over; detect, send, mark.
Hard: what is marked before it is done, or sent before it is marked, and a
crash in between; calls that overlap each other and midnight.
Correct when: what failed is tried again when the schedule says and not before; a
budget is exceeded by no more than what was under way; an incident is told of
and not repeated as long as the channel confirms it.

### Sessions with others: `web/*`, `mcp/*`, behind `tools/catalog.py`

State: one browser context per tick and the vaulted logins; a registry of
clients, each with a transport, a thread and an event loop.
Operations: open, act, load and save a login; connect, call, time out, close.
Hard: one context for many sites; a connection that comes up after its caller
has gone; a role left behind that uses what the end of the tick closes.
Correct when: a login is kept; what is closed does not run on.

### Learning: `memory/*`, `agents/roles.py` (improver)

State: the closer's playbook, the trial beside it, the row of measures.
Operations: read (which counts a use), credit, write a trial, judge it.
Hard: a file and a row change one after the other, and every user of the row
writes all of it back.
Correct when: a trial is judged on uses of its own.

### The rest

`backup.py` copies a live data directory and seals the copy with a manifest.
Markets and design are floating point and text.  `ops`, `dashboard`, `debug`,
`plays`, most of `tools`, and `agents/spec` report, dispatch, or are data.
`PROJECT.json` lists each with its status and the reason.

## 2. Modules

| module | what it is |
| --- | --- |
| `Sums` | bounded sums of a function, `Lesser` and `Greater`, as recursive functions |
| `Invoices` | `issue`, `collect`, `void` as functions from one database to the next |
| `Receivables` | abstract: invoices are opened, settled for good or written off, those written off may be opened anew, cash grows by what is settled |
| `Settlement` | chains, workers, suspense, both paths of the watch; implements `Receivables` |
| `MCSettlement` | `Settlement` for TLC |
| `SumsProofs`, `SettlementProofs` | lemmas and theorems: sums, `issue`'s free amount, the books, the counters, the txids |
| `FundsProofs` | theorems on where the money comes from, and the refinement of `Receivables` |
| `Bus` | the message table and its operations |
| `Approval` | abstract: seats are asked and speak, money is spent on an approved request, and once until a role is torn |
| `Purchase` | heartbeat, watchdog threads, pump, operator, council over `Bus`; implements `Approval` |
| `MCPurchase` | `Purchase` for TLC |
| `PurchaseProofs` | its theorems, and the refinement of `Approval` |
| `Vault` | secrets, staged secrets and master key, with a crash between any two writes |
| `VaultProofs` | its theorems |
| `EngineLock` | the lock file, and the repair of a stale one |
| `Governance` | freezes, scores, halts, as functions from one memory to the next |
| `World` | engines and commands on one data directory, over both: boot, heal, tick, persist, die |
| `WorldProofs` | theorems of `Governance`, `EngineLock` and `World` |
| `MCServices` | `Vault` and `World` for TLC, one or the other in a behaviour |
| `Jobs` | the pipeline of jobs: roles with copies of rows, the operator, the client |
| `Letters` | mail out under a lock, mail in through provider, file and row |
| `HumanInbox` | requests to the human, replies, the vault |
| `Balances` | transactions, revisions, the cached balance, spending |
| `Cadence` | the scheduler: due, mark, claim, retry after |
| `Router` | the model router, with the crafter's retry, over `Cadence` |
| `Market` | prices and certification in a tick and in a repair, over `Cadence` |
| `Browsing` | the shared browser, its sessions and budgets, the vault of logins |
| `Alerts` | dispatch of alerts and its throttle |
| `Backup` | a backup made while invoices are issued |
| `Trials` | the trial of a playbook and how it is judged |
| `Bridge` | the registry of MCP clients and their transports |
| `MCWork` | these for TLC, one of them in a behaviour |
| `WorkProofs` | theorems of `Backup`, `Letters`, `Bridge`, `HumanInbox`, `Browsing`, `Balances`, `Trials`, `Alerts`, `Market` and `Router` |
| `JobsProofs` | theorems of `Jobs` |

An operator that takes and returns a database (`S`, or `M` for the message
table) is code that runs inside one `store.transaction()`: others see all of it
or nothing.  An action is one commit, or one step outside the database such as
a fetch.  Whatever the code does between two commits may be interleaved with
everything else.

### Settlement and the code

`db` is the database, `chain` the confirmed blocks of both chains as far as the
firm's address goes.  A worker is a thread inside `payments.watch`:
`FetchLogs` and `FetchBalances` are the network calls, `SettleLogs` and
`ApplyBalances` the two transactions.  `phase`, `listed` and `readAt` are a
thread's local variables.  Two workers are the thread the treasurer runs now
and one the watchdog abandoned.  `LoseWorker` is a crash or an exception.

A listing returns what the lookback range holds at any confirmed block: nodes
lag, and the two paths ask for different confirmations (2 for balances, 5 for
logs).  Ethereum lists every log, oldest first.  Solana lists signatures newest
first and loads each transaction by itself, so single ones may be missing.
A failed call answers nothing.

Suspense lots of both chains are one sequence in `lot_sequence` order.  A lot
that was used stays with amount 0 in place of its removal, which keeps the
order and changes no sum.  Amounts are integers of the smallest unit; `Cent`
is the step by which `_unique_open_amount` moves a quote.

`IssueInvoice` has no guard on the job.  `issue()` asks only whether its invoice
is open or paid (`invoice.py:42-44`), and the status "delivered" under which the
treasurer finds a job may be an old one: a crafter left behind writes it back
over "invoiced" (`roles.py:783-789`).  So an invoice that was written off may be
billed again, at a new amount.

### Purchase and the code

`phase` and `agenda` are the place of the heartbeat in `tick()`; `waiting` is
the thread `run_with_timeout` joins; `worker` says for each thread which step
it makes next.  A pump lists (`List`), handles one message (`Handle`) and acks
it, one commit each.  The operator's role is cut at its commits: `Refrain`,
`Consider`, `AskSeats`, `NoteRequest`, `ReadVotes`, `GiveUpOrWait`, `Decide`,
`MarkBought`, `ClearQuorum`.  `torn` is a history variable: it is set when a
role is lost between the expense and the mark (`roles.py:1262-1263`), or when
the operator's role is called while one the watchdog left behind still runs.  Of
sixteen agents four take part, in the order of the pipeline.  `StartTick` moves
the clock, sweeps overdue rows and may prune.
Ages are counted in ticks.

What a seat votes, whether the treasury can pay, and whether the preconditions
for asking hold are choices: they depend on books and scores that are not part
of this model, so every combination is allowed.  What goes wrong is drawn from
`Faults` and counted against `MaxFaults`.

### Vault and the code

`secrets`, `staged` and `keyOf` are what outlives a process: the two files and
the key of each backend.  A file is a record of the key it is encrypted under
and of its content, a wallet and a set of credentials.  `lock` is the flock of
`secrets.enc.lock`, which every operation holds from its first read to its last
write; `proc` holds the local variables of an operation.  Each atomic write,
each keyring entry and each unlink is an action of its own, `Raise` is an
exception between two of them, `Crash` the end of the process, after which
`Boot` reads the configuration again.  `Put` is one step, since one rename
makes it visible.  Only a migration into the keyring is modelled; the command
line offers no other (`cli.py:361`).

`SwitchBackend` is the operator's edit of `wallet.master_key_backend`.
`Careful` says how: no process runs, and either nothing is staged or the
configured backend no longer opens the secrets (which is when the operator has
to switch).

### World and the code

A process is an engine (`serve`, `run`), which takes the lock and ticks, or a
command (`setup`, `accept`, `paid` ...), which boots, works and persists.  `at`
says where it is: `loading` and `marking` are the two reads of `load_kv`,
`diagnosing`, `probing`, `stale` and `healed` are `setup()`, `ready` is between
ticks, `roles` in one, `closing` between `persist_kv` and `finish_tick`.
`setup()` runs in `bootstrap`, once more in `serve`, after a failed tick, and
at the start of the mechanic; `agenda` tells these apart and is otherwise the
next role.  `mem` is the process's copy of the world, `meta` the snapshot in the
database, `marker` the entry `tick_start`.  `Leave` is a return, a signal or a
crash; all that stays is the database and the name of the lock file.

Five of the sixteen roles are there, those which freeze or are frozen: the
mechanic (cooldown), risk (broker and scores), ethics (leaks), the trader and
the operator.  A score is `low` or `fair`, on which side of 20 points it is; how
far a slash or 12 points carry is a choice.  Whether the broker is losing and
whether a secret shows are choices.  Time is counted in ticks, also where live
mode counts hours.  The two modes are both checked; they differ in whom the
cooldown boosts and in how a blocked halt counts.

The files behind `engine.lock` are numbered: `flock` belongs to a file, the name
may go while the file is open, and the next `open` makes another one.

### Jobs and the code

`status` is the table.  `hand` says for each thread, and for the operator's
process, which role it runs, at which step, and its copies: the list of rows it
read, the row it works on, the day's count.  A role's steps are cut where it
talks to the outside or commits: the closer expires old applications
(`Expire`), reads leads, parks those without a channel, applies by web, writes
the count, drafts, sends and records letters one at a time, and writes the
count again.  `craft.produce` is `Make`, which leaves files or not, and
`Produced`, which writes the row.  `duty` is the thread the heartbeat waits
for; `LeaveBehind` is the watchdog, `Die` the daemon's end.  What a model, a
page or a client answers is a choice.

A closer that reads `In(Leads)` holds names and the row's other columns; what
matters of the copy is the status it will write, which is fixed by the branch.

`via = "own"` marks the rows that only a simulated firm makes (`Own`): the
product that `publisher()` puts up as sold (`Publish`) and the two offers that
`scout()` puts up as delivered (`Scout`).  Nobody ordered them, nothing made
them, and the treasurer bills them like all others.  `raced` is a history
variable: the jobs that were rejected while a worker held a copy of the row.

### Letters and the code

`send` is `mail.send` cut at its commits: the lock of the outbox, the row
`queued`, the transmission, the row's outcome.  A letter in is `remote` at the
provider, a file in the inbox, `kept` beside its row.  The poll labels at the
provider as it fetches and writes the files afterwards, as
`transports.poll_agentmail` does.  `steady` says that polls are not cut short;
the runs allow both, and one of the three properties needs it.

### The human inbox, the ledger's cache, and the code

`ask`, `reply` and `consume` hold one file lock; `consume` stores credentials
one by one (`PutCredential`) and writes the file last (`WriteInbox`), and may
die before that.  In `Balances` a thread's `balances()` is cut where another
process may commit: the version before, the sums, the version after.  Threads
of the daemon share a connection and a lock, so a transaction excludes them but
not its own thread.  `OtherProcess` is a commit elsewhere.

### Clocks and the code

`Cadence` is `schedule.py` for live mode: an entry holds the last time, or the next
after a failure.  `Market` walks through a tick's two uses of it, and through the
repair that drops reports of which none passed and certifies again
(`heal/repair.py:75-79`), as the daemon runs it when it starts, after a failed
tick, and in the mechanic.  `Router`
keeps a running router and its snapshot; a call is estimated, made, and counted when
it is answered, so calls overlap.  `RestoreRouter` is a restart.  `Alerts`
starts a dispatch at the end of a tick and cuts it between send and mark.
Whether a message gets out (`out`) and whether the send says so (`says`) are two
things (`SendOut`): a webhook may take it and then time out, or answer with a
failure; a mail that stays queued counts as sent; an exception, a refusal and a
missing address are none of both.

All entries of the schedule are one value, which a mark reads and writes back
without a transaction (`schedule.py:77-82`).  One thread at a time uses it here:
a role left behind, or a command, that marks in between could undo the entry of
another.

### Browsing, Bridge and the code

`browser` is the context of the one driver: which login each site sees.
`file` and `index` are the vault's.  `Call` is any web tool, `OpenFails` one
whose session does not come about; `StartClose`, `SaveState` and `SaveIndex` are
`WebRuntime.close()` with its writes.  A save that fails is passed over
(`SaveFails`) and the browser closed all the same, so that the login of that
site is lost (`session.py:437-442`); `cut` records it, next to the logins a death or
a deletion took.
`Manners` are assumptions: agents visit one site per tick, the operator logs in
by hand when the browser is closed.

In `Bridge` a transport is numbered when it is made.  `user` is a role's place
in `registry`, `client` and `transport`; `task` is the session's coroutine on
its own loop, which may come up (`Connected`) or fail (`Refused`) before or
after the caller has stopped waiting (`Waited`, `Stopped`).  `CloseRegistry`
takes the clients, `CloseTransport` tears one down; `late` says whether roles
may be left behind.

### Backup, Trials and the code

`issue()` writes its file inside the transaction; `Backup` cuts it there, and
the backup at the database copy, the listing of a tree, each file, the scrub and
the manifest.  In `Trials`, `control` and `trial` are the two files by the
number of the text in them, `ab` is the row; a use, a credit and a judgement
each read it and write all of it.  `Judge`, `Unlink` and `Reset` are
`improver()`.

## 3. Runs

| run | question | bounds that matter |
| --- | --- | --- |
| `settlement_balances` | are books, suspense and counters right when only balances are read | 2 workers, 2 chains, 2 blocks, a withdrawal, a manual settlement |
| `settlement_mixed` | is money conserved, and `Receivables` implemented, when logs and balances both settle | 1 worker, Ethereum with two transfers in one transaction |
| `settlement_logs` | does a transaction settle at most once | 2 workers, 2 chains, memos |
| `settlement_live` | is an exact payment settled in the end | 1 worker, flaky listings |
| `settlement_race` | may invoices be paid with money that never arrived | 1 worker, 1 block; expected to fail |
| `purchase_faults` | is money only spent on approved requests and, until a role is torn, once, whatever goes wrong once, and do ended rows stay ended | one fault of any kind but requeue, 2 requests, a dissenting director |
| `purchase_retries` | is `Approval` implemented, which buys once until a role is torn; are attempts one per tick | 2 requests; 2 of raising handlers, raising roles, crashes, requeues and purges; a dissenting director, a frozen seat |
| `purchase_live` | do quorums and requests end | 1 request, raising handlers, requeues, a frozen seat, other mail |
| `services` | vault: is no credential or wallet lost to interrupted rotations and migrations; world: does one engine tick, under fresh numbers, and is the trader frozen while the broker is halted | vault: 2 processes, 2 credentials, 6 keys, careful operator; world: 2 engines, 1 command, 2 ticks, 2 lock files, `Quiet` |
| `two_hearts` | does it matter that nobody boots while an engine takes the lock | 2 engines, 1 command, 1 tick; expected to fail |
| `work` | does each part around the core keep its promise | see below; one part in a behaviour |
| `login_lost` | is a login kept when agents visit two sites in a tick | 2 sites; expected to fail |

Why these bounds are enough.  Two jobs of the same price are what makes amounts
collide, and what makes a voided or settled invoice stand next to an open one.
`Payments = {1, 2}` holds the price and the price moved up by a cent, so a
payment may fit the one, the other, or a sum of lots.  `Lookback` is longer
than the chain, so nothing drops out of range; a payment older than the range
is lost by design.  A behaviour holds two blocks in all: a race needs one
payment and one read of it from each path, a taint needs a payment and a
withdrawal.  Two threads are one that is waited for and one abandoned; a third
would do what the second does.  Ages end at `MaxAge = 2`, past the deadline of
one tick; the code tells no difference between older rows except for retention,
which the model lets happen from there on.  Two requests let a stale thread of
one quorum meet a newer quorum.

Six keys are two first keys, one of each backend, and four rotations: an
interrupted one, one that overtakes it, and the same after a switch.  Two
credentials are one stored before and one after.

Two ticks with a cooldown of one tick are a freeze and the tick that may end it;
a crash in the first lets the second resume.  Two engines are one that lives and
its rival or successor.  One command is enough to write an old snapshot back.
Two lock files are one that loses its name and the next one.  `Flaky` is the
trader, whose failures freeze it next to the circuit breaker.  `services` lets a
behaviour be one of the vault or one of the world; they share no state, and
`Under` picks one of them.  `work` does the same with eleven parts, since a
run of its own for each would say no more.  Their properties and bounds:

| part | properties | bounds |
| --- | --- | --- |
| jobs | `BilledWorkWasOrdered`, `CapKept`, `RejectedIsFinal` | 2 jobs, 2 threads, 1 application a day; with both jobs only crashes go wrong, with one of them, beside one that was rejected, a role may also be late and the operator work beside it |
| letters | `MailIsSafe` | 1 outgoing key for 2 senders, 2 incoming letters, 2 rows of each |
| human | `ReplyIsVaulted` | 2 services, 3 requests, 2 values, `Tidy` |
| balances | `CashIsReal` | 1 thread, 5 revisions, 3 commits elsewhere |
| router | `RouterRestrained` | 2 threads, budget 2, calls of 1 or 2, 2 days of 2 hours |
| market | `TriedOnTime` | 12 hours, periods 3 and 5, delays 1, 2 and 3 |
| browsing | `LoginKept` | 2 sites, 3 logins, one site a tick |
| alerts | `ToldInTime` | 2 kinds, a window of 2, 5 steps of the clock |
| backup | `BackupIsWhole` | 2 invoices and a stray key file |
| trials | `JudgedOnUse` | 2 jobs, 2 trials, 1 use, 2 deaths or commands |
| bridge | `NothingRunsOn` | 1 server, 2 roles, 1 call a tick, 2 transports |

Two jobs are enough for one that is worked on while the other takes the last
application of the day.  Two senders of one key are the daemon and a command;
two letters are one that fails and the rest of its batch.  A third request is
one asked again after it was consumed.  One thread of the daemon is what the
engine has at the ledger when no role was left behind; with two the properties
fail, see below.  The clock of `market` passes every period twice, so a retry
meets both a failure and a success before it.  Two trials are a judged one and
the one that inherits what the judgement left.  Two transports are one that was
given up and its successor.

`CHECK_DEADLOCK FALSE` in the settlement runs: when every block is mined and
every job settled, a system without a clock has nothing left to do.  In the
runs of the services: at the last key a rotation stands still, as the bound and
not the code wants it.  In `work` each part ends at its bounds (days, letters,
requests, transports).

`Quiet` is an assumption about people, not about the code: nobody starts a
command while an engine is between opening the lock file and locking it, or an
engine while a command is booting.  Without it `OneHeart` fails (`two_hearts`).
Commands may boot, repair and persist at any other time, also while an engine
ticks.

### Fairness

`settlement_live`: the daemon calls the treasurer every tick, so threads that
can step do.  Strong fairness of a full listing says that listings are not
partial for ever, and of its application that not every watch with a full
listing is cut short.  Nothing is assumed about clients or the operator.

`purchase_live`: the daemon loops, `WF` on the heartbeat's own steps and on
the steps of threads, which is to say that none of them hangs for ever (a
thread that hangs is the subject of `purchase_faults`).  `SF` on calling the operator says that it is not frozen for ever;
the seats may be.

### What the runs show beyond "no error"

- `settlement_race`: `ChainPaymentsBacked` fails when logs and balances both
  settle, with one worker, one payment and every call answered.  Balances are
  read 2 blocks behind the head and logs 5, so a payment is first visible as a
  balance delta.  The balance path pays invoice A from it and records no txid.
  The next tick lists the same transfer, finds its txid unseen, and pays
  another open invoice of that amount, B.  The reservation made for B waits for
  a delta that will not come.  The finding quotes the comment this contradicts.
  With only the balance path the property holds (`settlement_balances`).  `FundsConserved` holds all the same: it says that the
  watcher's own counters add up, reservation included.
- `login_lost`: `LoginKept` fails.  The driver has one context.  Opening a
  second site replaces it by one that holds only that site's login
  (`web/driver_playwright.py:198`), and closing saves the state of that one
  context under the name of every site that was opened.  The first login is
  gone from the vault.  Both the docstring at `web/session.py:402-405` and
  `docs/WEB.md:110-111` promise otherwise.
- `two_hearts`: `OneHeart` fails.  `setup()` in a command finds `engine.lock`
  unlocked, lets its own lock go (`heal/checks.py:288`), and some steps later
  unlinks the name (`heal/repair.py:72`).  An engine that opened and locked the
  file in between holds a lock on a file without a name; the next engine creates
  a new file, locks it, and both tick.  `docs/PLAN.md:437` says the lock is there
  "so two hearts cannot beat".  Unlinking a file that is locked is what the
  comment at `heal/checks.py:273-274` rules out; unlinking is not needed at all,
  since an unlocked file stops nobody.
- `services`: within these bounds the rest of recovery is right.  A command may
  write an older `meta` over an engine's, and still no tick number comes back,
  since the marker is a row of its own; and halt and freeze are always in one
  snapshot, so they are lost together or kept together.
- `settlement_balances`: an invoice that was written off may be billed again, and
  still every paid one stays paid, and an open one keeps the amount its client
  was told (`SettledForGood`); `KeepsPromise` of `settlement_mixed` says so of
  the cash too.
  `settlement_balances` has two workers on the balance path; what goes wrong
  when a worker on each path sees the same money is shown by `settlement_race`
  alone.
- `purchase_faults`, `purchase_retries`: the second purchase has two ways only.
  Either a role is lost between the expense and `vps_bought`, or the operator's
  role is called while one left behind is still at work; until then one server
  is bought, through crashes anywhere else, hanging and raising pumps and roles,
  requeues and purges.
- `work`: the order of commits in these parts is right where one process at a
  time does the work.  A client is billed only for work that was
  ordered and made, even with stale copies of rows, because a stale
  copy may move a job back but only `Produced` leads to a bill; what a simulated
  firm puts up as sold is billed without (`Own`).  A
  rejection stands against roles that are late and an operator who meddles: only
  a copy a worker held when it came (`raced`), or the payment of a bill that is
  out, undoes it.  The lock of the
  outbox makes mail leave at most once, at the price that a crash leaves some
  unsent.  The file of requests keeps a value until the vault has it.  The
  window of alerts, the schedule's claim and the router's snapshot survive a
  death at any step.

### Other differences between code and words

These were met while reading and have no run of their own.

- `README.md:19` and `docs/ARCHITECTURE.md:60-61` say payments are matched by
  sender; the sender is stored and never compared (`payments.py:688-701`).
- Two transfers in one Ethereum transaction share a txid, so the second is
  skipped (`payments.py:686`); `settlement_mixed` has such transactions.
- A rejected quorum leaves no vote rows (`council.py:61-68`).
- `requeue` keeps the deadline (`bus.py:379-382`): a requeued expired request
  is swept on the next tick.  Its docstring promises "another life".
- A key rotation does not seal the web sessions anew.  They stay under the old
  key; the index then reads as empty (`web/vault.py:75-78`), and the next
  `save_session` writes it back without the older entries.
- `sovereign debug --ticks` steps a world without the lock (`cli.py:489-490`);
  `World` has no such process.
- A command that loaded `meta` before an ethics freeze and persists after it,
  followed by a restart of the daemon, loses the freeze; `alerts.py:42-43` calls
  such freezes "never auto-thaw".
- In sim mode `thaw_cooled` boosts agents whose freeze never thaws by itself, on
  every tick, and reports them as thawed (`heal/repair.py:100-103`).
- When the mechanic itself is frozen nobody's cooldown ends.
- A handler that hangs is never counted as an attempt.  Its message is tried
  every tick, on a thread that stays.
- A crash between the expense and `vps_bought` buys the server twice: the
  marker is a commit of its own after the posting (`roles.py:1262-1263`).  So
  may two operator's roles that overlap.  `BoughtOnce` says that there is no
  other way; without its `~torn` `purchase_faults` fails.
- A careless switch of the key store loses a credential.  A migration stages
  the secrets, gives the keyring its key, and is interrupted; the firm goes on
  with the key file and stores a credential; then the operator configures the
  keyring, and the next load takes the staged copy for the newest
  (`wallet.py:213`).  `_promote_rotating` cannot tell a copy that was never
  replaced from one that was overtaken.  With `Careful = FALSE` `OpenedIsNewest`
  fails.
- The poll labels a letter as processed before its file is in the inbox
  (`transports.py:102-109`): a later page that fails, an answer that is lost, or
  a crash loses it, where `docs/RUNTIME.md:155-158` says each new message
  becomes a drop-in.  `ProcessedIsHere` therefore needs `steady`.
- Mail that failed stays `queued` and is never tried again; `docs/RUNTIME.md:150-153`
  calls the file outbox "the durable queue when a remote transport fails".
- A second reply to a request that was already consumed is taken by
  `channels/human.py`, stays in the file and is never read, where
  `docs/BOOTSTRAP.md:21` says replies go into the vault and not into the JSON.
  `Tidy` assumes that nobody does this.
- With two threads of the daemon in the ledger both halves of `CashIsReal` fail:
  the cache and its version are set in two steps without a lock
  (`ledger.py:60-61`), and two threads may both find the cash.
- A role that is late writes its old copy: a rejected job comes back to life
  and a paid one falls back to `delivered`.  `RejectedIsFinal` leaves out the
  jobs of which a worker held a copy as the rejection came.  The agents' timeout
  is 30 s by default, the language model's 180 and 300 s.
- An invoice that was written off is opened again when a late crafter has put
  the job back to "delivered" (`invoice.py:42-44`).
- An application by web whose submission was clicked but whose answer failed is
  not counted against the cap and may be made again; the model lets such a
  page be one that was not applied at.
- The closer expires applications that were never answered (`Expire`).
- A provider of mail that fails is swallowed by `send`, so a mail alert counts as sent
  and is throttled; `ToldInTime` makes its second promise for webhooks.  A
  webhook that took an alert and did not confirm it is told again after every
  tick, not once in a window (`alerts.py:268-299`).  A
  daemon whose ticks keep failing sends no alerts at all (`daemon.py:96-108`).
- A simulated client's answer drops `ab_variant`, so its money counts for
  neither playbook (`docs/PLAN.md:366-368`); the money of a job that was drafted under an
  earlier trial counts for the present one.
- A death in `accept_job` between the credit and the row counts one win twice
  (`pipeline.py:66`).
- A death between the unlinking of a trial and the reset of its row
  (`roles.py:1438-1443`), or an accept that overlaps the reset, lets the next
  trial inherit counts; `JudgedOnUse` excludes exactly this (`torn`).  A use is
  counted when the playbook is read, also for a draft that is never sent.
- The tokens of a failed call are never counted; after a restart there are no
  closes until the next claim of prices.
- A connection to an MCP server that comes up after its deadline, while the
  teardown waits, leaves a session without a loop
  (`transport.py:192-198` against `257-282`).  Every later use of that transport
  in the tick fails, although `registry.py:6-8` keeps the client so that an
  outage can recover.
- Two roles, one of them left behind, may each make a client of one server; the
  first connection is then closed by nobody (`registry.py`), where `world.py:109` says
  that any client built during the tick is.  `NothingRunsOn` claims ownership
  only without late roles.
- The operator's `web-login` or deletion while a browser is open is undone when
  it closes.
- A site whose session cannot be saved when the browser closes loses its login
  without a word to the caller (`session.py:437-442`).
- Two threads that issue the same invoice: when the first one's transaction is
  undone, it removes the file after the second has written it
  (`invoice.py:91-97`); `Backup` has one issuer.
- A backup holds no deliveries.

## 4. Proofs

`SettlementProofs` proves, for any number of jobs, workers and blocks, any
prices and payments, any lookback, both settings of `UseTxLogs` and any
behaviour of the nodes:

| theorem | states |
| --- | --- |
| `Types` | `TypeOK` |
| `BooksAgree` | `BooksMatchInvoices` |
| `AmountsIdentify` | `OpenAmountsDistinct` |
| `CountersAgree` | `CountersMatchInvoices` |
| `TxidsSettleOnce` | `TxidSettlesOnce` |
| `SettlementIsFinal` | `SettledForGood` |
| `Invariant` | `IInv`, from which the others follow |

The assumptions are `InvoicesAssumption` and `SettlementAssumption`: numbers
are naturals, prices and payments positive.

`IInv` is `TypeOK`, `Sane(db)`, `ReadsExist` and `Started`.  None of the
properties is inductive alone.  `CountersMatchInvoices` needs `collect` to act
on an open invoice whose amount is the transfer's, so it needs what candidates
are.  `TxidSettlesOnce` needs that an invoice with a txid is paid and stays so.
`OpenAmountsDistinct` needs that `issue` finds a free amount, which is a
pigeonhole over `NumJobs + 1` candidates (`UniqueOpenAmountFree`).
`SettledForGood` follows from what each operation does to the invoices
(`Settled` for those that bill nothing).  `ReadsExist` says a worker only holds blocks
that exist, which types the delta.

The transactions loop over lots and transfers.  The loops are recursive
functions; `MatchChainKeeps` and `SettleTransfersKeep` carry `Sane` through
them by induction on the prefix, which is possible because the induction is on
a set of naturals, from well-foundedness (`NatSetInduction`), and needs no
operator parameter.  `SumsProofs` holds what they need of sums: a sum changes by what
one term changes, and is monotone.

`FundsProofs` proves for the same values of the constants:

| theorem | states |
| --- | --- |
| `FundsInvariant` | `FundsInv`, which is `IInv` and three facts about money |
| `FundsAreConserved` | `FundsConserved`, from `FundsInv` |
| `SuspenseIsBacked` | `SuspenseBacked`, from `FundsInv` |
| `TaintedLotsNeverPay` | `TaintedNeverPays` |
| `SettlementKeepsPromise` | `KeepsPromise`: `Settlement` implements `Receivables` |
| `PaidInvariant` | `PaidInv`, which relates the database to the chains |
| `BalancesPayWhatCame` | `ChainPaymentsBacked`, if `UseTxLogs` is false |

`Accounted` is the equation of `FundsConserved` on a database, so that it can be
followed through the loops inside a transaction: `Settles(S, T)` says that from
`S` to `T` lots only shrink by what the counters grow, and is shown for one lot,
one transfer, then for every prefix of the loops.  `Backed` has to be carried
together with it, since a drop of a balance cuts the suspense of its chain.  A
step is one of five kinds (`StepKinds`): the database is left alone, one invoice
is issued, one is voided, open ones are settled, or two balances are read; each
theorem about steps, the refinement included, is a case per kind.  The step of
`Receivables` that corresponds to a settlement collects cash for exactly the
invoices whose status changed, and it is a real step because no job is free
(`Priced`); the step that corresponds to an issue bills a job that never had an
invoice or whose invoice was written off.

`ChainPaymentsBacked` speaks of what clients transferred, which the database
does not hold.  `PaidInv` bridges this: the last read of a chain is the balance
of a block it has (`Tracks`), the money recognised between two reads is at most
what was transferred between their blocks (`ChainsGrow`), and what was paid or
waits is within what the reads credited (`PaidWithin`).  The last one is false with transfer
logs next to balances: the run `settlement_race` is its counterexample, and the
hypothesis `~UseTxLogs` is what the theorem and the run `settlement_balances`
have in common.

`PurchaseProofs` proves for any number of threads, requests, notices, attempts
and faults, and any deadlines:

| theorem | states | under |
| --- | --- | --- |
| `PurchaseInvariant` | `PurchaseInv` | |
| `PurchaseTypes` | `TypeOK` | |
| `MoneyIsApproved` | `PurchaseApproved` | |
| `RequestsAreAnswered` | `DoneMeansAnswered` | |
| `EndedRowsStay` | `EndedStaysEnded` | |
| `OnceInvariant` | `Once`: until `torn`, `OnceInv` | |
| `ServerIsBoughtOnce` | `BoughtOnce` | |
| `PurchaseKeepsPromise` | `KeepsPromise`: `Purchase` implements `Approval` | |
| `FreshInvariant` | `FreshInv` | `PumpsReturn` |
| `RetriesWaitATick` | `OneAttemptPerTick` | `PumpsReturn` |

`PurchaseApproved` says that what was paid for has the votes of the three seats.
Between a vote and the payment lie a reply in the message table, the pump of the
operator, a thread's copy of the votes, and rows that are pruned meanwhile, so
the invariant carries `[corr, seat, vote] \in cast` along each of these places:
`AllMailed` for rows, `ThreadOK` for threads.  Nothing about it depends on which
faults there are.  `TypeOK` is not inductive alone: that `attempts` stays in its
bound needs that a queued row has attempts left.

None of the three theorems on the purchase assumes anything of the faults.
Until a role is torn, one thread at a time runs a role (`OneRole`), and what is
paid is noted before another operator asks again (`PaidIsNoted`); a role that is
lost at any other step leaves both as they were.  In `Approval`, `Tear` is the
step of such a loss.  `PumpsReturn` says that no pump hangs; with one that
does, two pumps hold the same message.  Crashes and abandoned roles are allowed.
`FreshInv` then counts an agent's pumps: an agent is in the agenda once, its
inbox is pumped late only if it was empty when the tick began, so a message that
failed is not in any list that is still to be handled.

`WorldProofs` proves for any engines, commands, cooldown and number of lock
files, in both modes:

| theorem | states | under |
| --- | --- | --- |
| `WorldInvariant` | `WorldInv` | |
| `WorldTypes` | `WorldTypeOK` | |
| `TraderFollows` | `TraderFollowsBroker` | |
| `OneHeartBeats` | `OneHeart` | `Quiet` |
| `CompletedTicksPersist` | `CompletedIsPersisted` | `Quiet` |
| `TicksAreUnique` | `TicksUnique` | `Quiet` |

`TraderFollowsBroker` is about every copy of the world, those in processes and
the one on disk.  It needs one fact that no property names: ethics never freezes
the trader, since the freeze of a halt would not replace that one (`Sound`).
Each operation of `Governance` is shown to preserve `Sound`, whoever runs it on
whatever copy.  The other three depend on the lock, and so on `Quiet`, which
rules out what `two_hearts` shows.  `NameIsHeld` says that the file a holder has
locked still has its name, so that `stale` is never concluded of it; `MarkerIsLast`
says that the ticking engine is at the tick of the marker, and that it has
persisted before it closes.  The marker is what keeps tick numbers unique while
commands write older snapshots back.

`VaultProofs` proves for any number of processes, credentials and keys, from
`VaultAssumption` (the number of keys is a natural, nobody is not a process):

| theorem | states |
| --- | --- |
| `Types` | `TypeOK`, which includes mutual exclusion, without `Careful` |
| `Invariant` | `IInv`, if the operator is careful |
| `AlwaysRecoverable` | `Recoverable`, from `IInv` |
| `NothingForgotten` | `OpenedIsNewest`, from `IInv` |
| `RotationRetires` | `OldKeyRetired`, from `IInv` |

`OpenedIsNewest` is about the moment a copy is opened; that only the newest one
opens is what has to be carried from step to step.  `SecretsNewest` says that
`secrets.enc` always holds the newest content.  A staged copy may be stale, but
then (`StaleIsPassive`) the configured backend opens `secrets.enc`; as one key
never opens two contents (`SameKeySame`), it cannot open the staged copy too.
`BackendUsed` covers processes that have moved to the keyring while the
configuration still names the file.  `Held` says what an operation relies on at
each of its steps.  The one place where `Careful` is needed is `SwitchKeeps`.

`WorkProofs` proves for any invoices, senders, letters, servers, roles,
transports, services, requests, sites, commits, offers, kinds of incident,
periods, threads, budgets and estimates, from the assumptions of the modules:

| theorem | states | under |
| --- | --- | --- |
| `BackupInvariant` | `BackupInv` | |
| `BackupsAreWhole` | `BackupIsWhole`, from `BackupInv` | |
| `LettersInvariant` | `LettersInv` | |
| `MailIsKept` | `MailIsSafe`, from `LettersInv` | |
| `BridgeInvariant` | `BridgeInv` | |
| `ConnectionsEnd` | `NothingRunsOn`, from `BridgeInv` | |
| `HumanInvariant` | `HumanInv` | `Tidy` |
| `RepliesAreVaulted` | `ReplyIsVaulted`, from `HumanInv` | `Tidy` |
| `BrowsingInvariant` | `BrowsingInv` | `InTurns` |
| `LoginsAreKept` | `LoginKept`, from `BrowsingInv` | `InTurns` |
| `CashInvariant` | `CashInv` | `OneCaller` |
| `CashIsThere` | `CashIsReal`, from `CashInv` | `OneCaller` |
| `TrialsInvariant` | `TrialsInv` | |
| `TrialsAreJudgedOnUse` | `JudgedOnUse`, from `TrialsInv` | |
| `AlertsInvariant` | `AlertsInv` | `Window > 0` |
| `OperatorIsTold` | `ToldInTime`, from `AlertsInv` | `Window > 0` |
| `MarketInvariant` | `MarketInv` | |
| `SourcesTriedOnTime` | `TriedOnTime`, from `MarketInv` | |
| `RouterInvariant` | `RouterInv` | |
| `ThirstIsBounded` | `RouterRestrained`, from `RouterInv` | |

A backup is whole because the file of an invoice is there before its row is
committed, and the database is copied before the directory is listed: at each
step what was copied and what is still listed cover the rows that were taken,
and a file whose row is taken is never removed again.  `OutInv` says that who
sends holds the lock of the outbox and has written its row while nothing had
left for that key, so that the next sender finds the row.  `InInv` says that a
letter which left the inbox has a row, and that while the labels are steady the
poll, the inbox or the rows hold every letter it labelled.  `BridgeInv` says
that without a role left behind the one role that is in a transport uses the
client of the registry (`Alone`), so that what connects is open and will be
found by the end of the tick (`RunsOwned`).

`HumanInv` says of each service that what the operator meant is in the vault or
in the last reply that waits (`Meant`), and of the consumer's copy that it
differs from the file only where a credential was stored (`Copies`); since
credentials are stored in the order of the file, a later reply is never
overwritten by an earlier one.  `BrowsingInv` says that a login that was not
cut off is in the vault's file and index, or in the browser, or that its site is
still on the list of what a close saves.  `InTurns` is that agents visit one site in a tick and
the operator waits for the browser to be closed; without the first `login_lost`
is the counterexample.  `CashInv` says that a sum is only stamped with a version
at which it was read between two equal versions, though other engines commit at
any step.  `OneCaller` is one thread in the ledger, the firm without roles left
behind; with two both halves of `CashIsReal` fail (section 3).  All three
hypotheses are those of the run `work`, where TLC checks the same properties.

`TrialsInv` says, while no reset was lost, that no copy of a playbook row has
more uses than the trial and its control really had (`Earned`), and that without
a trial every copy that will be written back has none, so that the next trial
starts from nothing.  `AlertsInv` holds of each kind of incident the mark against
the last message: no older unless that message got no mark (`unmarked`: its
dispatch was cut off, or its channel did not confirm it), and by webhook
no younger, because only what left is marked.  `alerts.py` takes a throttle of
no minutes, with which nothing counts as told lately; the theorems are about a
window that is positive (the default is 60 minutes).  `MarketInv` says that the
schedule has what was tried last and how it went, which a tick that dies between
the claim and the failure leaves true: what was claimed counts as done.  A
repair leaves the schedule alone and shortens the wait.  That
the schedule knows the keys `Market` and `Router` use is in their assumptions
(the code's table is a dict, open to every key).

`RouterInv` is needed since neither half of `RouterRestrained` is inductive: that
little was used says nothing of the calls that are still under way.  For the
budget it says that among these one, the last that was let go, has room for
itself and for all others (`Room`): when it was let go, what was used and its own
estimate were within the budget, and at most n - 1 others could still answer.  A
call that ends leaves the witness its room, and if the witness itself ends, any
other one takes its place.  Two facts carry this: the router counts exactly what
was used on the day (`Accounts`), through snapshots and restarts too, and an
answer is counted for the day on which it comes.  For the provider that fails,
`Rounds` counts failures and calls of today together: a degraded router lets no
call go, so each chance is worth one round of n; `Spaced` says that the chances
of a day lie a claim of the schedule apart, which bounds their number by the
length of the day.  `RouterAssumption` says that the threads are finitely many
and at least one and that there is a largest estimate, without which the bound
means nothing; estimates are positive because the code takes at least 32.

`JobsProofs` proves for any jobs, threads and cap, from `JobsAssumption` (the
operator is none of the threads, `Nobody` is neither a thread nor a job):

| theorem | states |
| --- | --- |
| `JobsInvariant` | `JobsInv` |
| `WorkIsBilledOnOrder` | `BilledWorkWasOrdered`, from `JobsInv` |
| `ApplicationsAreCapped` | `CapKept`, from `JobsInv` and `CapInv` |
| `RejectionIsFinal` | `RejectedIsFinal`, from `JobsInv` and `CopiesInv` |

Roles write whole copies of rows back, late or not, so none of the three
properties is inductive: each needs to be said of the copies as well.  `JobsInv`
says of every worker that its job was ordered or is the firm's own, and made if
it is about to write so; `asked` and `made` only grow, so an old copy stays true.  `CapInv` follows
the count from the store into the closer and back: at each place what was sent
today is within what was read or counted, with room left for the letter on its
way, and unless a closer was lost the heartbeat waits for the only one.  `CopiesInv`
says that no worker holds a copy of a rejected job, unless the rejection came
while one did (`raced`).  It is kept because every role takes up only rows of
the statuses it reads, which "rejected" is none of (`HandsFrom`), and writes only
rows it has taken up (`RowsFrom`).  Faults of all kinds are allowed.

Every safety property that a passing run checks is thus stated by a theorem, the
type invariant of `Settlement` among them; those of `Vault`, `Purchase` and
`World` are proved too.  Only model-checked are the three liveness properties
of `settlement_live` and `purchase_live`, since this prover has no fairness, and
the three counterexamples of section 3.

## 5. What the models leave out

Of settlement: the migration of the legacy watch record
(`payments.py:236-323`), events and deduplicated notices, the markdown copy of
an invoice, the sim mode's automatic collection.  `paid --confirm` is only
taken for open invoices, since `collect` of another one changes nothing.

Of the purchase: the listing limit of 20 (fewer messages exist), votes written
one by one are written at once, kinds without a handler (none are sent),
freezing and thawing themselves.  `OneAttemptPerTick` is checked without
abandoned pumps: with one, two pumps of an inbox may fail a message twice in a
tick.

Of the schedule: two of its users at once, commands that fetch prices or certify
(`setup`, `backtest`), and `force`, which nothing passes in live mode.  Of the
trials: a closer or an improver that was left behind.

Of the world: what else is in `meta` (prices, certification reports, the
provider), the genesis posting, repairs other than the lock's, the second
`diagnose` of `setup()` (it only reads and locks for a moment), readiness
checks, role threads the watchdog abandoned (they would write to `mem` late).

Of the work: how leads are scored and letters worded, the arithmetic of tick
schedules in simulations, drawing and text generation, pages and policies (a
page is applied at, not, or by a human), statistics over prices (floating
point), lessons and skill counters (no decision depends on them).  `Letters`
has no mail without a job and no transport that only writes a file.  Whether a
letter may change a job is a choice, as is what counts as an incident.  `Bridge`
makes the check and the count of a charge one step; a tick that fails closes no
client.  `Browsing` has the shared driver only: `session()` for one block is
unused by the engine.

Of hazards: a handler that hangs, a double win and the sessions sealed with an
old key are certain, follow from the code, and contradict no promise that
could be stated as a property; they are described above.

## 6. Plan

The core, sections 2 to 4, came first because it decides about money, then the
vault because it cannot be repaired, then the world, which all the others run
in, then the parts around them.  Next, in this order:

1. Abandoned role threads in `World`, and `debug` as an engine without a lock.
2. A key rotation beside vaulted sessions.

Runs are kept few: components that share no state are checked in one run, as
`MCServices` and `MCWork` do.
