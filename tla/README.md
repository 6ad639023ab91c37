# The GPU lease service in TLA+

The repository rents GPU clusters to the groups of a course. A student's CLI asks
a small HTTP service for a cluster; the service claims the group's session in a
SQLite table, launches EC2 instances, hands out a fresh SSH key, bills the hours
and ends the session; a reaper thread compares EC2 with the table once a minute
and ends what should not run. Instructors work on the same table and the same
instances from a shell, and mail the tokens students authenticate with.

This directory holds TLA+ models of that code, TLC runs over small instances,
and proofs, checked by TLAPS, for every value of the constants. Line numbers are
those of the files beside this directory under `src/`.

## 1. Inventory

| component | code | state it keeps | operations | what makes it correct |
|---|---|---|---|---|
| session table | `gpulease/db.py` | one row per (group, assignment): status, session id, key, nodes, lease, usage, starts | `claim`, `refund_start`, `grant_starts`, `set_usage`, `set_key`, `set_nodes`, `set_running`, `set_failed`, `accrue_and_close`, `mark_stopped` | one open session per slot; a lease fits the budget; starts stay within the limit; a session is billed once |
| student API | `gpulease/api.py` | none between requests; a handler's locals while it runs | `start`, `stop`, the live view | losers of a race see the winner's session; a failed launch is undone and refunded; key and nodes belong together |
| EC2 control | `gpulease/aws.py` | a cache of security-group ids; EC2 keeps the instances, tags and groups | describe, launch (security groups, strays, subnets, tags), terminate | one cluster per session; strays are leftovers; SSH is open to what is configured; nodes have a private network |
| reaper | `gpulease/reaper.py` | none between passes; one pass's description of EC2 | `run_once` (six cases), the deadline sweep, the loop | kills nothing that is in use; everything that should end ends |
| configuration | `gpulease/config.py` | settings read once at start | restart | the deadline caps leases and is enforced after a restart |
| instructor's shell | `admin.py` | none | `kill`, `terminate`, `grant`, `budget`, `reap`; `roster`, `enable`, `disable` | interventions never break the table; revocation is final; the token file is usable |
| students and tokens | `gpulease/db.py`, `admin.py` | the students table; `tokens.csv` | `upsert_student`, `authenticate`, access | as above |
| token mailing | `mail_tokens.py` | `tokens-sent.log` | one run over the file, interruptible | nobody is skipped, a failure does not stop the rest |
| service process | `setup.sh` | - | start, crash, restart | the state on disk and in EC2 is enough to go on |
| node boot | `gpulease/userdata.py` | files under `/etc/gpulease` on a node | boot, peer lookup, reboot, re-run of bootcmd | `env` exists only with a rank and after `peers` |
| session keys | `gpulease/keys.py` | none | make a key pair | - |
| student CLI | `cli/gpulease.py` | the command under way; a key file and `known_hosts` on the student's machine | start and stop with polling, status | bad news is true; the key file opens the nodes |
| LLM keys | `litellm/keys.py` | teams and keys in the proxy; `llm-tokens.csv` | mint (with and without `--rotate`), revoke, restore, budget | one key per student; the keys in the file work; a mint covers its roster; a revocation survives mints |
| request guard | `litellm/request_guard.py` | none | filter one request | - |
| roster from the form | `roster_from_form.py`, `assign_groups.py` | none between runs; `roster.csv` | convert the sign-up form, `--keep first` or `last` | the right submission wins; conflicts are reported |
| installation | `setup.sh`, `litellm/setup.sh`, example files | - | - | - |

How they interact: handlers (a pool of worker threads), the reaper thread and
`admin.py` processes share the SQLite file, where each operation is one
transaction, and EC2, where each call is separate and may fail. A handler is a
sequence of such transactions and calls with no lock around it; what it read
first is what it acts on last. Handlers share the security-group cache with no
lock either. The node talks to nobody but its metadata service, where the tags
the launch writes turn up after it has booted. The CLI is a client over HTTP with
timeouts of its own; it knows of a session only what the answers say. The LLM side
is apart: the form becomes `roster.csv`, `keys.py mint` reads it and makes calls
to the LiteLLM proxy, the first failing one of which ends the script, and writes
the only copy of the new keys at the very end.

What is hard to test in it, in short (`PROJECT.json` lists each at its line): two
members of a group acting at the same moment; table operations that name the
group and not the session they mean, so that a late caller hits a newer session;
the reaper's description of EC2 being older than the table it compares it with;
calls that fail half way, or are swallowed; a process that dies between two
steps, or a script between two calls; responses that are lost and repeated; a
student told something that has stopped being true; the budget's arithmetic at its
edges; and everything that has to end in the end.

## 2. Modules

```
SlotLease                    the contract of a slot: granted, released, never again
   ^ implemented by
SessionTable                 db.py: the sessions table
   |  EXTENDS
Deployment                   config.py: settings of one process, leases, deadline
   |
Fleet                        aws.py: the instances, seen from outside
   |-----------+-----------+
StudentApi   Reaper    Instructor      api.py / reaper.py / admin.py
   |-----------+-----------+
LeaseService                 all of it interleaved, and restarts
   |         \
   |          MCService -> MCRaces MCRecovery MCCluster MCBilling MCStrays MCLease
Client                       cli/gpulease.py: commands as clients of the service
   |
MCClient

Placement                    the contract of a launch: one sweep, one cluster, all its ranks
   ^ implemented by
Launch  <-  NodeBoot         aws.launch_cluster call by call; the node that boots beside it
Enrolment                    students table, tokens.csv, the mailing

Roster                       what the form's conversion writes and mint reads
   |-----------+
RosterForm   LlmKeys         roster_from_form.py / litellm/keys.py and the proxy
   |-----------+
Course                       from the form to the keys  ->  MCLlm
```

**SessionTable.** `rows` is the table, a function from slots (group, assignment)
to records with the columns that matter; `NoRow` is a missing row. `clock` is
`db.now()`. Every operation of `db.py` is an action of the same name and one
transaction. `phase` and `bills` are history: which session ids have been claimed
("open") and have left the live states since ("ended"), and how often each was
billed. The general client `TableSpec` calls anything at any time, which is more
than the service does. `SlotLease` is the abstract specification: a slot has one
holder, is granted only while it has none, and never again to a session that is
over; `SlotContract` says the table implements it, with the holder read off the
row and the released sessions off `phase`.

**Deployment** has `config`, the settings a process runs with, and the cap they
put on a lease. **Fleet** has `inst`: an instance is its SessionId and NodeIndex
tags and is none, new (launched, not listed yet), up, idle (stopped) or gone.
Fleet also has the counter of upsets: everything that goes wrong or intervenes
(`raise`: a call raises; `swallow`: a `ClientError` from terminate is logged and
forgotten; `nodeLost`, `handStop`, `admin`, `restart`), each kind of which a run
allows or not.

**StudentApi** has one request record per worker, whose `pc` is where the handler
is and whose other fields are its locals. A step is one transaction or one EC2
call, in the order of the code: for start `claim`, `key`, `strays`, `sweep`,
`launch`, `record`, and after an exception `fail`, `refund`; for stop `accrue`,
`terminate`, `mark`; for the view `probe`, then `promote` or `refresh`. A handler
may stop anywhere for ever. **Reaper** has one pass record per pass: what the
description showed, what it will do about each row, the session it read in that
row (`read`; its copy of the table) and which groups are orphans.
A pass describes, decides from the table as it is by then, and carries the
decisions out call by call. The thread is one pass, `admin.py reap` another.
**Instructor** adds kill, terminate, grant and budget. **LeaseService** composes
them, adds the clock and `Restart`, which drops requests and the thread's pass.

**Launch** opens the one step Fleet makes of a launch: both security groups found
or made, opened and closed call by call, the id cache handlers share, the sweep,
one `run_instances` per subnet under its ClientToken with botocore's retries, the
tags node by node; any call may raise before or after its effect; a restart empties
the cache and may bring other SSH ranges. `sgs` is what EC2 has, `cached` what the
process believes, `launch[l]` where launch `l` is. `Placement` is its abstract
specification, with the steps a launch has in StudentApi and Fleet: a sweep of the
group, one placement of one cluster, done when every node carries its rank, and an
exception or a restart that fails it anywhere in between, for good. `Stage` reads
the step off `launch[l].pc`, and a cluster that was placed under a lost response
counts as placed although nobody knows of it. **NodeBoot** puts a node's boot
script and its background lookup beside it, sharing only the tags.

**Enrolment** has the students table, `tokens.csv`, the sent log, what each
student was mailed, and the two commands that take more than a step: a roster run
(transaction, then file) and a mailing (per row: send, then record). Both can be
interrupted in between.

**Client** puts the students' machines in front of LeaseService. `cli[c]` is the
command that runs on machine `c`: a POST, then GETs while it polls. A call is
served by a worker, whose steps are those of StudentApi, unchanged; the step with
which the worker becomes idle is the answer, and `Outcome` is what the command
makes of it. A command may give up whenever it waits, and its handler goes on
without it (`Abandoned`); a restart of the service cuts the calls off.
`keyfile[c]` says whose key the machine has.

**RosterForm** is the conversion as a function of the export and of `--keep`: one
pass over the rows, sorted stably by stamp, that enters each row's members over
what earlier rows said. It is a fold over the set of rows: the row that the sort
puts last (`LastOf`) is entered over what the others left. **LlmKeys** takes a mint call by call: update the teams that
exist, create the others, list the keys, then per student keep, or delete and
generate, or generate; and the file last. It may die at every call, before or
after the proxy obeyed, or while it writes. `revoke`, `restore` and `budget` run
beside it, `revoke` and `restore` in two calls. **Course** composes the two: every mint reads
the roster exported last.

`SessionTableProofs`, `LeaseServiceProofs`, `CoherenceProofs`, `ClientProofs`,
`EnrolmentProofs`, `LaunchProofs`, `LlmKeysProofs` and `CourseProofs` hold the
proofs. Those of the service build on each other: `LeaseServiceProofs` extends
`SessionTableProofs`, `CoherenceProofs` extends it, and `ClientProofs` extends that
one. `CourseProofs` extends `LlmKeysProofs`.

### Abstractions

- A recorded node list and a private key are the id of the session they were made
  for. The properties only ask whose they are.
- Time is a clock that ticks and never goes back. A handler reads the clock at a
  claim in the step of the claim. Times count from 1, so 0 is NULL.
- `session_log`, the rendering of answers, healthz, whoami and the CLI version
  check change nothing a property looks at, and are left out.
- What EC2 does to an instance between our calls is: it becomes visible, is lost,
  is stopped by hand. What `terminate` was accepted for counts as gone: EC2 lists
  it as shutting down, which no filter of the code asks for.
- In Launch, an SSH range is one rule; the host's own security groups, which are
  only ever added, are left out; launches of a group may overlap without limit,
  since the claim is LeaseService's subject; only one node's boot is followed,
  because nodes do not meet. That Launch implements Placement is checked and
  proved; that Placement's steps are `StartSweep`, `StartLaunch`, `StartRecord` and
  `LaunchRaises` of StudentApi over Fleet's instances is by reading.
- What an instructor passes is a natural number, a cap or a mint's budget a positive
  one: `admin.py grant` takes a negative `--starts` too, which would raise the
  counter. `ViewRefresh` wants a node that is up, where the code also writes the same
  node set back when none is but addresses are known. In Launch revoking a rule
  that is gone succeeds. In NodeBoot a new lookup of the tags replaces an earlier one.
- In Enrolment a secret is its student and the roster run that made it; a roster
  names each student once; one mailing runs at a time, in any order; groups and
  names are left out.
- In Client, what is printed, `login`, and time are left out: a command may run
  out of patience at any moment, as after 40 seconds for a call or seven minutes
  of polling. The look at the session before stop's question is what status does.
  `sid` (the session a command means) and `said` (how the last one ended) are
  history. A call is served at once: queueing for a worker is not modelled.
- In LlmKeys a team is the group it is for, a model list the version of
  `config.yaml` it came from, a key a number in the order of issue; spend is left
  out. Edits of `config.yaml` and exports of the form fall between mints, since a
  mint reads each once. An alias that is in use may be accepted or refused,
  because nothing in the repository says which. One mint runs at a time.
- In RosterForm a submission is its stamp, its group and its members; all of them
  come before the first export.

## 3. Runs

Every bound is a constant that guards the action it limits: `MaxClock` the clock,
`LastClaim` claims (so that leases still run out before the clock stops),
`MaxUpsets` upsets, `MaxUsed` billing by the general client, `MaxMints` roster
runs, `Starts`, `MaxRetries`, `MaxTroubles`, `MaxBoots` launches, lost responses,
failures and reboots, `MaxForm` submissions, `MaxKeys` keys issued, `MaxFaults`
mints that fail, `MaxCommands` revocations, restorations and budgets, `MaxModels`
versions of `config.yaml`. Finite instances stop at those bounds, so all runs have
deadlock checking off.

| run | asks | instance, and why it is enough |
|---|---|---|
| `table` | Does any sequence of table calls break the slot, the budget, the start limit or the contract? | one slot, two sessions, clusters of one and two, one start (the second takes a refund or a grant), a quota the second lease only partly fits, corrections of usage: reuse, a spent limit, rounding and partial budgets all occur. Rows never meet, so one slot shows it. |
| `races` | Do two handlers and the reaper, step by step, keep the claim single, let the reaper end what it has read only for cause, and refund exactly once? | two workers are two groupmates; two sessions are an old one and a new one; one call may raise. |
| `clients` | Can a group get two clusters, a RUNNING row with somebody else's key, a key file that opens nothing, or news that is false? | two machines of one group, two workers, two sessions (one that fails or is stopped, and the next), starts, stops, polls and status at any moment; a call that raises or a restart. |
| `recovery` | Under every kind of upset, two at a time: does every claimed session end, every instance of an ended one get reclaimed, and a deadline that stays clear the course? | one slot, one session at a time, liveness under `FairSpec`, restarts that bring or drop a deadline. |
| `cluster` | Does a wedged launch, or a cluster that lost a node, end long before its lease? | two nodes, a lease beyond the clock's horizon, so that only these two cases can end it; two assignments, the active one of which a restart may change, so that a live row of the old one meets instances of the new one. |
| `billing` | finding: `BilledOnce` | two groupmates stop one session |
| `strays` | finding: `StraysAreLeftovers` | a slow start, a stop, a second start |
| `lease` | finding: `LeaseBoundsSession` | a view that outlives its session, a refused termination |
| `enrolment` | Do tokens.csv, the log and revocations survive reloads, rotations, failures and interruptions? | two students (one rotated, one not), three roster runs that mint. |
| `rotated` | finding: `NobodySkipped` | a rotation after a mailing |
| `launch` | One cluster per session, narrowing closes, network before nodes, an `env` with a rank; is the whole of it one sweep and one placement? | two launches of one group racing for both security groups, two nodes, three subnets, two ranges, a lost response, three failures or restarts, two reboots or re-runs. |
| `llm` | Does the right submission win, has every student one key, do the keys in the file work, do revocations last, whatever mints died half way? | two students who move between two groups, every form of up to three submissions (two stamps and one that does not parse), three keys: an old one, its rotation and the next; a mint that dies, a command beside it, a second model list. |

`races` uses the view `Unbilled`, which keeps of `bills` only which open sessions
were billed: nothing but `bills` itself reads it, and no property of that run asks
for more. `llm` uses
`Seen`: once there is a roster, a form matters only for the two rosters it gives.
`launch` uses `Unfinished`: locals a launch has no more use for, and the count of
subnets without the type, which only words an error, tell no two states apart.
Symmetry (over session ids, workers, machines, students, groups, ranges) is used where invariants and
properties of single steps are checked, and never for liveness. Where two runs
of the service could be one, they are apart because their bounds would multiply.

### What the properties say

- `OpenIsHeld`: a session that was claimed and not yet closed is the one its row
  names, and the row is live and has a lease, whatever late callers do.
  `SlotContract` is its form as a refinement.
- `LeaseWithinBudget`: a lease spent to its end at the row's node count stays
  within the quota. `StartsWithinLimit`, `StartsCountSessions`: the counter of
  starts is bounded, and exact (no grants, no restart).
- `OrphansAreOver`: whatever a pass takes for an orphan, from a description as old
  as can be, belongs to a session that has ended. It holds because an instance
  appears only after its claim, so the table, read later, knows its session.
- `ReapedForCause`: a pass judges first and acts later, on instances it listed
  before it judged and on rows it has read. Yet in every step of a pass in which an
  open session loses an instance, is billed or is closed, that very session is
  by then overdue, past the grace period or the timeout, or was billed to be
  stopped. There are three exceptions. The deadline needs no cause. The verdict on
  a row of another assignment may end the instances, because EC2's tags are read by
  group only. And a session claimed after the pass read its row may be billed and
  closed for the one before it (`Overtaken`), because the writes name the row: see
  the end of section 4. Its instances the pass does not end, it has not seen them.
- `NoDuplicateCluster`, `RunningIsCoherent`, `KeyFilesOpenTheNodes`: one cluster
  lives, key and nodes are one session's, and a key file a start wrote opens them,
  in a slot that is `Undisturbed`: none of its sessions ended but by a launch that
  failed. After a stop or a reaping none of the three is true; see `strays`.
- `EndsAreTrue`: start says "the nodes failed to come up" and stop says "confirmed"
  only when the session they mean is over. This one has no such condition.
- `OneKeyEach`, `RevocationSurvivesMint`: from states of the proxy and not of one
  run, so that they cover every mint that died between two calls. A student is
  exempt (`strayed`) once a mint of theirs did not list the team their key is on:
  a group that has left the roster is not asked for, and its student gets a second key.
- `FileKeysWork`: the file is true of the proxy from its writing until a later
  rotation deletes a key. `MintCovers`, `MintIsAdditive`: what a mint that ends has
  done, and what no mint may do.
- `RosterByStamp`, `ConflictsReported`: the conversion against a definition by
  quantifiers over the submissions, for both values of `--keep`.
- `ClaimedSessionEnds`, `InstancesReclaimed`, `DeadlineClears`,
  `LaunchNeverWedges`, `CrippledClusterEnds`: the reaper alone suffices.
  `InstancesReclaimed` exempts groups shielded by a row that was promoted after
  its end, which is the finding `lease`; `CrippledClusterEnds` exempts clusters
  with a leftover of another session, which case 5 counts as theirs.
- `LaunchContract`: the refinement of Placement. It implies `OneClusterPerSession`
  and says more: when a cluster may appear (after the sweep, never for a launch that
  has failed), what may end one, and that a launch is done only with all its ranks.
- `OneClusterPerSession`, `NarrowingCloses`, `NetworkBeforeNodes`, `EnvIsWhole`,
  `RowsAreCurrent`, `LoggedMeansMailed`, `RevocationHolds`: as in their comments.

### Fairness

Safety runs have none. `FairSpec` asks three things. The clock ticks. EC2 lists
an instance at last. And the reaper thread keeps taking steps, which
`run_forever` justifies: it loops for ever, catches every exception and the unit
is restarted when it dies. A pass that raises is a step too, but upsets are
finite, so a pass gets through in the end; a service whose every EC2 call fails
for ever reclaims nothing, and no property says otherwise. Nothing is asked of
students, instructors or handlers: a handler may hang at any step and the
properties hold all the same.

## 4. Where the code and its comments differ

Four runs end in a violation on purpose. Each checks one property, the sentence
quoted, and finds a behaviour of the code that does not keep it.

1. `billing`. `db.py:519-520`: a second `accrue_and_close` "finds a non-live status
   and does nothing". It leaves STOPPING, which is live (`db.py:44`): a second
   caller before `mark_stopped` bills the session again.
2. `strays`. `aws.py:649-651`: what the sweep finds is "a leftover from an attempt
   that died". If the session was stopped and another started in between, it is
   the open session's cluster.
3. `lease`. `config.py:179-180`: the lease "is the only thing that bounds a single
   session's length". A view that was probing while the session was stopped
   promotes the row with no lease; if its instance survived, nothing ends it
   short of a deadline.
4. `rotated`. `mail_tokens.py:2`: "Mail every student on the roster their own
   course token". The log is by student, so a rotated student is passed over.

A fifth difference has no run of its own, because it is the exception `Overtaken`
of `ReapedForCause`: without that disjunct TLC refutes the property on `races` in
seconds. `reaper.py:48` has a grace period so as not to "call an instance missing
until EC2 catches up". A pass that has read the row of a session without
instances, being stopped or past its grace period, closes the row some calls
later, by group (86-87). If that session was stopped meanwhile, or its launch
failed, and a groupmate has started, it is the new session that is billed and
closed, within its own grace period, and the nodes it goes on to launch are
orphans. The same holds of a verdict to reap (116-117), but not of the
termination before it, which names instances. What it costs is bounded: the
session is young, so the bill is short, and the orphans are reclaimed.

## 5. Proofs

Assumptions are those the modules name: `NoSessionAssumption` (NULL is no
session), `PolicyAssumption`, `ArgumentAssumption`, `ConfigAssumption`,
`UpsetAssumption`, `ReaperAssumption`, `InstructorAssumption`,
`MintAssumption`, `LaunchAssumption`, `BootAssumption`, `ClientAssumption`,
`LlmAssumption` and `FormAssumption` (numbers are naturals, what must be positive
is, the network groups have other names than the student one, a machine has a
group, Nobody and NoWorker are none). TLC evaluates each in a passing run. Number
of groups, sessions, workers, passes, upsets, nodes, subnets, students, machines
and keys is arbitrary, infinite sets included (keys are finitely many). Three
theorems have a condition of their own, which the table names: `NoGrant` (no
instructor acts, or the only grant is none) and no restart.

| theorem | says | argument |
|---|---|---|
| `TableInvariant` | types, `OpenIsHeld`, `LeaseWithinBudget` of the table | `TableInv`, their conjunction, is inductive: the budget needs `OpenIsHeld`, because it speaks of the row of an open session, and both need types. The arithmetic (a quotient times the node count is at most the budget) is a lemma. |
| `TableTypes`, `StartsAreLimited` | `TableTypeOK`, `StartsWithinLimit` | the first is a part of `TableInv`; the second is inductive over it: only a claim counts up, and only from below the limit; refunds and grants count down, to 0 at most |
| `TableImplementsContract` | the table implements `SlotLease` | every operation that may change `phase` is a grant, a release or a stutter of the contract, from `OpenIsHeld` |
| `ServiceTypes`, `ServiceClaims` | the same of the whole service | `ServiceInv`. The table's part is reused: each step of a handler is a table operation or leaves the table alone. But a claim needs its lease cap to be positive, and `SetNodes` a session that exists, so requests carry their facts (`RequestOK`): what a start works on is a session of its slot, claimed from its claim on. |
| `ServiceOrphans` | `OrphansAreOver` | needs that every instance was launched for a claimed session (`FleetInv`) and that a pass has seen only such (`PassOK`); then a group without a live row has, by `OpenIsHeld`, no open session, and a session that ended never opens again |
| `ServiceImplementsContract` | the composed service implements the contract | `ContractStep`, shared with the table |
| `ServiceDuplicates` | `NoDuplicateCluster` | instances belong to claimed sessions (`FleetInv`), two sessions of a slot are not both open (`OpenIsHeld`), and one that has ended in an undisturbed slot has failed |
| `ServiceCoherence` | `RunningIsCoherent` | `CoherenceInv`, below |
| `ReapedForCauseHolds` | `ReapedForCause` | `CauseInv`, below |
| `StartsAreHonest` | `StartsCountSessions`, given `NoGrant` and no restart | `CountInv` adds to `CoherenceInv` that the sessions counted and the refunds due are finite sets, which they are in every reachable state even if there are infinitely many ids and workers. Each step then leaves the count of a slot alone, claims a fresh session below the limit, exchanges a session that fails for a refund that is due, or pays one refund. That a failing session was counted, and fails once, is what `CoherenceInv` knows of it. |
| `StartsNeverGivenBackTwice` | given `NoGrant`, the counter is at least the number of sessions that did not fail and refunds that are due | the same steps and one more: a restart drops the refunds that are due. Here the counter's floor (`starts > 1`, else 0) does not bite, because the refund that is being paid is still in the count. |
| `SessionsWithinLimit` | given `NoGrant`, no slot gets more than `MaxStarts` sessions that do not fail, crashes included | the counter stays within the limit and covers the sessions |
| `ClientImplementsService` | Client, with its own variables hidden, is LeaseService | each step of a command is a step of its handler or none: so every theorem above holds of the service as the CLI uses it |
| `ClientTypes`, `ClientEnds` | `ClientTypeOK`, `EndsAreTrue` | `ClientInv` adds to `ServiceInv` what ties a command to its handler (`LinkOK`): a waiting command has a worker of its own at a step of its kind, a stop that posted is served at the slot of the session it means, a stop that polls has seen it closed. A start is told of failure when the row is not live, and by `OpenIsHeld` the session is then not open. |
| `ClientKeyFiles` | `KeyFilesOpenTheNodes` | `KeyFileInv` adds to `ClientInv` and `CoherenceInv` what a command has seen (`SeenGood`): if it has read RUNNING, the row has kept its nodes, and a key it has read is that of the session whose nodes it reads, or of one that was closed under its launch. It survives for as long as the command holds it, so the file it writes at last still fits. |
| `EnrolmentIsSound`, `EnrolTypes`, `LoggedHolds` | `RowsAreCurrent`, `LoggedMeansMailed`, types | what a roster run is about to write must be current while it waits (`IssuedIsCurrent`), and a row about to be recorded must have been sent (`RecordFollowsSend`). `FileIsCurrent` is stronger than `RowsAreCurrent`: it holds of revoked students too, who may be enabled later. |
| `OnlyEnableRestores` | `RevocationHolds` | from types, action by action |
| `LaunchIsSound` and, by name, `LaunchAndBootTypes`, `OneClusterHolds`, `NetworkHolds`, `EnvHolds` | all safety properties of `launch` | `SeenIsUseful`: two launches working on the SSH rules from what each read do not spoil each other's work, because both only open what is configured and close what is not. `PlacedIsCurrent`: a launch leaves a subnet only if EC2 placed nothing under its token. `NetworkIsThere`, `CountersFit`; `FilesFollowLookup` for the boot. |
| `LaunchImplementsContract` | Launch implements Placement | `PlacementInv` adds to the invariant of `LaunchIsSound` that nothing is placed for a launch before it comes to `run_instances`, and that what it tags is the cluster placed for it, rank by rank (`PlacementFits`). Then the first request that EC2 obeys is the placement, heard of or not; another one carries the same token and is a stutter; so is a refused subnet, because a refusal means that nothing is there (`PlacedIsCurrent`). |
| `LlmTypes`, `OneKeyEachHolds`, `FileKeysHold` | `LlmTypeOK`, `OneKeyEach`, `FileKeysWork` | `LlmInv`. What a mint holds in hand must stay true while it works: the key it found is still the student's only one until it deletes it (`FoundHolds`), the keys it issued are their owners' and live or blocked (`IssuedHolds`), and who is left to be given a key has none. Revocations beside it change a key's state, never its owner. |
| `RosterByStampHolds`, `ConflictsReportedHolds` | `RosterByStamp`, `ConflictsReported`, for forms of any length and any number of students | `CourseInv`: the form is a sequence of submissions, and what is exported or minted from is its roster for one `--keep`; the rest is the fold, below |
| `CourseImplementsLlm`, `RostersAreMintable` | Course, with the form hidden, is LlmKeys, and `roster.csv` is always one that a mint takes | each step of the form is a stutter of the proxy; a mint reads the last roster |
| `KeysFollowFormHolds` | `KeysFollowForm`: a key that a rotation writes into the file is on the team of the group which the student's winning submission names | the roster a mint works from is the form's (`CourseInv`), it covers it (`MintCovers`), and the form's roster is right (`RosterByStamp`) |
| `MintCoversHolds`, `MintIsAdditiveHolds`, `RevocationSurvives` | the action properties of `llm` | from `LlmInv`, action by action; `MintCovers` rests on `TeamsUpToDate` as well |

`RunningIsCoherent` is not inductive, and neither is its conjunction with the
invariants above. The table's operations name a row and not a session, so a launch
that a stop has overtaken may still write its key, and a late view its nodes, into
the row of a newer session; and a slot becomes `Undisturbed` again when the
overtaken launch fails after all. `CoherenceInv` says what each such write leaves
behind. A session is at work for one request only (`SidsDiffer`), and once no
request works on it and it has not failed it never will (`Settled`). Nodes
that anybody can read, in a row or in a handler's locals, are those of settled
sessions (`RowNodesSettled`, `RequestNodesSettled`); a RUNNING row has nodes, and
keeps those that a handler has read while their session is open
(`RunningHasNodes`, `NodesStay`); and the key in an open session's row is its own or
that of a session which was closed under its launch and has not failed
(`KeysFit`). In an undisturbed slot a settled session is open, hence the row's, and
there is no overtaken one: nodes and key are the session's own. When the overtaken
launch fails, its `set_failed` names the row too and takes it out of the live
states, whoever holds it.

`ReapedForCause` is a property of a single step, of a pass that acts on what it
remembers; `CauseInv` says that what it remembers is still true. While a session is
open its lease and its start do not move, the clock only advances, what was billed
stays billed, and a row that is STOPPING was billed (`LeaseStep`,
`StoppingBilled`), so a verdict that was deserved when the rows were read is
deserved when it is carried out (`Judged`), and a session claimed since has none of
the instances that were listed before. `Judged` says so of the instances a pass
has seen and of the sessions it has read (`read`); that none of the latter is
claimed only later needs that a row names no session before its claim
(`NamesUsed`). Nothing of the kind is true of the session that holds the row when
the pass comes to write it, hence the exception. That a pass kills nothing that runs among
what it saw *stopped* is less obvious, because a launch writes its instances as new
whatever they were: it needs that a session is launched once (`Unlaunched`), which
rests on `SidsDiffer`, and that nobody is about to launch what a pass has seen
(`IdleSeen`).

The form's conversion is a fold, and its theorems are inductions. The library's
induction theorems take an operator as a parameter, which no prover here can
instantiate; but a subset of the naturals can be a parameter, and its least element
exists by `WFMin`. `Induct` in `CourseProofs` is induction for such a set. By it,
every set of rows has one that is read last, because the order of reading is total
(`EarlierOrders`, `LastIsLast`); the fold is defined (`ReadDefined`); and what it
makes of any set of n rows are the roster and the conflicts of that set, because
they are those of the others and its last row entered over them (`RowsRead`).

Only liveness is model-checked only: what holds under fairness, and ENABLED, are
beyond the prover. `SlotContract` is proved under two names, of the table alone and
of the whole service.

## 6. Not modelled

Session keys (`gpulease/keys.py`) and the request guard keep no state: the one
calls a cryptographic library, the other filters a dictionary. Installation is
shell scripting; its one effect on the running system, a restart, is in
LeaseService. Of the CLI, `login`, the help text and the layout of what is shown
are left out; `assign_groups.py` joins the roster with an export for other tools,
and nothing in the repository reads its output. Parsing of environment variables
and reads such as preflight, image and subnet lookups are left out. The proxy is
modelled from how `keys.py` uses it; its spend, rate limits and requests are not.

A change of `GPULEASE_ACTIVE_ASSIGNMENT` under a running session is in `cluster`
and in the theorems, which hold for any set of assignments and settings. The
other runs have one assignment. What such a change costs is not stated: the
reaper groups instances by group, so the old row is served by the new instances
and its lease ends them.

## 7. Plan

The order was by weight: the table and its contract, the service around it, then
the launch, the boot and the tokens, then the clients and the LLM side. What is
left, in order:

1. What a change of the active assignment may cost, as a property: which session
   pays for, and which is ended by, instances the reaper takes for another's.
2. A late launch costs time: a launch slower than the grace period is closed and
   billed although README.md says a failed launch costs nothing.
3. Two sentences of the CLI as runs: a stop is "confirmed" by any answer without
   a live session (`cli/gpulease.py:343-345`), and status, to which start's help
   sends students (394-395), never writes a key (303).
4. The service itself as an implementation of Placement, which Launch implements
   call by call: instances per node, visibility and losses have to be added to the
   contract first.
