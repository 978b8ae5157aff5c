# A verification of the HYROVI Proxy Manager

This directory holds TLA+ models of the parts of HYROVI Proxy Manager (HPM) where several
actors, failing steps or stale copies of state meet, TLC configurations that check them on
small instances, and TLAPS proofs of the properties that matter most for every value of the
constants. The reference is the source: every definition that models code is translated from
the lines `PROJECT.json` ("map") names for it. Paths below are relative to `src/`.

To check: `tlasany M.tla` parses a module, `tlc -config X.cfg M` runs a configuration (the
pairs are in `PROJECT.json`, "runs"), `tlapm M.tla` checks the proofs of a module.

## 1. The system

HPM is a reverse-proxy manager: a Node backend over a database, which writes Nginx
configuration files and reloads Nginx, in a container supervised by s6. To the upstream proxy
manager it adds two subsystems with state machines of their own. *HYROVI Sec*
(`backend/internal/security*.js`, documented in `HYROVI_SEC.md`) reads the access log and answers
attacks by rate limits, browser challenges and blocks. The *HYROVI control plane*
(`backend/internal/control_plane*.js`, `deployment/node-agent/`) registers remote nodes, queues
work for them and collects their telemetry.

Almost all of their state is JSON files rewritten whole and include files generated from them.
Each file is guarded, if at all, by a promise chain in the memory of one process
(`withSecurityConfigMutation` and its like). So the hard questions are the same everywhere: what
is left when one of several steps fails, what a copy read before an `await` is worth after it, and
what a restart finds.

### Components

| Component | State | Operations | Hard behaviour | What makes it correct |
|---|---|---|---|---|
| Response state commit (`security.js` 979-1470, 3160-3225) | `blocks.json`, `rate-limits.json`, generated includes, the include the running Nginx has loaded, a chain per process | add, remove, purge, reconcile at start | apply / reload / persist fail one by one, each with its undoing; crash between any two; emergency bypass | an acknowledged block stays listed and enforced; a failing operation leaves no trace and holds up nobody |
| Request risk (`security.js` 420-580) | none | one pass over the requests of a source | a sliding window kept by adding and subtracting | the counters are those of the last sixty seconds |
| Autopilot decision (`security.js` 1098-1145) | none | one decision per request | thresholds, boosts, the ladder observe, limit, challenge, block | more evidence never weakens the answer; a challenge has its grace |
| Threat monitor (`security.js` 1700-2090) | seen event ids, strike counters (`escalations.json`), the three lists | poll, run, five commits | a run works on copies while administrators, challenges and polls go on; a commit in the middle fails | one response per request at most, a block replaces lower responses, only earned strikes escalate |
| Provisioning jobs (`control_plane_provisioning.js`, `routes/control-plane.js`, node agents) | job files with leases, the inventories nodes reported, hosts, scripts in the container | enqueue, claim, create, route, heartbeat, report | lease runs out under a living agent, orphaned scripts, lost and late results | a result is final and true, one active job per domain, every job ends |
| Browser challenge (`security_challenge.js`, `clients/hyrovi-sec-challenge-node.mjs`) | `challenges.json`, the geo include, a chain of its own | challenge, show, verify, remove, purge | geo applied before the list is written; failed proofs written outside the commit | attempts are bounded; who solved a challenge is let through; nobody stays challenged for ever |
| Policy store (`security.js` 1656-1686, 3691-3904) | `policy.json`, per-host policies, protection files | update, delete, sync every 30 s | no lock; files first, reload after, a failed reload not tried again | Nginx comes to enforce the policy that is stored |
| Host groups and ACLs (`security_host_groups.js`) | groups, per-host ACL files, geo file | create, update, delete, host access | `ensureHostAclFile` runs outside the queue | a host in one group at most; ACL files say what is stored |
| Nginx configuration (`nginx.js` 27-430) | one file per host | configure, delete, bulk | concurrent calls share one `nginx -t` | what an administrator was told about a host is true of Nginx |
| Proxy, redirection, dead hosts and streams (`proxy-host.js`, ...) | rows, one file each | create, update, enable, disable, delete | whole rows written back, nothing serialized | row, file and running Nginx agree when a request has ended |
| Certificates (`certificate.js`) | rows, certbot's files, DNS credentials, what Nginx has loaded | request, renew by timer or by hand, upload, delete | hosts are down while certbot runs; certbot refuses to run twice; a renewal does not reload Nginx | the hosts taken down come back; what can be renewed is served renewed |
| Access lists (`access-list.js`) | rows, htpasswd files | update, delete | files of all hosts rendered without a test | no file that Nginx refuses stays |
| Node registry (`control_plane_nodes.js`) | `nodes.json`, token hashes | create, update, delete, rotate, heartbeat | authentication outside the queue | the agent of an enabled node gets in |
| Telemetry (`control_plane_telemetry.js`, node telemetry agent) | cursors (inode, offset), batches, stored log | read, upload, ingest, compact | rotation, lost answers, partial lines | nothing is skipped; duplicates only by retry |
| Signed devices and app events (`security_devices.js`, `security_app_events.js`) | device keys, last sequences, events | register, revoke, reset, verify | overtaking requests, two files per change | no event accepted twice |
| Event archive, log reading (`security.js` 293-331, 564-747) | a file a day, two bounded sets of known ids | read the window, persist, compact, purge | bounded sets, rotation, half-done writes, restart | an event is handed over once, archived once, and reaches the archive |
| Alerts, detection rules, rule reviews | JSON lists behind a queue each | create, update, promote | list limits | bounded, deduplicated |
| Users, tokens, settings, audit log, IP ranges | database rows, files | CRUD, downloads | | inherited from upstream; not modelled |
| Frontend, schemas, migrations, images, documentation | none that the server relies on | | | not modelled |

`PROJECT.json` ("components") has all twenty-nine of them with their files and status.

### How they interact

* A request that Nginx logs is read by the *threat monitor*, which asks *Autopilot* (or a rule's
  fixed action) and commits through the *response state commit* and the *browser challenge*. The
  administrator's routes use the same commits, on the same chain; challenges run on another.
* The *policy store* is read by a poll, before its run waits in the chain.
* Every include goes through one `nginx -t` and one reload, shared with *Nginx configuration*.
* The *control plane* queues jobs that the *node agents* claim over HTTP; an agent runs a script in
  the node's container that calls the same `proxy-host.js` and `security.js` as the node's backend,
  from a second process with a promise chain of its own.
* Heartbeats report inventories, which the next provisioning request consults.

## 2. Plan

The response path came first, since it is what the product promises, then the control plane, then
what protects and configures each host. All modules of the plan are written:

1. `ResponseList` (abstract), `ResponseStore` (implements it), with proofs.
2. `Autopilot`, `AutopilotLadder`, and `RequestRisk`, which scores what they decide on, with proofs.
3. `ThreatMonitor`, over `Autopilot`, with commits as steps that `ResponseStore` justifies; `EventArchive`, which reads
   the log for it and archives what it reads; with proofs of all their safety properties.
4. `Provisioning`, with proofs of all its safety properties.
5. `ChallengeList` (abstract), `Challenge` (implements it), with the client that solves challenges, and with proofs.
6. `HostConfig`: hosts, certificates and access lists over one directory and one test, with proofs; `Certificates`: their life from
   request to deletion, with a proof of `RowNotAheadOfFile`.
7. `HostPolicies`: groups, ACLs, policies and the timer, with proofs of all its safety properties.
8. `NodeTelemetry` and `SignedEvents`: at-least-once delivery and replay, with proofs of
   `EventsAcceptedOnce` and `LinesDelivered`.

Every safety property that a run finds to hold is proved (section 6). Left, should the project grow: `BlockSupersedes` is stated for runs whose
commits succeed, and what a failing one leaves in force could be a property of its own; two processes writing the store, for which only the types and the bypass
are proved, could be given the guarantees that remain; detection rules and their gated promotion would be a module.

## 3. What is modelled, module by module

### ResponseList and ResponseStore: making a list durable and enforced

`ResponseStore` models `commitBlockState`, `applyBlockConfig`, `purgeExpiredUnsafe`,
`addBlockUnsafe`, `unblockIp`, `prepare` and the promise chain of `security.js`, step by awaited
step. (Rate limits go through twins of these functions, line for line.)

| Model | Code |
|---|---|
| `blocks`, `conf`, `nginx` | `blocks.json`; `blocked-ips.conf`; the include the running Nginx loaded last |
| `queue[p]` | `securityConfigMutationQueue` of process `p`; its head is the operation under way |
| `pc[p]`, `stage[p]` | the `await` it is at; whether it is still purging or doing its own work |
| `base`, `goal`, `was` | `previousBlocks` and `nextBlocks` of the commit, `previous` of `applyBlockConfig` |
| `undoing[p]` | the `catch` of `commitBlockState`, which applies the old list again |
| `expired` | records whose `expiresAt` has passed: time is this set |
| `bypass` | `HYROVI_SEC_EMERGENCY_BYPASS`, fixed for the life of a container |

`Begin` reads the list and starts a purge if something in it has expired; `AddBlock`,
`RemoveBlock` and `NothingToDo` are the three ends of the decision that follows; `Apply`, `Reload`,
`Restore`, `ReloadAgain` are `applyBlockConfig` and its `catch`, with the early return when the file
already has the wanted text; `Persist` writes the list and, if it cannot, applies the old one.
`Crash` ends a process anywhere, while Nginx keeps running; `Start` is the s6 loop and `prepare`;
`RestartContainer` starts Nginx from the files. `ResponseList` is what a reader of `blocks.json` may
rely on: a list changed by whole operations applied to the list as it is. `created`, `lifting`,
`added`, `removed` and `calm` (no process has died so far) are history, read by the properties only. `Crashes` and `Restarts` say
whether a process may die alone and whether the container may be recreated.

### Autopilot and AutopilotLadder: the decision

`Autopilot` is `autopilotDecisionForEvent` with its thresholds as a function of the evidence.
`AutopilotLadder` lets one source repeat one request to one host and puts the answers on it (`Request`): a challenge starts only for a
request to a Proxy Host, and a block takes the place of the limit and the challenge (`security.js:1840-1850`, `:1982`, `:2053`). `LimitEnds`, `ChallengeEnds` and
`BlockEnds` are the expiry, the solution or the removal of what is in force, `BlockForgotten` a block that leaves the 24 hours
that `recentStartedBlockCount` looks back. `eased` is history: something ended since the latest answer that was not given in a grace.

### RequestRisk: what a request is worth

`BaseRisk` is what is seen in the request itself, `AutomationRisk` adds what its source did in the sixty seconds before it
(`baseSignals`, `enrichEvents`). The code counts that in one pass over the requests of a source in the order of their times: each is
added to four counters (`AddToWindow`), those that have left the window are taken out again (`RemoveFromWindow`), and what is
left is its context (`SetContext`). Signals and rules are what a request carries, not the patterns that find them.

### EventArchive: reading the log and archiving it

Events are numbers in the order Nginx logged them; `seclog` says where the rotated file and the log begin. `ReadCurrent` reads the log (`reader.from` to
`reader.upto`), and `Prime` or `Poll` the rotated file after it (`Window`), so that a rotation in between shows, and up to `ReadBurst` requests logged in between. The first run of a process archives its window and
only remembers it (`Primed`), every other one hands over what is new. `PersistDay`, `PersistFails` and `PersistEnds` are
`persistArchivedEvents`, a file a day, whose events are chosen once, when the entry comes to the head of the queue; `AskPurge` and `PurgeFiles` the retention; `Loaded` what a new process remembers. An append cut short
leaves half a line (`torn`), which spoils the next one.

### ThreatMonitor: from the log to responses

`Prime` and `Poll` are the two ways `monitorThreats` starts; `Begin` reads the lists, the policy
copy and the strike counters; each event is then one step (`RuleBlocks`, `RuleChallenges`,
`RuleLimits`, `SoftLimits`, `Strike`, `Pass`) that adds to `newBlocks`, `asked`, `newLimits` and
`work`; `CommitLimits`, `StartChallenges`, `CommitBlocks`, `ClearChallenges`, `WriteMarks` follow in
the order of the code, and each may fail in the way its caller handles. Beside it run the
administrator (`AdminBlock`, `AdminLimit`, `LiftBlock`, `AdminUnlimit`, and `LiftChallenge`, whose
clearing of the strikes is the two steps `ReadMarks` and `ClearMarks`), the sources (`EndChallenge`),
policy changes, purges, time and `Restart`. A commit is one step: `ResponseStore` is what shows that
a failing commit leaves no trace.

### Provisioning: jobs and agents

`jobs` are the files of `control_plane_provisioning.js` in the order they were created, `leased`
says whether `leaseUntil` lies ahead. A request is the three looks of `routes/control-plane.js`:
`CheckLocal` (database), `CheckNodes` (reported inventories), `EnqueueProxyHost` (active jobs), and the write of the job, `WriteJob`. The last two
are separate `await`s under the queue's lock: `QueueFree` is `withMutation`, and everything that reads or changes the queue waits for it. An agent (`deployment/node-agent/hyrovi-hpm-node-provisioning`) goes through
`Claim`, `create` or `act`, `Route`, `StartBeat`, `Report`. The script it runs with `docker exec` is
an actor of its own (`CheckHostname`, `InsertHost`, `ConfigureHost`), because it outlives an agent
that times out or dies. `posts` holds results that arrive after the agent stopped waiting.
`run` (job and attempt) is carried by hosts and scripts to tell attempts apart.

### ChallengeList and Challenge: browser challenges

`Challenge` models `security_challenge.js` and the library that solves challenges
(`clients/hyrovi-sec-challenge-node.mjs`). It has the shape of `ResponseStore`, with other details that
matter: every operation purges first, and brings the include up to date even if nothing has expired
(`Begin`); the catch of `applyGeo` reloads whatever happens and throws (`Restore`); a wrong proof is
counted by a write outside the commit (`CountAttempt`); `Throw` ends an operation and leaves the include
where it was. `Fetch`, `Submit`, `Retry` and `GiveUp` are the client, whose requests are chained like those
of the monitor, the administrator, and anybody who sends a wrong proof. `ReloadElsewhere` is every other
part of the backend that reloads the same Nginx, and so loads an include that is only half committed.
`ChallengeList` is the promise: at most one open challenge per address, a bounded number of wrong proofs, solved once, never
back. Client state holds what existed when it solved (`seen`), so that a *new* challenge is told from
the old one. Proof of work is a right or a wrong proof.

### HostConfig: hosts, certificates and access lists

Nothing serializes these requests, so each is a task in a slot that goes step by step: `Create` to
`Delete`, `Certify`, `ChangeList`, `ChangeGroups` and the timer `SyncProtection` start one; `Patch` and
`Read` are the database, `Ensure`, `Pretest`, `Clear`, `Generate`, `TestHost`, `MarkOnline`, `MarkOffline`,
`SetAside` are `configure` and its helpers in `nginx.js`; `TakeDown`, `Certbot`, `GiveBack` are
`certificate.js`; `Rewrite` is `access-list.js`. `Reload` is `nginx -t` and `nginx -s reload`, which only signals the master (`signalled`);
`MasterReads` is the master loading the files as they are by then, or, if they have become bad, staying with what it has (`refused`). `Catch` says where each kind of request lands
when a step fails, and `RemovalFails` is what does not count as failing: removals of files that log an error, or swallow it, and go on (`LeavesBehind`).
`Patch` is what each type writes back of a row, and for proxy hosts, whose schema allows it, the switch `enabled`. A row is abstracted to its life, its switch, whether Nginx accepts what it says
(`good`) and the online mark; a file to what it was rendered from, with or without the access list (`guarded`).
`TestPasses` is `nginx -t`: every file served is good and its includes are there. `settled` and `met` are
history: which hosts the last request of which has ended well and met no other, nor left a file it should have removed.

### Certificates: from request to deletion

A certificate is in three places: `row` (whose `expires_on` the timer goes by), `file` (certbot's), `served` (what the running Nginx has
loaded). Ages are abstracted to more than thirty days (`fresh`) and fewer (`due`). `Requested` starts a request in a slot: `Insert` a creation, `AskRenewal`, `Delete`;
`ProcessExpiring` is the hourly timer and `RenewNext` the sequence it builds. Each goes through `ReloadBefore`, `Get`,
`StartCertbot`, `CertbotEnds` or `CertbotFails`, `ReloadAfter`, `Patch`; a creation that fails through `Undo`. `certbot` is the one that
runs: another is refused. `Wedged` is a host whose certificate is gone, which fails every `nginx -t`. `OrphanEnds` is a certbot that outlived its backend.
What becomes of the hosts meanwhile is in `HostConfig`.

### HostPolicies: groups, access, policies

`op` is the one change of groups or access under way: `WriteGeo`, `WriteAcls`, `Reload`, `WriteState`, and back through
the first three with `undo` when a step fails (`FailOp`). `ensure` is `ensureHostAclFile`, which reads (`EnsureRead`) and
writes (`EnsureWrite`) outside the queue. `job` holds the policy changes, which no lock separates, and the timer:
`BeginPolicy` reads, `WritePolicy` writes, `Look` lists the hosts, `WriteProtection` takes them one by one,
`SyncDone` reloads if a file has changed, and a failing sync (`SyncFails`) leaves the files it wrote. A policy is abstracted to enforcement and the mode of each
host, a group to its members, its access mode and whether its own policy is laxer. `crossed` is history: an ACL
written from what was read before a change, or a change that could not be undone. So is `unloaded`: something failed, or the backend
restarted, with files on disk that Nginx had not loaded, and nobody has reloaded since. `ReloadElsewhere` is every other reload of the same Nginx.

### NodeTelemetry and SignedEvents: what other machines report

`NodeTelemetry` is the node's log with rotation, the agent (`Start`, `ReadBatch`, `Post`, `Save`), requests on their way
and in the controller's queue (`Accept`, `Refuse`, `Ingest`, `Lose`), and the registration of the node with the token its agent
was given. Lines are numbers; those of `Long` exceed a batch, those of `Bad` are no events. `GiveUp` is the
20-second timeout, or a killed agent: the request it sent may still arrive.
`SignedEvents` is one device id: the registry and the counter are two files (`RegisterDevice` or `RevokeDevice`, then
`ForgetCounter`, or `LeaveHalf`), and requests, once signed, may be verified at any time and any number of times.

`MCReports`, `MCRequests` (`EventArchive`, `RequestRisk`, `AutopilotLadder`) and `MCStoreAndCertificates` each run small instances that share nothing in
one run, one of them at a time: a behaviour chooses at its start which one moves. Fairness is asked of that one; the
others rest where they have nothing to do.

## 4. The runs

Every run completes: the state spaces below are exhausted.

| Run | Question | Answer |
|---|---|---|
| `store_faults` | With two failing steps per operation, crashes and container restarts anywhere, is an acknowledged block ever lost (`AcknowledgedIsDurable`) or unenforced (`EnforcedUntilLifted`), is a record ever listed before Nginx enforces it (`EnforcedBeforeDurable`), is every write one whole operation (`ImplementsList`), does the chain serve all (`ChainServes`), does an expired block leave Nginx (`ExpiryIsEnforced`)? | Never lost, never unenforced, never early; implements `ResponseList`; an expired block leaves unless a process died or the undoing of a failure failed |
| `store_and_certificates` | What is left when one of several steps fails? Of a list operation, with the container recreated into and out of the bypass at any moment: do list, include and Nginx agree between operations (`RollbackIsTransactional`), is a target listed once (`OneRecordPerTarget`), does nothing bite under the bypass (`BypassSuspends`)? Of certificates: is no row ahead of its files (`RowNotAheadOfFile`), does what can be renewed come to be served renewed (`RenewedInTheEnd`), do DNS credentials go (`CredentialsGoInTheEnd`)? | Yes to all, with the exceptions the properties name |
| `requests` | Is each logged request archived once (`ArchivedOnce`), handed over once (`HandedOnce`), and does it reach the archive (`ReachesArchive`)? Are the counters of its source exact (`ContextIsExact`)? For every profile, even risk, number of strong signals and of earlier blocks, while limits, challenges and blocks start and end: does the answer to one request only grow stronger while nothing ends (`NeverSteppedDown`), is the grace honoured (`GraceHonoured`), is an attack on a Proxy Host challenged or blocked again and again (`AttackIsStopped`)? | Yes, but for events that a failed or half-done write, a compaction or a purge takes |
| `monitor_faults` | With failing commits, restarts, a policy switched off and on: is a request answered once at most, is a challenge given its grace, does every request get its turn? | Yes |
| `monitor_escalation` | Does a soft rule escalate only on strikes earned during the limit in force? | Yes |
| `monitor_supersede` | When a run that blocks ends, is anything weaker that was in force at its start left beside the block, a range limit included? | No |
| `provisioning` | With an orphaned script, a second attempt, a lost or late result: does a completed job have its host, is a result final, has a domain one active job though two requests for it overlap, and does every job end? | Yes |
| `challenge` | With two failing steps, crashes and restarts into and out of the bypass: is a client that solved its challenge let through (`SolvedIsLetThrough`), is every write one promised change (`ImplementsPromise`), does every address leave Nginx again (`EventuallyReleased`)? | Yes, but for a new challenge, or when the solved one has expired |
| `hosts` | With two requests of any kind at a time, two failing steps, failing removals or crashes, and a master that reads late: do the file and Nginx serve a settled host exactly when its row says so (`SettledIsHonest`), do hosts come back from a certificate request (`GivesBack`)? | Yes, unless another request worked on the same host, a removal failed, or an update disabled it; Nginx itself only once the master has read files that are all good |
| `hosts_wedge` | When no request runs, does `nginx -t` pass (`NothingBrokenStays`)? | **No**, see the finding |
| `policies` | With two changes and two faults in groups, access, policies and the timer: one group per host, ACL files that follow what is stored (`AclFollowsState`), and does Nginx come to enforce it by their own reloads (`EnforcedInTheEnd`)? | Yes, unless `ensureHostAclFile` crossed a change, a roll-back failed too, or a failure or a restart left files that were not loaded: nobody tries that reload again |
| `reports` | Is a signed event accepted once through delays, repeats, resets and half-done writes (`AcceptedOnce`)? Is no log line passed over silently or stored more often than its upload was in doubt (`DeliveredOrInDoubt`), and does it arrive (`LinesArrive`)? | Yes, with the exceptions the properties name |

### Bounds, and why they are enough

* **Store.** Two records (for two addresses, or for one), a chain of two: an operation and the one
  that finds what it left. A commit has several steps that can fail, on the way and in the
  undoing; two faults reach "the reload fails and so does the undoing", one is the case for which
  the rollback is promised. Crashes and recreated containers are not bounded: `store_faults` has both with the bypass off, `store_and_certificates` recreates
  the container into and out of the bypass. Both runs have one process; that a second one writes the same files is not run. The theorems of section 6 have no bounds.
* **Certificates.** Two, since the timer's train needs one behind another: one whose renewal fails for ever and is first in it, one with DNS credentials
  that can be renewed. Two requests, both at a time, beside the timer, so that three want certbot; one failing step or restart.
* **Archive.** Six requests on three days, windows of two, memories of five and four (the least the assumption allows: two windows, and for what was handed over also what is
  logged while a run reads, which is one here), files of two lines, one rotation,
  one fault, a retention of one day: files are compacted and purged, memories forget, a restart meets a half-done write.
* **Request risk.** Every list of four requests of three kinds on two paths in four instants, with a window of one: requests leave one by one
  and several at once. `ContextsExact` has no bounds.
* **Autopilot.** Every even risk from 0 to 100, 0 to 4 strong signals: all thresholds and all increments are even, so an odd risk is answered as the even one
  below it. The code caps what strong signals and earlier blocks contribute at 8 and 12, that is at 4 and 3, and `repeats` counts no further. Responses end without bound. The theorems
  are about every natural number.
* **Monitor.** Two to four requests, two sources and a range around them, a clock of one to three
  with a grace and a cooldown of one and a window and strike count of two, and two waiting
  runs at most: a strike in the window, one out of it and one within the cooldown all happen, and a
  restart between any two steps leaves a request to be read twice. `TimeBound` and `RunBound` are
  guards of `Tick` and `Poll`.
* **Provisioning.** Two nodes (local and remote are different code), one domain (jobs interfere only
  through a domain), two requests, two jobs (the second in line behind the first, or conflicting
  with it), one fault: a dying agent gives an orphaned script and a second attempt, a late result
  a second attempt that races with it. Lease expiry is not a fault and not bounded. Two
  administrators ask for the domain at once, so that both pass the first two looks and meet under the queue's lock.
* **Challenge.** Two challenge names for one address or two, one client, one wrong proof allowed, one operation
  waiting behind the one that runs, two faults: a failing step whose undoing fails, a crash between two steps and a restart after
  it. Reloads by others are not bounded.
* **Hosts.** A proxy host with an access list and a redirection host, which differ in includes and in what an update does; two
  slots, since a request meets one other at a time; two requests beside the timer, which start from every state that earlier ones leave a host in (absent, served, found bad, disabled,
  `Configured`); two faults, so that what undoes a failure may fail too. `hosts_wedge` has one slot and three requests.
* **Policies.** One host, two groups it can be moved between, two administrators and the timer, two changes, two faults: the second is
  one that strikes the roll-back of the first. Two hosts, or three changes, exceed what the run may take; hosts meet only
  through `TestPasses` and the moves between groups, and `HostsInOneGroup` and `AclsFollowState` are proved for any number.
* **Reports.** Four lines, of which one is no event and one too long, batches of two, two batches per run, one rotation, two
  changes of the registration, two doubts: a batch given up, repeated, and arriving late behind its repetition. Two keys and two
  signed requests, clocks ahead by up to the tolerance, three instants, one half-done write.

`CHECK_DEADLOCK FALSE` stands where a finite clock, log, ladder or number of requests lets a model stop when all has
been said: the monitor's configurations, `Requests`, `HostConfig`, `HostConfig_wedge` and `Reports`.

### Fairness, and why the code justifies it

* `ResponseStore`: weak fairness of each process's steps and of its start, since an `await` returns
  and s6 restarts the service. Strong fairness of a *successful* write, reload and persist and of the
  purge request: the timer repeats every minute, and a disk or Nginx that always fails is excluded.
  Requests, expiry, crashes and restarts are not fair. `ChainServes` needs the weak part only, `ExpiryIsEnforced` the rest, and it speaks of runs in which no process dies and
  no undoing fails.
* `ThreatMonitor`: weak fairness of `Prime` and `Poll` (a five-second interval) and of the running
  operation. Nothing else: commits may fail for ever, administrators may never come.
* `Provisioning`: weak fairness of the write under the queue's lock, of the agents' steps (a systemd timer and commands with timeouts), of
  scripts, heartbeats and lease expiry. Faults are bounded, which is the assumption that losses and
  crashes stop; a node that is disabled for ever keeps its jobs, and that is outside the property.
* `Challenge`: weak fairness of the running operation, of the start of the backend, of each expiry, and of a reload by
  others (the IP ranges timer at the latest); strong fairness of the purge request, a timer that repeats every minute and may find
  the chain full. Faults are bounded. Requests and clients are not fair.
* `HostPolicies`: weak fairness of the steps of the change and of each job, and of the timer. None of a reload by others: what a failed reload leaves unloaded
  may stay so, and `EnforcedInTheEnd` excepts it.
* `NodeTelemetry`: weak fairness of the agent (its systemd timer) and of the controller. `HostConfig` states safety only.
* `EventArchive`: weak fairness of the archive's queue. `AutopilotLadder`: the source repeats its request and time passes; and, by strong
  fairness, it is not for ever so slow that its rate limit is over before it comes again. A source that is stays under the soft restriction: the limit
  lasts `autoRateLimitMinutes` and is not renewed.
* `Certificates`: weak fairness of the timer with its steps, of requests' steps, of time, and of a reload by others. The timer's interval and commands that end
  justify the first two, the IP ranges timer the last: it is needed, since a renewal never reloads Nginx. That commands end is an assumption: `execFile` is called
  without a timeout (`lib/utils.js:38`), and a certbot that hangs keeps `intervalProcessing` set until the backend restarts.

### The finding

`hosts_wedge`: `nginx.js:18-22` describes configuring a host as "test again - IF OK: update the meta with online status - IF BAD:
update the meta with offline status and remove the config entirely - then reload nginx". Only `configure` does so. A change of an
access list (`access-list.js:222`, `:352`) and the return of hosts after a certificate request (`certificate.js:1155`) render the files of all their
hosts and reload without that test, the hosts included whose bad file `configure` had removed. The bad file is back, every later `nginx -t` fails,
and since `configure` tests first (`nginx.js:33`), nothing can be configured or reloaded until that host is deleted or
disabled.

### Differences met while reading

These are in the models, or were met on the way, without a run of their own.

Responses:

* `prepare` promises to "reconcile the generated deny include on every backend start" (`security.js:3165`, `HYROVI_SEC.md:160`). A crash after the
  include is written and before the reload leaves file and wish equal, so `applyBlockConfig` returns before the reload (line 1240) and
  Nginx stays on the old set until the next change. `prepare` of groups and policies differs in the same way.
* The same early return meets a purge whose reload fails and whose restoring write fails after it (`security.js:1245`-1247): the include has the wanted text already, the next
  purge finds nothing to do, writes the list, and Nginx keeps the expired block until something else reloads it. `ExpiryIsEnforced` excepts both.
* Reconciling fails or succeeds as a whole, and only what is listed is looked at: when a process dies between the reload and the write of the list, and the reconciliation after it fails,
  Nginx goes on enforcing a record that is not listed.
* The ladder (`HYROVI_SEC.md:39`, `:45`) may step down: when a limit expires while the challenge is in force, the same request is answered by less. Balanced, risk 50, a challenge out of its grace: 66 with and without
  the limit, which is answered by a challenge only while the source is limited; without the limit 66 is below the 72 of a challenge, and the source is limited again. `NeverSteppedDown` speaks of the time between such ends.
* A "challenge" for a request to anything but a Proxy Host starts nothing (`security.js:1841`): the source stays limited, however long it goes on, unless it scores for a block. `AttackIsStopped` speaks
  of Proxy Hosts.
* "Response escalation is single-state" (`HYROVI_SEC.md:47`), but challenges to remove are listed when a run begins (`security.js:2040`-2053): a
  challenge started by the batch that also blocks remains. For the same reason the 30-second grace (`HYROVI_SEC.md:45`, `:162`) does not hold within one
  batch; `ChallengeHasGrace` speaks of challenges the run knew of.
* "Transactional rollback" (`HYROVI_SEC.md:60`) is per list: the limit is lifted by an earlier commit than the block that supersedes it (`security.js:1990`).
* "Undo also clears the associated escalation state" (`HYROVI_SEC.md:46`), outside the lock (`security.js:3917`): a run under way writes its older copy back.
* Trusted sources (`HYROVI_SEC.md:55`) reach a run only from the poll after they were saved: the policy is
  read before the run waits in the chain (`security.js:1721`).
* The branch for hard-blocked crawlers (`security.js:1869`-1884) stands behind guards that take every event
  it is for; crawlers are answered by their rule, unlike `HYROVI_SEC.md:39` and `:162` say.
* Block jobs run in a second process with a chain of its own on the same files
  (`hyrovi-hpm-node-provisioning:258`). With two writers an update may be lost; the guarantees of the
  store are stated, and proved, for one.
* Blocking one address removes a rate limit on a whole range that contains it (`security.js:1983`).

Challenges:

* A crash between the geo include and the reload of a purge leaves Nginx on the old include, and a client that solved a challenge which expired
  meanwhile may meet it again; `SolvedIsLetThrough` excepts expired ones.

Groups, access and policies:

* The generated `geo hsg_... {` and `if (hsg_... = 0)` lack the `$` of a variable (`security_host_groups.js:153`-190). Nginx would refuse them, and every
  list group would be rolled back; the model takes them for valid, as they are meant.
* `ensureHostAclFile` may leave an older ACL in place until the next change (`HYROVI_SEC.md:58`), and a roll-back whose own write fails leaves the new ACLs.
* A failing policy change writes back the policy it read, over whatever another administrator has stored since; of two changes
  begun together one is lost.
* A protection file is written before the reload; when that fails, the next sync finds nothing to do. Then the policy that is stored is not enforced until a change, or the
  IP ranges timer, reloads; the timer does so only after three downloads have succeeded (`ip_ranges.js:110`-121).
* A group that lists a host deleted meanwhile is refused by every later update of it.

Hosts, certificates, access lists:

* A certificate request for an owner without an e-mail address throws after the hosts were taken down and before the `try` that gives them back.
* The successful path writes the hosts' files after certbot and never reloads; the files lack access list and SSL, because
  `getHostsWithDomains` reads rows without relations. `enable` reads the access list without its users and addresses.
* A crash while certbot runs leaves the hosts' files deleted, and nothing at the next start writes them.
* `update` writes the whole row back, so a concurrent disable is undone; streams do not. Redirection hosts and streams are configured
  on update though disabled. An update racing a delete or a disable leaves a file for a host that should have none.
* `PUT` of a proxy host may carry `"enabled": false` (`schema/paths/nginx/proxy-hosts/hostID/put.json:80`-82). The row is patched and the request acknowledged, but `update` leaves a
  disabled host's file alone (`proxy-host.js:249`): Nginx goes on serving it, and `disable` then answers that the host is disabled already.
* Removals swallow their errors (`nginx.js:346`, `:408`-424): a host whose file cannot be removed is disabled or deleted to its administrator, and served by Nginx.
* `nginx -s reload` returns before the master has read the files. A file that another request makes bad in between is turned down by the master, and Nginx stays on what it had
  although the request that reloaded was acknowledged. The other modules take test, signal and reading as one step.
* Two updates of one host share the file: one may set aside the other's good one and leave it marked online. `enable` with a failing
  first test leaves an old online mark.
* `writeRuntimeFiles` removes the ACL of a host created after its listing; `nginx -t` then fails until `ensureHostAclFile` runs again.

* A renewal does not reload Nginx (`certificate.js:907`-937); the new files are served only after something else reloads it.
* Deleting a certificate that hosts use removes its files and leaves their configuration: every later `nginx -t` fails (`Wedged`), for all hosts, until
  those hosts are changed by hand.
* Deleting a certificate while any certbot runs leaves it unrevoked: the revocation is refused, the error is swallowed (`certificate.js:1106`), and nothing tries again.
* "The exposure window should be one certbot run" (`certificate.js:1008`): a crash leaves the credentials until the next renewal, for ever if the certificate is deleted and its
  revocation fails. A refused certbot removes the credentials a running one for the same certificate reads.
* "this command really should clean up and delete the cert if it can't fully succeed" (`certificate.js:125`): a crash between row and certbot leaves a row without files, which
  the timer tries to renew every hour for ever.

Log, archive and rules:

* A rotation between the two reads of a poll (`security.js:323`-327) puts the same lines in the window twice; the request is handed over once and counted twice against its source.
* An append cut short leaves half a line; the next append continues it, and the reader discards both, so that one event of a successful write is lost.
* Rules reach "active" without the gate that `HYROVI_SEC_RULES.md:196`-203 describes: by way of "paused", by disabling the gate in the same update, and by import
  (`security_detection_rules.js:286`-293, `:334`-378). Promotion reads the rule and its reviews before it queues (`security.js:3400`-3437).

Control plane:

* A domain whose job ends between two looks of a request is in no place the request still looks at, and
  can be provisioned on a second node (`routes/control-plane.js:160`-194).
* A failed job may leave its host: after an error inside `proxy-host.js` create, a failing `nginx -t`, a
  heartbeat of over 25 seconds, or when a lost result makes a second attempt find the host of the first.
* A log line over 32 KiB stops the upload of its file, and rotation loses what was not read
  (`deployment/node-agent/README.md` says the upload survives rotation). A batch over the size limit of a request is repeated for ever.
* A batch whose answer was lost is stored twice; readers do not deduplicate it (`security.js:748`-765). A batch in the queue is stored even if its node
  is deleted before its turn.
* A signed event accepted with a clock ahead of a reset is accepted again after it (`HYROVI_SEC_APP_EVENTS.md:56`); a key revoked, replaced and
  registered again makes its old signatures valid for the time they last.

Elsewhere:

* `index.js:27` waits for the first download of IP ranges without a time limit, and a hanging connection leaves `interval_processing` set (`ip_ranges.js:59`).

### Mutants

Each property of a passing run has a mutant: a definition that models code and a faulty variant of
it, defined just before it and commented "Faulty variant", under which the run finds the property
violated. They show that each property depends on the code it is about.

## 5. Hazards

`PROJECT.json` ("hazards") lists, at its line, what in this code is hard to test, with the properties that
watch it, or the reason why nothing does.

## 6. What is proved

TLAPS checks the following for every value of the constants, that is for any number of records, addresses, sources, queued operations, faults, nodes, domains,
requests, jobs, hosts and logged lines: every safety property and every action property that a run finds to hold, both refinements
among them. None of the properties is inductive as it stands; what follows says which invariant carries each, and why it is needed.

**StoreAndCertificatesProofs**, about `ResponseStore` and `Certificates`.

* `TypeCorrect`: `TypeOK`, and that a process that runs an operation has one at the head of its chain
  (`BusyInv`), for any number of processes sharing the files.
* `Bypassed`: `BypassSuspends`, for any number of processes and across restarts into and out of the bypass.
* Under `Alone` (one process, no bypass): `Enforced`, `Durable`, `EnforcedFirst`, `OneRecord` and `Refinement`, the
  step simulation of `ResponseList`. `IInv` adds: everything stored is a record
  somebody made (`RecordsInv`); acknowledged records that are neither expired nor being removed are
  in list, include and Nginx, which is stronger than what the properties ask (`OwedInv`); the undoing
  flag is down between commits (`UndoInv`); the list read is the one on disk, and the list to
  commit differs from it by the running operation alone (`CommitInv`); and how far the include and
  Nginx have come at each step (`ProgressInv`). The last two are why a crash at any step is harmless:
  every include ever written contains what is owed. `Alone` is needed: with two processes `CommitInv` fails,
  since the list on disk changes under a commit.
* Under `Gentle` (one process, at most one failing step in an operation, with or without the bypass): `Transactional`, as long as the process has not died (`calm`). `RollbackInv` says for
  each step of a commit and of its undoing whether a fault has happened already and which list the include and Nginx show: before the fault the old or the new one by turns, after it
  the old one or about to. Records that expire meanwhile may be in a text or not, so that texts are compared but for them (`Shows`). Both hypotheses are those of the
  property: a second fault strikes the undoing, and a crash leaves the next start with nothing to do (section 4).
* `RowsNotAhead`: `RowNotAheadOfFile`, for any number of certificates, requests, failing steps and restarts. Files are removed by a revocation, which may end long
  after it was started, even after the backend that started it. The invariant says that every deletion under way, of a request or of a certbot left behind, is of a
  certificate whose row is deleted already (`Deleting`),
  and a deleted row is never brought back, whatever a renewal that overlaps patches (`PatchHolds`).

**RequestsProofs**, about `Autopilot`, `AutopilotLadder`, `RequestRisk` and `EventArchive`.

* `DecisionMonotone`, `ProfilesOrdered`: more evidence, or a more eager profile, never gives a weaker answer.
* `LadderOnlyClimbs`, `LadderHonoursGrace`: over repetitions, for all risks and counts, while responses start and end. `IInv` says
  that what the source is due (`Due`) is no weaker than what it was answered last, unless something ended; that an answer only adds to the
  evidence and `DecisionMonotone` keep it. Answers given in a grace are a case apart: they say nothing of the score.
* `ContextsExact`: `ContextIsExact`, for any list of requests and any window. The invariant says that the window is an interval that
  holds every request still inside it, and that each counter is the cardinality of what it counts in that interval (`CountersRight`); adding a request at one end and
  taking one out at the other is `OneMore` and `OneLess`.
* `BusierIsNoBetter`, `BusierIsNotAnsweredMilder`: a source that did more never scores less, nor is answered more mildly.
* `EventsArchivedOnce`, `EventsHandedOnce`: `ArchivedOnce` and `HandedOnce`, for any log, rotations, failed and half writes, compactions, purges and restarts. `ArchiveIInv`
  says that whatever was archived, asked for or handed over is remembered, is in no file any more, or is older than every window to come
  (`MemoryInv`, with `Top` the newest line a run has read), that it was read (`KnownInv`), that an entry of the queue asks for what no other does, and for
  nothing much older than what went before (`Queued`), and that what it asks for is archived only if the archive's memory says so (`Fresh`). Memories lose the oldest entry, not the oldest
  event. That this is harmless is the heart of the proof: a memory and each file are nearly sorted, out of order by less than a window and what is logged while a run reads (`Memorable`, `NearlySorted`), so that
  few entries stand behind one that is within a window of the newest event, and the assumption on `SeenLimit` and `ArchivedLimit` keeps it. After a restart (`WaitingInv`) `Loaded`
  fills the archive's memory from files that are nearly sorted, and `NewestFirst` shows that it keeps all that the first run will read again.

**ThreatMonitorProofs.**

* `RequestsAnsweredOnce`: `AnsweredOnce`. A request without an answer is undecided in exactly one place: unread, in a batch that waits, or in the rest of the batch
  that runs (`QueueInv`); what a run has decided is in one of its three lists and is committed from there once, or falls from challenges to blocks (`DecidedInv`); an answered request is
  remembered, or will be when the monitor primes (`AnswersInv`). The last is why a restart, which forgets what was seen, answers nothing again.
* `ChallengesHaveGrace`: `ChallengeHasGrace`. `GraceInv` says that a source has one challenge in force, one known to the run and one asked for at most, and not the last two
  together; so the challenge whose age a decision looked at is the one in question, even for the blocks that stand in when challenges cannot be started.
* `BlocksSupersede`: `BlockSupersedes`, if commits succeed (`~Failures`, as in the run): challenges that cannot be started become blocks after the limits are committed, and a failing removal of challenges is only logged. `SupersedeInv` says
  after which commit which of the weaker responses is gone, for a range around the address too, and that nobody brings it back before the run ends.
* `EscalationsAreEarned`: `EscalationEarned`. Strikes are counted in three copies: the file, that of the run, and what an administrator's undo has read. `EarnedInv` gives each a set of witnesses, the
  requests that earned it: as many as it counts, of the same source during the same limit, a cooldown apart, inside one window. A stale copy that is written back still has its witnesses, since history only grows.

**ProvisioningProofs.**

* `TypesKept`: the type invariant. It needs two facts more: an agent that is not idle works on a job of the
  queue (`WorksOnAJob`), and scripts belong to jobs with a domain (`ScriptsCreate`).
* `ResultsFinal` and `OneActive`: every step either rewrites one active job, keeping its node and domain
  (`Rewritten`), or appends one whose domain has no active job (`Grown`); `QueueStep` proves this once and
  both theorems follow. What a request saw in the queue still holds when it writes its job, since nobody else gets the lock in between (`QueueHeld`).
* `Completed`: a completed job has its host. The invariant follows one attempt (job and count)
  through script, agent, report and record. Attempts are told apart because each claim counts
  (`KeptStays` needs that a later attempt is a different one); an attempt has one script, which configures
  a host that is there; an agent routes only a host whose script has ended, and once it is past the
  route nobody is left who would delete the host (`Kept`, `AgentOK`); what is posted and recorded as
  a success is of such an attempt.

**ChallengeProofs.**

* `ChallengesKeepThePromise`: the step simulation of `ChallengeList`, with any number of failing steps, crashes and reloads by others. `ListInv` says that open challenges are distinct,
  were made and are not solved; `PhaseInv` that the list an operation goes by is the one on disk, and what its commit may change of it.
* `SolvedAreLetThrough`: `SolvedIsLetThrough`. A solved challenge must not come back from any of the places that still hold its address: the include, Nginx, the text an undoing would restore, the
  list on disk and the two of the running operation (`Places`, `SolvedInv`). `IncludeInv` is why an accepted proof has cleared them: the include names every open challenge when an
  operation comes to its own work, so that the work of a proof changes the text and has to reload Nginx before the list is written. `ClientInv` ties a waiting client to its one request.

**HostConfigProofs.**

* `HostTypes`, `SettledHostsAreHonest`, `HostsAreGivenBack`: `TypeOK`, `SettledIsHonest` and `GivesBack`, for any hosts of any type, any number of
  slots, requests, failing steps and restarts. `HostInv` says which steps a request of each kind can be at (`TaskOK`), that two requests holding one host have met there (`Apart`),
  that a settled host is held by none, and its file says what its row does, as does Nginx unless the master has yet to read or turned the files down (`Settled`, `NginxHonest`), and, for each request and each host it met nobody at, how far it has come
  (`Progress`). `Progress` is where the order of the handlers' steps enters: the row is patched before the file is written, the online mark follows the test, and the last reload follows both.
  Any other request may signal, and the master read, at any time: what it loads of a settled host is what the row says already. `HostConfig` assumes that `None` is not the content of a file.

**HostPoliciesProofs.**

* `PolicyTypesKept`: the type invariant, with the types of the running changes (`Types`).
* `HostsInOneGroup`: stored groups, and the groups of the change under way, are disjoint (`Separate`); the point is
  `PutGroup`, which takes the hosts it names out of every other group in the same write.
* `AclsFollowState`: the invariant `Agree` says that a change rolls back to what is stored, is stored only if it is not
  being rolled back, and that from its reload on the ACL files say what is about to be stored, or what is rolled back to. `crossed` is
  exactly what breaks it.

**ReportsProofs**, about `SignedEvents` and `NodeTelemetry`.

* `DevicesTypesKept`: the type invariant of `SignedEvents`.
* `EventsAcceptedOnce`: `AcceptedOnce`, for any number of keys, requests, resets and half-done writes. The invariant says that
  what was accepted under the present key, neither ahead of a reset nor under a revived key, is behind the counter or before the reset
  (`CounterAhead`), that accepted requests have registered keys (`KeysKnown`), and that a key just registered, whose counter is not yet forgotten or was
  left by a crash, has no such request (`FreshKey`).
* `LinesDelivered`: `DeliveredOrInDoubt`, for any log, rotations, batches and registrations. The invariant has four parts:
  the cursor and the running agent are at places the log has reached (`Places`); a line behind them is stored, known to be
  lost, or in the batch in hand (`Accounted`); tries in flight are distinct and older than the doubts counted (`Tries`); and the
  copies stored, plus those still in flight, are bounded by the doubts (`Counted`). `ReadIsPrefix` shows that a batch is an
  interval that starts where the cursor is, which is what makes advancing by its size right.

The type invariants of `ResponseStore`, `Provisioning`, `HostPolicies` and `SignedEvents` are proved here and are in no run; that of `HostConfig` is in both. Those of the other modules are
parts of the invariants above. Each theorem is preceded by what it says of the code. The assumptions on constants are the `ASSUME`s of
the modules, which TLC evaluates in every run.

**Only model-checked.** Liveness (`ChainServes`, `ExpiryIsEnforced`, `AttackIsStopped`,
`EventsGetTheirTurn`, `JobsEnd`, `EventuallyReleased`, `EnforcedInTheEnd`, `LinesArrive`, `ReachesArchive`, `RenewedInTheEnd`,
`CredentialsGoInTheEnd`): the prover handles neither fairness nor ENABLED.

The library's induction theorems take an operator, which the installed provers cannot instantiate. Where a proof goes by the length of a sequence (`Remember`, `Loaded`, `Batch`,
folds), induction is stated once for a set of numbers and proved from the well-foundedness of their order (`SetInduction`), and a recursive function is unfolded by lemmas that
derive its equations. No module declares a RECURSIVE operator.

## 7. What is not modelled, and why

Most of the repository's lines hold no state machine: the frontend (half of the implementation) renders what the API
returns; schemas, migrations, models, routes, translations and validation are declarations; users, tokens, settings and
audit log are single-row changes inherited from upstream; analytics and dashboards are read-only views. Their correctness is a
matter of data and wording, which a model would only repeat. The map therefore covers a small share of all lines, and most of the lines that
change shared state.

Left out though they hold state: alerts, a list with deduplication changed by single writes, and detection rules, whose queue has the shape of the others. IP ranges
appear as the reload they cause.

Within modelled components: endpoint rules, the cap of 2000 responses and the window of 2000 log lines (far outside
what can be enumerated); what domain-route and block jobs do on a node, disabled nodes there, and hosts an administrator creates or deletes by hand while
a job runs; a certificate requested inside the creation of a host, uploaded certificates, and rows issued before credentials were stored; the uniqueness of domain names, which is checked and then
inserted without a lock (`host.js:115`; the same race is in `Provisioning`); the text of lists, templates and geo blocks; the analytics log, which is
uploaded like the security log; the archive read back for views; which apps a device may report for, and what becomes of an accepted event.
