----------------------------- MODULE HostConfig -----------------------------
(***************************************************************************)
(* How hosts reach Nginx: the handlers of proxy-host.js (the other types   *)
(* follow the same path without the includes, and differ in what an update *)
(* does), nginx.js, the shutdown of hosts while certificate.js requests    *)
(* a certificate, the rewrite after access-list.js changes a list, and the *)
(* per-host includes that security_host_groups.js and security.js keep.    *)
(*                                                                         *)
(* Nothing serializes these requests: they share one directory of host     *)
(* files and one `nginx -t` that passes only when every file is good.      *)
(***************************************************************************)
EXTENDS Naturals, FiniteSets

CONSTANTS
  Host,
  TypeOf,        \* what each host is
  Listed,        \* the hosts that have an access list
  Slot,          \* bound: requests running at the same time
  None,          \* no file, not served
  RequestBound,  \* bound: requests made
  FaultBound     \* bound: failing steps and crashes

File == [up : BOOLEAN, good : BOOLEAN, guarded : BOOLEAN]

ASSUME HostAssumption ==
  /\ None \notin File
  /\ TypeOf \in [Host -> {"proxy", "redirection", "dead", "stream"}]
  /\ Listed \subseteq Host
  /\ RequestBound \in Nat /\ FaultBound \in Nat

VARIABLES
  row,       \* the host's row: state, enabled, good (what it says is valid Nginx), online (meta)
  file,      \* /data/nginx/<type>/<id>.conf: what it was rendered from
  acl, prot, \* the hosts that have host-acl/<id>.conf, host-protection/<id>.conf
  nginx,     \* the host files the running Nginx has loaded
  signalled, \* the master has been told to read the files again and has not yet done so
  refused,   \* the last time it did, it found a file bad and stayed with what it had
  task,      \* the running requests
  requests, faults,
  settled    \* history: hosts whose last request configured them and met no other

disk == <<file, acl, prot>>
server == <<nginx, signalled, refused>>
vars == <<row, disk, server, task, requests, faults, settled>>

\* The hosts whose file includes host-acl and host-protection.
Proxied == {h \in Host : TypeOf[h] = "proxy"}
Live == {h \in Host : row[h].state = "live"}
Absent == [state |-> "absent", enabled |-> TRUE, good |-> TRUE, online |-> FALSE]

\* A task: its step, the rows it holds, the proxy hosts it has listed, whether it is
\* in its catch, and the hosts it cannot vouch for: some other task worked on them
\* meanwhile, or their file could not be removed.
Rows(held) == [h \in held |-> row[h]]
Just(host, r) == [h \in {host} |-> r]
Idle == [step |-> "idle", kind |-> "none", rows |-> <<>>, listing |-> {}, undo |-> FALSE, met |-> {}]
Holds(t) == DOMAIN t.rows
Only(t) == CHOOSE h \in Holds(t) : TRUE

-----------------------------------------------------------------------------
(* Nginx. *)

\* The templates: a disabled host renders to nothing; without the relation the
\* access list is left out.
Render(r, h, related) == [up |-> r.enabled, good |-> r.good, guarded |-> related /\ h \in Listed]
Serves(f) == f # None /\ f.up

TestPasses ==
  \A h \in Host : Serves(file[h]) => file[h].good /\ (h \in Proxied => h \in acl \cap prot)

Loaded == [h \in Host |-> IF Serves(file[h]) THEN file[h] ELSE None]

\* Some hosts have been configured before, well or badly, and some of them disabled since.
Configured == {[state |-> "live", enabled |-> enabled, good |-> good, online |-> good] :
                 enabled \in BOOLEAN, good \in BOOLEAN}

Init ==
  /\ row \in [Host -> Configured \cup {Absent}]
  /\ file = [h \in Host |-> IF h \in Live /\ row[h].enabled /\ row[h].online
                            THEN Render(row[h], h, TRUE) ELSE None]
  /\ acl = Live \cap Proxied /\ prot = Live \cap Proxied
  /\ nginx = file /\ settled = Live
  /\ signalled = FALSE /\ refused = FALSE
  /\ task = [s \in Slot |-> Idle]
  /\ requests = 0 /\ faults = 0

-----------------------------------------------------------------------------
(* Running requests. *)

Step(s, next) == task' = [task EXCEPT ![s].step = next]
Fault == faults < FaultBound /\ faults' = faults + 1

\* The task ends, by a return or a throw.
End(s, configured) ==
  /\ task' = [task EXCEPT ![s] = Idle]
  /\ settled' = IF configured /\ task[s].kind \in {"create", "update", "enable", "disable", "delete"}
                THEN settled \cup (Holds(task[s]) \ task[s].met)
                ELSE settled

\* A task takes a free slot; whoever works on the same hosts has met it.
Start(s, kind, next, rows) ==
  /\ task[s] = Idle
  /\ LET held == DOMAIN rows
         others == {x \in Slot \ {s} : task[x] # Idle}
     IN /\ task' = [x \in Slot |->
                      IF x = s
                      THEN [Idle EXCEPT !.step = next, !.kind = kind, !.rows = rows,
                                        !.met = held \cap UNION {Holds(task[o]) : o \in others}]
                      ELSE [task[x] EXCEPT !.met = @ \cup (held \cap Holds(task[x]))]]
        /\ settled' = settled \ held
  /\ UNCHANGED <<disk, server, faults>>

Ask == requests < RequestBound /\ requests' = requests + 1

-----------------------------------------------------------------------------
(* The requests of an administrator, up to their first write. *)

\* A proxy host, and only that, may be created or updated with a word on whether it is
\* enabled.
Enablings(h, unsaid) == IF TypeOf[h] = "proxy" THEN BOOLEAN ELSE {unsaid}

Create(s, h) ==
  \E good \in BOOLEAN, enabled \in Enablings(h, TRUE) :
    LET new == [Absent EXCEPT !.state = "live", !.enabled = enabled, !.good = good] IN
    /\ row[h].state = "absent" /\ Ask
    /\ row' = [row EXCEPT ![h] = new]
    /\ Start(s, "create", "read", Just(h, new))

Update(s, h) ==
  /\ h \in Live /\ Ask
  /\ Start(s, "update", "patch", Rows({h})) /\ UNCHANGED row

Enable(s, h) ==
  /\ h \in Live /\ ~row[h].enabled /\ Ask
  /\ row' = [row EXCEPT ![h].enabled = TRUE]
  /\ Start(s, "enable", "ensure", Just(h, row'[h]))

Disable(s, h) ==
  /\ h \in Live /\ row[h].enabled /\ Ask
  /\ row' = [row EXCEPT ![h].enabled = FALSE]
  /\ Start(s, "disable", "remove", Just(h, row'[h]))

Delete(s, h) ==
  /\ h \in Live /\ Ask
  /\ row' = [row EXCEPT ![h].state = "deleted"]
  /\ Start(s, "delete", "remove", Just(h, row'[h]))

\* create of a Let's Encrypt certificate: getHostsWithDomains, streams have none.
Certify(s, named) ==
  /\ Ask
  /\ Start(s, "certify", "take", Rows({h \in named \cap Live : TypeOf[h] # "stream"}))
  /\ UNCHANGED row

\* update or delete of the access list: the re-fetched hosts.
ChangeList(s) ==
  /\ Ask
  /\ Start(s, "list", "rewrite", Rows(Listed \cap Live)) /\ UNCHANGED row

List(s, kind, next) ==
  /\ task[s] = Idle
  /\ task' = [task EXCEPT ![s] = [Idle EXCEPT !.step = next, !.kind = kind,
                                              !.listing = Live \cap Proxied]]
  /\ UNCHANGED <<row, disk, server, faults, settled>>

\* A host group or host access change: listHostRows.
ChangeGroups(s) == Ask /\ List(s, "groups", "includes")

\* The 30 s timer: listProxyHostsForSecurity.
SyncProtection(s) ==
  /\ \A x \in Slot : task[x].kind # "protect"
  /\ prot # Live \cap Proxied
  /\ List(s, "protect", "protect") /\ UNCHANGED requests

-----------------------------------------------------------------------------
(* Rows. *)

\* update writes back the whole row it read (cleanSslHstsData), with the change, ...
PatchRow(seen, h, good, enabled) ==
  row' = [row EXCEPT ![h] = [seen EXCEPT !.good = good, !.enabled = enabled, !.state = row[h].state]]

\* ... but those of a dead host and of a stream write what is to change.
PatchGiven(h, good) == row' = [row EXCEPT ![h].good = good]

Patch(s) ==
  LET h == Only(task[s])
      seen == task[s].rows[h]
  IN
  /\ task[s].step = "patch"
  /\ \E good \in BOOLEAN, enabled \in Enablings(h, seen.enabled) :
       IF TypeOf[h] \in {"dead", "stream"} THEN PatchGiven(h, good) ELSE PatchRow(seen, h, good, enabled)
  /\ Step(s, "read")
  /\ UNCHANGED <<disk, server, requests, faults, settled>>

\* Updating a redirection host or a stream configures it though it is disabled.
ConfiguredDisabled(h) == TypeOf[h] \in {"redirection", "stream"}

\* The row is read again, with its relations; a disabled host is left alone, also one
\* that the update itself has disabled.
Read(s) ==
  LET h == Only(task[s]) IN
  /\ task[s].step = "read"
  /\ \/ /\ row[h].state = "live" /\ (task[s].kind = "create" \/ row[h].enabled \/ ConfiguredDisabled(h))
        /\ task' = [task EXCEPT ![s].rows = Rows({h}), ![s].step = "ensure"]
        /\ UNCHANGED settled
     \/ row[h].state = "live" /\ task[s].kind = "update" /\ ~row[h].enabled /\ End(s, FALSE)
     \/ row[h].state # "live" /\ End(s, FALSE)
  /\ UNCHANGED <<row, disk, server, requests, faults>>

-----------------------------------------------------------------------------
(* configure. *)

\* Faulty variant: hosts of every type get the files.
EnsureAll(s) ==
  LET h == Only(task[s]) IN
  /\ task[s].step = "ensure"
  /\ acl' = acl \cup {h} /\ prot' = prot \cup {h}
  /\ Step(s, "pretest")
  /\ UNCHANGED <<row, file, server, requests, faults, settled>>

\* ensureHostAclFile.
Ensure(s) ==
  LET h == Only(task[s]) IN
  /\ task[s].step = "ensure"
  /\ acl' = acl \cup ({h} \cap Proxied) /\ prot' = prot \cup ({h} \cap Proxied)
  /\ Step(s, "pretest")
  /\ UNCHANGED <<row, file, server, requests, faults, settled>>

Pretest(s) ==
  /\ task[s].step = "pretest"
  /\ \/ TestPasses /\ Step(s, "clear") /\ UNCHANGED settled
     \/ ~TestPasses /\ End(s, FALSE)
  /\ UNCHANGED <<row, disk, server, requests, faults>>

\* deleteConfig, before the new text is rendered.
Clear(s) ==
  /\ task[s].step = "clear"
  /\ file' = [file EXCEPT ![Only(task[s])] = None]
  /\ Step(s, "write")
  /\ UNCHANGED <<row, acl, prot, server, requests, faults, settled>>

\* enable has read the access list without its users and addresses.
Generate(s) ==
  LET h == Only(task[s]) IN
  /\ task[s].step = "write"
  /\ file' = [file EXCEPT ![h] = Render(task[s].rows[h], h, task[s].kind # "enable")]
  /\ Step(s, "test")
  /\ UNCHANGED <<row, acl, prot, server, requests, faults, settled>>

TestHost(s) ==
  /\ task[s].step = "test"
  /\ Step(s, IF TestPasses THEN "passed" ELSE "failed")
  /\ UNCHANGED <<row, disk, server, requests, faults, settled>>

MarkOnline(s) ==
  /\ task[s].step = "passed"
  /\ row' = [row EXCEPT ![Only(task[s])].online = TRUE]
  /\ Step(s, "reload")
  /\ UNCHANGED <<disk, server, requests, faults, settled>>

MarkOffline(s) ==
  /\ task[s].step = "failed"
  /\ row' = [row EXCEPT ![Only(task[s])].online = FALSE]
  /\ Step(s, "aside")
  /\ UNCHANGED <<disk, server, requests, faults, settled>>

\* renameConfigAsError, or deleteConfig when a host is disabled or deleted.
SetAside(s) ==
  /\ task[s].step \in {"aside", "remove"}
  /\ file' = [file EXCEPT ![Only(task[s])] = None]
  /\ Step(s, "reload")
  /\ UNCHANGED <<row, acl, prot, server, requests, faults, settled>>

-----------------------------------------------------------------------------
(* create in certificate.js. *)

\* disableInUseHosts; then the owner must have an e-mail address.
TakeDown(s) ==
  /\ task[s].step = "take"
  /\ file' = [h \in Host |-> IF h \in Holds(task[s]) THEN None ELSE file[h]]
  /\ \/ Step(s, "reload") /\ UNCHANGED settled
     \/ End(s, FALSE)
  /\ UNCHANGED <<row, acl, prot, server, requests, faults>>

Certbot(s) ==
  /\ task[s].step = "certbot"
  /\ Step(s, "issued")
  /\ UNCHANGED <<row, disk, server, requests, faults, settled>>

\* enableInUseHosts, from rows read without their relations.
GiveBack(s) ==
  LET t == task[s] IN
  /\ t.step = "giveback"
  /\ file' = [h \in Host |-> IF h \in Holds(t) THEN Render(t.rows[h], h, FALSE) ELSE file[h]]
  /\ \/ t.undo /\ Step(s, "reload") /\ UNCHANGED settled
     \/ ~t.undo /\ End(s, TRUE)
  /\ UNCHANGED <<row, acl, prot, server, requests, faults>>

-----------------------------------------------------------------------------
(* Access lists, includes, and reload, which is the last step of most. *)

\* bulkGenerateConfigs, without a test of its own.
Rewrite(s) ==
  LET t == task[s] IN
  /\ t.step = "rewrite"
  /\ file' = [h \in Host |-> IF h \in Holds(t) THEN Render(t.rows[h], h, TRUE) ELSE file[h]]
  /\ Step(s, "reload")
  /\ UNCHANGED <<row, acl, prot, server, requests, faults, settled>>

\* writeRuntimeFiles: write for the hosts listed, unlink the others'.
WriteIncludes(s) ==
  /\ task[s].step = "includes"
  /\ acl' = task[s].listing /\ prot' = task[s].listing
  /\ Step(s, "reload")
  /\ UNCHANGED <<row, file, server, requests, faults, settled>>

WriteProtection(s) ==
  /\ task[s].step = "protect"
  /\ prot' = task[s].listing
  /\ \/ prot # task[s].listing /\ Step(s, "reload") /\ UNCHANGED settled
     \/ prot = task[s].listing /\ End(s, TRUE)
  /\ UNCHANGED <<row, file, acl, server, requests, faults>>

\* removeHostAclFile.
RemoveIncludes(s) ==
  /\ task[s].step = "unlink"
  /\ acl' = acl \ Holds(task[s]) /\ prot' = prot \ Holds(task[s])
  /\ End(s, TRUE)
  /\ UNCHANGED <<row, file, server, requests, faults>>

\* What follows a reload that worked.
AfterReload(s) ==
  LET t == task[s] IN
  \/ t.kind = "delete" /\ Step(s, "unlink") /\ UNCHANGED settled
  \/ t.kind = "certify" /\ ~t.undo /\ Step(s, "certbot") /\ UNCHANGED settled
  \/ t.undo /\ End(s, FALSE)
  \/ t.kind \notin {"delete", "certify"} /\ ~t.undo /\ End(s, TRUE)

\* Faulty variant: a failed certificate request forgets the hosts.
CatchAndLeave(s) ==
  LET t == task[s] IN
  \/ /\ t.kind = "groups" /\ ~t.undo
     /\ task' = [task EXCEPT ![s].step = "includes", ![s].undo = TRUE, ![s].listing = Live \cap Proxied]
     /\ UNCHANGED settled
  \/ t.step \in {"test", "passed"} /\ Step(s, "failed") /\ UNCHANGED settled
  \/ (t.kind # "groups" \/ t.undo) /\ t.step \notin {"test", "passed"} /\ End(s, FALSE)

\* The catch blocks: certify gives the hosts back; a group change lists the hosts and
\* writes their includes again, and reloads though that fails; configure takes a failed
\* row update for a failed test.
Catch(s) ==
  LET t == task[s] IN
  \/ /\ t.kind = "certify" /\ ~t.undo
     /\ task' = [task EXCEPT ![s].step = "giveback", ![s].undo = TRUE]
     /\ UNCHANGED settled
  \/ /\ t.kind = "groups" /\ ~t.undo
     /\ task' = [task EXCEPT ![s].step = "includes", ![s].undo = TRUE, ![s].listing = Live \cap Proxied]
     /\ UNCHANGED settled
  \/ t.kind = "groups" /\ t.undo /\ t.step = "includes" /\ Step(s, "reload") /\ UNCHANGED settled
  \/ t.step \in {"test", "passed"} /\ Step(s, "failed") /\ UNCHANGED settled
  \/ /\ t.undo \/ t.kind \notin {"certify", "groups"}
     /\ t.step \notin {"test", "passed"}
     /\ End(s, FALSE)

Signal == signalled' = TRUE /\ UNCHANGED <<nginx, refused>>

\* Faulty variant: a failed reload is logged and passed over.
ReloadOrGoOn(s) ==
  /\ task[s].step = "reload"
  /\ IF TestPasses THEN Signal ELSE UNCHANGED server
  /\ AfterReload(s)
  /\ UNCHANGED <<row, disk, requests, faults>>

\* `nginx -t`, then `nginx -s reload`, which reads the files itself before it signals:
\* what fails the first or the second is caught alike, so one step stands for both.
Reload(s) ==
  /\ task[s].step = "reload"
  /\ \/ TestPasses /\ Signal /\ AfterReload(s)
     \/ ~TestPasses /\ Catch(s) /\ UNCHANGED server
  /\ UNCHANGED <<row, disk, requests, faults>>

\* The reload between certbot and the return of the hosts.
ReloadIssued(s) ==
  /\ task[s].step = "issued"
  /\ \/ TestPasses /\ Signal /\ Step(s, "giveback") /\ UNCHANGED settled
     \/ ~TestPasses /\ Catch(s) /\ UNCHANGED server
  /\ UNCHANGED <<row, disk, requests, faults>>

\* The master reads the files when it gets to it, whatever they have become since.
MasterReads ==
  /\ signalled /\ signalled' = FALSE
  /\ \/ TestPasses /\ nginx' = Loaded /\ refused' = FALSE
     \/ ~TestPasses /\ refused' = TRUE /\ UNCHANGED nginx
  /\ UNCHANGED <<row, disk, task, requests, faults, settled>>

\* Removals that log an error, or not even that, and go on.
Removals == {"clear", "aside", "remove", "take"}

\* A query, a write, a command fails.
StepFails(s) ==
  /\ task[s] # Idle /\ task[s].step \notin Removals /\ Fault
  /\ Catch(s)
  /\ UNCHANGED <<row, disk, server, requests>>

\* deleteFile and renameConfigAsError: what cannot be removed stays, and the task goes on.
LeavesBehind(t, left) ==
  [t EXCEPT !.step = IF t.step = "clear" THEN "write" ELSE "reload",
            !.met = IF t.step \in {"aside", "remove"} THEN @ \cup left ELSE @]

RemovalFails(s) ==
  LET t == task[s] IN
  /\ t.step \in Removals /\ Fault
  /\ \E left \in (SUBSET Holds(t)) \ {{}} :
       /\ file' = [h \in Host |-> IF h \in Holds(t) \ left THEN None ELSE file[h]]
       /\ task' = [task EXCEPT ![s] = LeavesBehind(t, left)]
  /\ UNCHANGED <<row, acl, prot, server, requests, settled>>

\* The IP ranges timer, blocks, challenges reload the same Nginx.
ReloadElsewhere ==
  /\ TestPasses /\ Signal
  /\ UNCHANGED <<row, disk, task, requests, faults, settled>>

\* The backend dies and starts again; prepare brings the includes up to date.
Restart ==
  /\ Fault
  /\ task' = [s \in Slot |-> Idle]
  /\ acl' = Live \cap Proxied /\ prot' = Live \cap Proxied
  /\ UNCHANGED <<row, file, server, requests, settled>>

-----------------------------------------------------------------------------
Run(s) ==
  \/ Patch(s) \/ Read(s)
  \/ Ensure(s) \/ Pretest(s) \/ Clear(s) \/ Generate(s) \/ TestHost(s)
  \/ MarkOnline(s) \/ MarkOffline(s) \/ SetAside(s)
  \/ TakeDown(s) \/ Certbot(s) \/ GiveBack(s)
  \/ Rewrite(s) \/ WriteIncludes(s) \/ WriteProtection(s) \/ RemoveIncludes(s)
  \/ Reload(s) \/ ReloadIssued(s)

Next ==
  \/ \E s \in Slot :
       \/ \E h \in Host :
            Create(s, h) \/ Update(s, h) \/ Enable(s, h) \/ Disable(s, h) \/ Delete(s, h)
       \/ \E named \in SUBSET Host : Certify(s, named)
       \/ ChangeList(s) \/ ChangeGroups(s) \/ SyncProtection(s)
       \/ Run(s) \/ StepFails(s) \/ RemovalFails(s)
  \/ MasterReads \/ ReloadElsewhere \/ Restart

Spec == Init /\ [][Next]_vars

-----------------------------------------------------------------------------
Row == [state : {"absent", "live", "deleted"}, enabled : BOOLEAN, good : BOOLEAN, online : BOOLEAN]

TypeOK ==
  /\ row \in [Host -> Row]
  /\ file \in [Host -> File \cup {None}] /\ nginx \in [Host -> File \cup {None}]
  /\ acl \subseteq Proxied /\ prot \subseteq Proxied
  /\ \A s \in Slot :
       /\ Holds(task[s]) \subseteq Host /\ task[s].met \subseteq Host
       /\ \A h \in Holds(task[s]) : task[s].rows[h] \in Row
       /\ task[s].undo \in BOOLEAN
  /\ signalled \in BOOLEAN /\ refused \in BOOLEAN
  /\ requests \in 0 .. RequestBound /\ faults \in 0 .. FaultBound /\ settled \subseteq Host

\* Once a request that configures or removes a host is acknowledged, and as long as
\* nobody asks for another, the host has a file that serves it exactly when its row says
\* it is live, enabled and online; and so does Nginx, once its master has read what it
\* was told to: whatever broken files, failing reloads, vanished includes or dying
\* requests the other hosts go through meanwhile.  Except: two requests for the host
\* that met; a file that could not be removed; an update that finds the host disabled, or
\* disables it, is acknowledged and configures nothing.  And while the master has turned
\* down files that went bad between the test and its reading, Nginx stays behind.
SettledIsHonest ==
  \A h \in settled :
    LET on == row[h].state = "live" /\ row[h].enabled /\ row[h].online
    IN /\ Serves(file[h]) <=> on
       /\ ~signalled /\ ~refused => (nginx[h] # None <=> on)

\* A certificate request that has gone past its checks ends with a file for
\* every host it took down that no other request worked on, whichever reload,
\* command or first rewrite fails; only the rewrite in the catch must work.
GivesBack ==
  [][\A s \in Slot :
       /\ task[s].kind = "certify" /\ task[s].step # "take" /\ task'[s] = Idle
       /\ Run(s) \/ (StepFails(s) /\ task[s].step # "giveback")
       => \A h \in Holds(task[s]) \ task[s].met : file'[h] # None]_vars

\* configure's promise to remove a bad file, taken for the whole: when no
\* request runs, nothing on disk makes `nginx -t` fail.
NothingBrokenStays == (\A s \in Slot : task[s] = Idle) => TestPasses
=============================================================================
