---------------------------- MODULE Certificates ----------------------------
(***************************************************************************)
(* The life of a Let's Encrypt certificate (internal/certificate.js): it   *)
(* is requested, renewed by the hourly timer or by an administrator, and   *)
(* deleted.  Each of them runs certbot, which refuses to run twice at a    *)
(* time, and none waits for another.  A certificate is in three places:    *)
(* the row, whose expires_on the timer goes by; certbot's files; and the   *)
(* running Nginx, which reads the files only when it is reloaded.  What    *)
(* becomes of the hosts meanwhile is in HostConfig.                        *)
(***************************************************************************)
EXTENDS Integers, Sequences
LOCAL INSTANCE SequencesExt
LOCAL INSTANCE FiniteSets

CONSTANTS
  Cert,          \* certificates, by the id of their row
  Existing,      \* those there may be at the start
  Used,          \* those of them that a host uses
  Dns,           \* those validated by a DNS challenge
  Broken,        \* those whose domains certbot can no longer validate
  Slot,          \* requests at a time
  CertRequests,  \* bound: requests of administrators
  CertFaults     \* bound: failing steps and restarts

ASSUME CertAssumption ==
  /\ Cert \subseteq Nat /\ IsFiniteSet(Cert)
  /\ Used \subseteq Existing /\ Existing \cup Dns \cup Broken \subseteq Cert
  /\ {CertRequests, CertFaults} \subseteq Nat

VARIABLES
  row,          \* expires_on is within thirty days, or farther; or deleted
  file,         \* fullchain.pem, likewise, or none
  served,       \* what the running Nginx has loaded, if a host uses it
  credentials,  \* certificates whose DNS credentials are on disk
  certbot,      \* what the running certbot does
  processing,   \* intervalProcessing
  train,        \* certificates the timer has yet to renew
  task,         \* the step each request, and the timer, is at
  asked, broke

certVars == <<row, file, served, credentials, certbot, processing, train, task, asked, broke>>

Timer == "timer"
NoTask == [do |-> "nothing", cert |-> 0, step |-> "idle"]
Live(c) == row[c] \in {"fresh", "due"}

CertInit ==
  /\ \E there \in SUBSET Existing:
       /\ row = [c \in Cert |-> IF c \in there THEN "fresh" ELSE "none"]
       /\ file = row
       /\ served = [c \in Cert |-> IF c \in there \cap Used THEN "fresh" ELSE "none"]
  /\ credentials = {} /\ certbot = NoTask
  /\ processing = FALSE /\ train = <<>>
  /\ task = [t \in Slot \cup {Timer} |-> NoTask]
  /\ asked = 0 /\ broke = 0

Ask == asked < CertRequests /\ asked' = asked + 1
Break == broke < CertFaults /\ broke' = broke + 1

Do(t, do, c, step) == task' = [task EXCEPT ![t] = [do |-> do, cert |-> c, step |-> step]]
Go(t, step) == task' = [task EXCEPT ![t].step = step]
End(t) == task' = [task EXCEPT ![t] = NoTask]

-----------------------------------------------------------------------------
(* Nginx. *)

\* A host whose certificate is gone fails the test before every reload.
Wedged == \E c \in Cert: served[c] # "none" /\ file[c] = "none"
Loads == [c \in Cert |-> IF served[c] = "none" THEN "none" ELSE file[c]]

\* Any other part of the backend reloads Nginx (the IP ranges timer at the latest).
ReloadElsewhere ==
  /\ ~Wedged
  /\ served' = Loads
  /\ UNCHANGED <<row, file, credentials, certbot, processing, train, task, asked, broke>>

-----------------------------------------------------------------------------
(* Requests, and the timer. *)

\* create inserts the row, and $beforeInsert has it expire now.
Insert(s, c) ==
  /\ row[c] = "none"
  /\ row' = [row EXCEPT ![c] = "due"]
  /\ Do(s, "create", c, "reload")

AskRenewal(s, c) == Live(c) /\ Do(s, "renew", c, "get") /\ UNCHANGED row

\* delete marks the row before it revokes the certificate.
Delete(s, c) ==
  /\ Live(c)
  /\ row' = [row EXCEPT ![c] = "gone"]
  /\ Do(s, "delete", c, "certbot")

Requested(s) ==
  /\ task[s] = NoTask /\ Ask
  /\ \E c \in Cert: Insert(s, c) \/ AskRenewal(s, c) \/ Delete(s, c)
  /\ UNCHANGED <<file, served, credentials, certbot, processing, train, broke>>

\* processExpiringHosts, unless it is still under way.  (When nothing expires, nothing
\* happens; when the query fails, nothing either.)
Due == {c \in Cert : row[c] = "due"}
ProcessExpiring ==
  /\ ~processing /\ Due # {}
  /\ processing' = TRUE
  /\ train' = SetToSortSeq(Due, <)
  /\ UNCHANGED <<row, file, served, credentials, certbot, task, asked, broke>>

RenewNext ==
  /\ processing /\ task[Timer] = NoTask
  /\ IF train = <<>>
     THEN processing' = FALSE /\ UNCHANGED <<train, task>>
     ELSE train' = Tail(train) /\ Do(Timer, "renew", Head(train), "get") /\ UNCHANGED processing
  /\ UNCHANGED <<row, file, served, credentials, certbot, asked, broke>>

-----------------------------------------------------------------------------
(* The steps of a request. *)

At(t, step) == task[t].step = step

\* Faulty variant: an error stops the train.
ThrowAndStop(t) ==
  /\ train' = IF t = Timer THEN <<>> ELSE train
  /\ IF task[t].do = "create" THEN Go(t, "undo") ELSE End(t)
  /\ UNCHANGED row

\* A creation that fails still has something to undo; the timer's train goes on.
Throw(t) ==
  /\ train' = train
  /\ IF task[t].do = "create" THEN Go(t, "undo") ELSE End(t)
  /\ UNCHANGED row

\* The row of a certificate that was not created is deleted.
Discard(t) ==
  /\ row' = IF task[t].do = "create" THEN [row EXCEPT ![task[t].cert] = "gone"] ELSE row
  /\ End(t)

\* A creation gives the hosts back and reloads Nginx, which may fail as well.
Undo(t) ==
  /\ At(t, "undo")
  /\ \/ ~Wedged /\ served' = Loads /\ UNCHANGED broke
     \/ Wedged /\ UNCHANGED <<served, broke>>
     \/ Break /\ UNCHANGED served
  /\ Discard(t)
  /\ UNCHANGED <<file, credentials, certbot, processing, train, asked>>

LoadFiles(t, next) ==
  /\ ~Wedged
  /\ served' = Loads
  /\ Go(t, next)
  /\ UNCHANGED <<row, train, broke>>

ReloadFails(t) ==
  /\ \/ Wedged /\ UNCHANGED broke
     \/ Break
  /\ Throw(t)
  /\ UNCHANGED served

\* A request reloads Nginx without the hosts of its domains, and with them once
\* certbot is done.
ReloadBefore(t) ==
  /\ At(t, "reload")
  /\ LoadFiles(t, "certbot") \/ ReloadFails(t)
  /\ UNCHANGED <<file, credentials, certbot, processing, asked>>

ReloadAfter(t) ==
  /\ At(t, "load")
  /\ LoadFiles(t, "patch") \/ ReloadFails(t)
  /\ UNCHANGED <<file, credentials, certbot, processing, asked>>

\* renew reads the row, which may have been deleted meanwhile.
Get(t) ==
  /\ At(t, "get")
  /\ IF Live(task[t].cert) THEN Go(t, "certbot") /\ UNCHANGED <<row, train>> ELSE Throw(t)
  /\ UNCHANGED <<file, served, credentials, certbot, processing, asked, broke>>

\* The credentials are written, and certbot starts, or finds another one running.
NeedsCredentials(t) == task[t].cert \in Dns /\ task[t].do # "delete"

StartCertbot(t) ==
  /\ At(t, "certbot")
  /\ credentials' = IF NeedsCredentials(t) THEN credentials \cup {task[t].cert} ELSE credentials
  /\ IF certbot = NoTask
     THEN certbot' = [task[t] EXCEPT !.step = "running"] /\ Go(t, "running")
     ELSE certbot' = certbot /\ Go(t, "refused")
  /\ UNCHANGED <<row, file, served, processing, train, asked, broke>>

\* A plugin cannot be installed, or a file not written.
CannotStart(t) ==
  /\ At(t, "certbot") /\ task[t].do # "delete"
  /\ Break
  /\ Throw(t)
  /\ UNCHANGED <<file, served, credentials, certbot, processing, asked>>

\* What certbot can do, and what it does to the files.
Succeeds(do, c) ==
  CASE do = "create" -> c \notin Broken
    [] do = "renew" -> c \notin Broken /\ file[c] # "none"
    [] do = "delete" -> file[c] # "none"

Files(do, c) == [file EXCEPT ![c] = IF do = "delete" THEN "none" ELSE "fresh"]

\* Faulty variant: the credentials are removed when certbot has failed.
RemovedAfter(t, well) == IF well THEN {} ELSE {task[t].cert}

\* The credentials taken off the disk: always, but by a failed revocation.
Removed(t, well) == IF task[t].do = "delete" /\ ~well THEN {} ELSE {task[t].cert}

CertbotEnds(t) ==
  /\ At(t, "running") /\ Succeeds(task[t].do, task[t].cert)
  /\ file' = Files(task[t].do, task[t].cert)
  /\ certbot' = NoTask
  /\ credentials' = credentials \ Removed(t, TRUE)
  /\ \/ task[t].do = "create" /\ Go(t, "load")
     \/ task[t].do = "renew" /\ Go(t, "patch")
     \/ task[t].do = "delete" /\ End(t)
  /\ UNCHANGED <<row, served, processing, train, asked, broke>>

\* It also fails when another request, refused, has taken its credentials away.
Unauthorised(t) == NeedsCredentials(t) /\ task[t].cert \notin credentials

CertbotFails(t) ==
  /\ \/ /\ At(t, "running") /\ certbot' = NoTask
        /\ \/ (~Succeeds(task[t].do, task[t].cert) \/ Unauthorised(t)) /\ UNCHANGED broke
           \/ Break
     \/ At(t, "refused") /\ UNCHANGED <<certbot, broke>>
  /\ credentials' = credentials \ Removed(t, FALSE)
  /\ Throw(t)
  /\ UNCHANGED <<file, served, processing, asked>>

\* Faulty variant: expires_on becomes ninety days from now, and the row is not deleted.
PatchNinetyDays(t) ==
  /\ At(t, "patch")
  /\ \/ row' = [row EXCEPT ![task[t].cert] = "fresh"] /\ End(t) /\ UNCHANGED broke
     \/ Break /\ Discard(t)
  /\ UNCHANGED <<file, served, credentials, certbot, processing, train, asked>>

\* expires_on becomes what the file says; a deleted row stays deleted.
Patch(t) ==
  /\ At(t, "patch")
  /\ LET c == task[t].cert
     IN  \/ /\ file[c] # "none"
            /\ row' = [row EXCEPT ![c] = IF @ = "gone" THEN @ ELSE file[c]]
            /\ End(t)
            /\ UNCHANGED broke
         \/ file[c] = "none" /\ Discard(t) /\ UNCHANGED broke
         \/ Break /\ Discard(t)
  /\ UNCHANGED <<file, served, credentials, certbot, processing, train, asked>>

-----------------------------------------------------------------------------
(* Time and restarts. *)

\* Sixty days pass.  (No request lasts that long, and where Nginx can be reloaded, it
\* has been: the IP ranges timer does so every six hours.)
Older(version) == IF version = "fresh" THEN "due" ELSE version
Age(c) ==
  /\ certbot.cert # c /\ \A t \in DOMAIN task: task[t].cert # c
  /\ served[c] \in {"none", file[c]} \/ Wedged
  /\ row' = [row EXCEPT ![c] = Older(@)]
  /\ file' = [file EXCEPT ![c] = Older(@)]
  /\ served' = [served EXCEPT ![c] = Older(@)]
  /\ UNCHANGED <<credentials, certbot, processing, train, task, asked, broke>>

\* The backend ends, and certbot with it or not.
RestartBackend ==
  /\ Break
  /\ task' = [t \in DOMAIN task |-> NoTask]
  /\ processing' = FALSE /\ train' = <<>>
  /\ certbot' \in {certbot, NoTask}
  /\ UNCHANGED <<row, file, served, credentials, asked>>

OrphanEnds ==
  /\ certbot # NoTask /\ \A t \in DOMAIN task: ~At(t, "running")
  /\ \/ Succeeds(certbot.do, certbot.cert) /\ file' = Files(certbot.do, certbot.cert)
     \/ UNCHANGED file
  /\ certbot' = NoTask
  /\ UNCHANGED <<row, served, credentials, processing, train, task, asked, broke>>

-----------------------------------------------------------------------------
Step(t) ==
  \/ ReloadBefore(t) \/ Get(t) \/ StartCertbot(t) \/ CannotStart(t)
  \/ CertbotEnds(t) \/ CertbotFails(t) \/ ReloadAfter(t) \/ Patch(t) \/ Undo(t)

Renewals == ProcessExpiring \/ RenewNext \/ Step(Timer)
Answers == OrphanEnds \/ \E s \in Slot: Step(s)

CertNext ==
  \/ \E s \in Slot: Requested(s)
  \/ Renewals \/ Answers
  \/ \E c \in Cert: Age(c)
  \/ ReloadElsewhere \/ RestartBackend

\* The timer comes every hour, commands end, time passes, and Nginx is reloaded.
\* (Requests are finitely many, so that Answers need not be fair to each of them.)
CertFairness ==
  /\ WF_certVars(Renewals) /\ WF_certVars(Answers)
  /\ WF_certVars(ReloadElsewhere) /\ \A c \in Cert: WF_certVars(Age(c))

CertSpec == CertInit /\ [][CertNext]_certVars /\ CertFairness

-----------------------------------------------------------------------------
\* The timer is never told that a certificate lasts longer than its files do, whatever
\* fails and whoever renews at the same time: it would not be renewed.
RowNotAheadOfFile == \A c \in Cert: row[c] = "fresh" => file[c] = "fresh"

\* A certificate that is about to expire comes to be served renewed, although others
\* in the timer's train fail for ever, certbot is busy and nothing reloads Nginx after
\* a renewal; unless it is deleted, or a certificate in use was.
RenewedInTheEnd ==
  \A c \in Cert \ Broken:
    served[c] = "due" ~> (served[c] = "fresh" \/ row[c] = "gone" \/ Wedged)

\* The DNS credentials of a certificate that is kept go from the disk again and again:
\* even those a crash has left there go with the next renewal.
CredentialsGoInTheEnd == \A c \in Dns: []<>(c \notin credentials \/ row[c] = "gone")
=============================================================================
