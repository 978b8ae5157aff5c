---------------------------- MODULE SignedEvents ----------------------------
(***************************************************************************)
(* The signed security events of one device id (security_devices.js): its  *)
(* registration, its replay counter, and the requests on the network, each *)
(* of which may arrive late, several times or never.  The operations wait  *)
(* for one another (withMutation), but registering and revoking write two  *)
(* files, and may fail or die between them.                                *)
(***************************************************************************)
EXTENDS Naturals, FiniteSets

CONSTANTS
  Key,          \* Ed25519 keys
  None,
  Skews,        \* how far ahead the device's clock may be
  Window,       \* MAX_CLOCK_SKEW_MS
  SendBound,    \* bound: requests signed
  TimeBound,    \* bound: the clock
  TroubleBound  \* bound: failing writes and crashes

ASSUME SignedAssumption ==
  /\ None \notin Key /\ Skews \subseteq Nat /\ Window \in Nat
  /\ SendBound \in Nat /\ TimeBound \in Nat /\ TroubleBound \in Nat

VARIABLES
  now,
  device,    \* its entry in trusted-devices.json
  counter,   \* its entry in trusted-device-state.json
  half,      \* a registration or a revocation has written the first file only
  last,      \* the sequence number the device used last
  sent,      \* the requests it has signed
  accepted, replayed,  \* history: those accepted, and accepted again
  ahead,               \* history: those accepted that a reset found stamped later than itself
  used, revived,       \* history: the keys registered, and registered again
  troubles

history == <<accepted, replayed, ahead, used, revived>>
devicesVars == <<now, device, counter, half, last, sent, history, troubles>>

Message == [key : Key, seq : Nat \ {0}, ts : Nat \ {0}]
NoCounter == [seq |-> 0, resetAt |-> 0]
Trusted == device # None /\ ~device.revoked

DevicesInit ==
  /\ now = 1 /\ device = None /\ counter = NoCounter /\ half = FALSE
  /\ last = 0 /\ sent = {}
  /\ accepted = {} /\ replayed = {} /\ ahead = {} /\ used = {} /\ revived = {}
  /\ troubles = 0

Trouble == troubles < TroubleBound /\ troubles' = troubles + 1

-----------------------------------------------------------------------------
(* The operations of an administrator. *)

\* registerDevice: a new id, or a revoked one with another key; the first file.
RegisterDevice(k) ==
  /\ ~half
  /\ device # None => device.revoked /\ device.key # k
  /\ device' = [key |-> k, revoked |-> FALSE]
  /\ half' = TRUE
  /\ used' = used \cup {k}
  /\ revived' = revived \cup ({k} \cap used)
  /\ UNCHANGED <<now, counter, last, sent, accepted, replayed, ahead, troubles>>

\* revokeDevice: the first file.
RevokeDevice ==
  /\ ~half /\ device # None
  /\ device' = [device EXCEPT !.revoked = TRUE]
  /\ half' = TRUE
  /\ UNCHANGED <<now, counter, last, sent, history, troubles>>

\* Faulty variant: the entry is emptied, not removed, and read as a counter again.
EmptyCounter ==
  /\ half
  /\ counter' = [counter EXCEPT !.seq = 0, !.resetAt = None]
  /\ half' = FALSE
  /\ UNCHANGED <<now, device, last, sent, history, troubles>>

\* Either then forgets the counter.
ForgetCounter ==
  /\ half
  /\ counter' = NoCounter
  /\ half' = FALSE
  /\ UNCHANGED <<now, device, last, sent, history, troubles>>

\* The second write fails, or the backend dies before it: nothing is undone.
LeaveHalf ==
  /\ half /\ Trouble
  /\ half' = FALSE
  /\ UNCHANGED <<now, device, counter, last, sent, history>>

\* Faulty variant: the counter is set back and no epoch is begun.
ResetToZero ==
  /\ ~half /\ Trusted
  /\ counter' = NoCounter
  /\ ahead' = ahead \cup {m \in accepted : m.ts > now}
  /\ UNCHANGED <<now, device, half, last, sent, accepted, replayed, used, revived, troubles>>

ResetSequence ==
  /\ ~half /\ Trusted
  /\ counter' = [seq |-> 0, resetAt |-> now]
  /\ ahead' = ahead \cup {m \in accepted : m.ts > now}
  /\ UNCHANGED <<now, device, half, last, sent, accepted, replayed, used, revived, troubles>>

-----------------------------------------------------------------------------
(* The device, and its requests. *)

\* signHyroviSecurityEvent: the next number is stored before it is sent.
Sign(skew) ==
  LET m == [key |-> device.key, seq |-> last + 1, ts |-> now + skew] IN
  /\ device # None /\ Cardinality(sent) < SendBound
  /\ m \notin sent
  /\ last' = last + 1
  /\ sent' = sent \cup {m}
  /\ UNCHANGED <<now, device, counter, half, history, troubles>>

\* Told of a reset or of its new key, or restored, the device starts again at 1.
Renumber ==
  /\ last # 0 /\ last' = 0
  /\ UNCHANGED <<now, device, counter, half, sent, history, troubles>>

InTime(m) == m.ts - now \in 0 .. Window \/ now - m.ts \in 0 .. Window

\* verifySignedRequest accepts; a refusal, or a failing write, changes nothing.
VerifySignedRequest(m) ==
  /\ ~half /\ m \in sent
  /\ InTime(m) /\ Trusted /\ m.key = device.key
  /\ m.ts > counter.resetAt /\ m.seq > counter.seq
  /\ counter' = [counter EXCEPT !.seq = m.seq]
  /\ accepted' = accepted \cup {m}
  /\ replayed' = replayed \cup ({m} \cap accepted)
  /\ UNCHANGED <<now, device, half, last, sent, ahead, used, revived, troubles>>

Clock ==
  /\ now < TimeBound /\ now' = now + 1
  /\ UNCHANGED <<device, counter, half, last, sent, history, troubles>>

DevicesNext ==
  \/ \E k \in Key : RegisterDevice(k)
  \/ RevokeDevice \/ ForgetCounter \/ LeaveHalf \/ ResetSequence
  \/ \E skew \in Skews : Sign(skew)
  \/ \E m \in sent : VerifySignedRequest(m)
  \/ Renumber \/ Clock

DevicesSpec == DevicesInit /\ [][DevicesNext]_devicesVars

-----------------------------------------------------------------------------
DevicesTypeOK ==
  /\ now \in Nat /\ last \in Nat /\ half \in BOOLEAN
  /\ device \in {None} \cup [key : Key, revoked : BOOLEAN]
  /\ counter \in [seq : Nat, resetAt : Nat]
  /\ sent \subseteq Message
  /\ accepted \subseteq sent /\ replayed \subseteq accepted /\ ahead \subseteq accepted
  /\ used \subseteq Key /\ revived \subseteq used
  /\ troubles \in 0 .. TroubleBound

\* "Signatures created before that reset remain invalid" (HYROVI_SEC_APP_EVENTS.md):
\* whatever is repeated, delayed, revoked, reset, or left half done, a request
\* is accepted once.  Two things undo it, and no other: the device's clock was
\* ahead at a reset, and an old key registered once more.
AcceptedOnce ==
  \A m \in replayed : m \in ahead \/ m.key \in revived
=============================================================================
