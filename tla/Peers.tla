-------------------------------- MODULE Peers --------------------------------
(***************************************************************************)
(* What the CLI client and the browser messenger have in common: two       *)
(* parties with one ratchet session each, a key file with one-time         *)
(* prekeys, a session file, and a relay between them that holds their mail *)
(* and the pools they published.                                           *)
(*                                                                         *)
(* A handler is synchronous, but what it writes to its files and to its    *)
(* socket outlives the process and what it keeps in memory does not.  So a *)
(* handler is cut into one step per such write, `job' says which is next,  *)
(* and the process may be killed between any two of them.                  *)
(***************************************************************************)
EXTENDS Ratchet

CONSTANTS
  NoPeer,     \* a peer that is not resolved yet
  Bundles,    \* the parties that were given their peer's bundle, not its address
  PoolSize,   \* OTK_POOL_SIZE
  Channel,    \* what the relay does to a party's mail: "fifo", "any-order", "replay"
  Others,     \* do other correspondents use up one-time prekeys as well
  Crashers,   \* the parties whose process may be killed
  InHandler,  \* may a process be killed in the middle of a handler
  MaxTexts,   \* bound: messages a party's user submits
  MaxCrashes, \* bound: kills of a process
  MaxPrekeys  \* bound: one-time prekeys a party generates

ASSUME PeersAssumption ==
  /\ Bundles \subseteq Party /\ Crashers \subseteq Party
  /\ {PoolSize, MaxTexts, MaxCrashes, MaxPrekeys} \subseteq Nat
  /\ Channel \in {"fifo", "any-order", "replay"}
  /\ {Others, InHandler} \subseteq BOOLEAN

VARIABLES
  up,        \* "down", "starting" or "ready"
  mem,       \* the session in memory
  disk,      \* the session in the session file
  pool,      \* ids of the one-time prekeys in memory
  poolFile,  \* and in the key file
  served,    \* the pool in the relay's directory, None before the first publish
  job,       \* what the running handler still has to do
  mail,      \* for each party, the ids of the envelopes the relay holds for it
  fresh,     \* key pairs generated, by party
  made,      \* one-time prekeys generated, by party
  \* History, read by the properties and the bounds only.
  texts,     \* messages submitted, by party
  crashes,   \* kills so far
  wire,      \* every envelope handed to the relay; its index is its id
  read,      \* the ids of the envelopes each party decrypted, in order
  refused,   \* <<id, why>> of each that a party did not decrypt
  spent      \* <<owner, prekey>> of the one-time prekeys that were used

memoryVars  == <<up, mem, pool, job>>
fileVars    == <<disk, poolFile>>
relayVars   == <<served, mail>>
countVars   == <<fresh, made, texts, crashes>>
historyVars == <<wire, read, refused, spent>>
peerVars == <<memoryVars, fileVars, relayVars, countVars, historyVars>>

Idle == [do |-> "nothing"]

PeersInit ==
  /\ up = [p \in Party |-> "down"]
  /\ mem = [p \in Party |-> None]
  /\ disk = [p \in Party |-> None]
  /\ pool = [p \in Party |-> {}]
  /\ poolFile = [p \in Party |-> {}]
  /\ served = [p \in Party |-> None]
  /\ job = [p \in Party |-> Idle]
  /\ mail = [p \in Party |-> <<>>]
  /\ fresh = [p \in Party |-> 0]
  /\ made = [p \in Party |-> 0]
  /\ texts = [p \in Party |-> 0]
  /\ crashes = 0
  /\ wire = <<>>
  /\ read = [p \in Party |-> <<>>]
  /\ refused = {}
  /\ spent = {}

------------------------------------------------------------------------------
(* Identity.                                                                 *)

\* k new prekeys.  Their ids are random: none was used before.
NewPrekeys(p, k) == {made[p] + i : i \in 1..k}

\* The pool a client loads is `kept', made up to its size by new prekeys.
LoadPool(p, kept) ==
  LET missing == PoolSize - Cardinality(kept) IN
  /\ made[p] + missing <= MaxPrekeys
  /\ made' = [made EXCEPT ![p] = @ + missing]
  /\ pool' = [pool EXCEPT ![p] = kept \cup NewPrekeys(p, missing)]
  /\ poolFile' = [poolFile EXCEPT ![p] = pool'[p]]

\* Mutant: the prekey is deleted in memory only.
ForgetPrekey(p, k) ==
  /\ pool' = [pool EXCEPT ![p] = @ \ {k}]
  /\ spent' = spent \cup {<<p, k>>}
  /\ UNCHANGED poolFile

\* A prekey that was used is deleted, and the key file written at once.
BurnPrekey(p, k) ==
  /\ pool' = [pool EXCEPT ![p] = @ \ {k}]
  /\ poolFile' = [poolFile EXCEPT ![p] = pool'[p]]
  /\ spent' = spent \cup {<<p, k>>}

------------------------------------------------------------------------------
(* Sending.                                                                  *)

\* The session of p with its peer, or a new one with the peer's prekey k.
SessionOr(p, k) ==
  IF mem[p] # None THEN mem[p]
  ELSE NewSession(IF k = None THEN None ELSE <<Peer(p), k>>)

\* The next key pair a party generates; it was used when the session s has it.
Ephemeral(p) == <<p, fresh[p] + 1>>

Uses(p, s) == fresh' = [fresh EXCEPT ![p] = IF s.dhs = Ephemeral(p) THEN @ + 1 ELSE @]

Busy(p, what, arg) == job' = [job EXCEPT ![p] = [do |-> what, arg |-> arg]]

Done(p) == job' = [job EXCEPT ![p] = Idle]

\* An envelope is handed to the relay, which keeps it for the recipient.
Write(p, env) ==
  /\ wire' = Append(wire, env)
  /\ mail' = [mail EXCEPT ![Peer(p)] = Append(@, Len(wire) + 1)]

\* A text is encrypted in session s; it is persisted next.
EncryptText(p, s) ==
  LET sending == Sending(p, s, Ephemeral(p)) IN
  /\ mem' = [mem EXCEPT ![p] = Sent(sending)]
  /\ Uses(p, sending)
  /\ Busy(p, "persist", Envelope(p, sending, "text"))

\* Mutant: the session file is not written before the message is sent.
WriteUnpersisted(p) ==
  /\ job[p].do = "persist"
  /\ Busy(p, "write", job[p].arg)
  /\ UNCHANGED <<up, mem, disk, pool, poolFile, relayVars, countVars, historyVars>>

\* The session file is written before the message is sent.
PersistText(p) ==
  /\ job[p].do = "persist"
  /\ disk' = [disk EXCEPT ![p] = mem[p]]
  /\ Busy(p, "write", job[p].arg)
  /\ UNCHANGED <<up, mem, pool, poolFile, relayVars, countVars, historyVars>>

WriteText(p) ==
  /\ job[p].do = "write"
  /\ Write(p, job[p].arg)
  /\ Done(p)
  /\ UNCHANGED <<up, mem, pool, fileVars, served, countVars, read, refused, spent>>

------------------------------------------------------------------------------
(* Receiving.                                                                *)

Refuse(id, why) == refused' = refused \cup {<<id, why>>} /\ UNCHANGED read

Accept(p, id) == read' = [read EXCEPT ![p] = Append(@, id)] /\ UNCHANGED refused

\* The relay delivers the envelope at position i of the party's mail.
Delivers(p, i) ==
  /\ up[p] = "ready" /\ job[p] = Idle
  /\ i \in 1..Len(mail[p])
  /\ Channel = "fifo" => i = 1
  /\ mail' = IF Channel = "replay" THEN mail ELSE [mail EXCEPT ![p] = Without(@, i)]

Delivered(p, i) == wire[mail[p][i]]

\* Without a session, only a first message is looked at, and only if the prekey
\* it was encrypted with is in the pool.
FirstContact(p, env) ==
  mem[p] = None /\ env.first /\ (env.otk # None => env.otk[2] \in pool[p])

WhyNotFirst(env) == IF env.first THEN "no-prekey" ELSE "no-session"

\* Its prekey is burned.
BurnPrekeyOf(p, env) ==
  IF env.otk = None THEN UNCHANGED <<pool, poolFile, spent>> ELSE BurnPrekey(p, env.otk[2])

\* The session of a first message is created and the message decrypted; when it
\* decrypts, a receipt goes out before the session is saved.
EstablishSession(p, id) ==
  LET env == wire[id]
      d   == Decrypt(p, NewSession(env.otk), env, Ephemeral(p))
  IN \/ /\ d.why = None
        /\ mem' = [mem EXCEPT ![p] = Sent(d.session)]
        /\ Uses(p, d.session)
        /\ Write(p, Envelope(p, d.session, "receipt"))
        /\ Accept(p, id)
     \/ /\ d.why # None
        /\ Refuse(id, d.why)
        /\ UNCHANGED <<mem, fresh, wire, mail>>

------------------------------------------------------------------------------
(* The environment.                                                          *)

\* The process is killed: what was in memory, the pending job included, is gone.
Kill(p) ==
  /\ p \in Crashers /\ up[p] # "down" /\ crashes < MaxCrashes
  /\ InHandler \/ job[p] = Idle
  /\ crashes' = crashes + 1
  /\ up' = [up EXCEPT ![p] = "down"]
  /\ mem' = [mem EXCEPT ![p] = None]
  /\ pool' = [pool EXCEPT ![p] = {}]
  /\ Done(p)
  /\ UNCHANGED <<fileVars, relayVars, fresh, made, texts, historyVars>>

------------------------------------------------------------------------------
(* Safety.                                                                   *)

\* The counters of a session name the position of its chains: the `n' of the
\* next header, and the `n' of the next envelope that needs no skipping.
CountersFollow(s) ==
  /\ s.ns \in Nat /\ s.nr \in Nat /\ s.pn \in Nat
  /\ s.cks # None => s.cks.at = s.ns
  /\ s.ckr # None => s.ckr.at = s.nr
  /\ Len(s.skipped) <= MaxKept /\ Len(s.epochs) <= MaxEpochs

TypeOK ==
  /\ up \in [Party -> {"down", "starting", "ready"}]
  /\ \A p \in Party : mem[p] # None => CountersFollow(mem[p])
  /\ \A p \in Party : disk[p] # None => CountersFollow(disk[p])
  /\ pool \in [Party -> SUBSET Nat]
  /\ poolFile \in [Party -> SUBSET Nat]
  /\ served \in [Party -> (SUBSET Nat) \cup {None}]
  /\ mail \in [Party -> Seq(1..Len(wire))]
  /\ read \in [Party -> Seq(1..Len(wire))]

ReadBy(p) == {read[p][i] : i \in 1..Len(read[p])}

Reader(id) == Peer(wire[id].from)

\* What was refused of the mail that reached a party for the first time.
FreshRefusals == {r \in refused : r[1] \notin ReadBy(Reader(r[1]))}

\* "two peers who both send their first message before receiving still converge"
\* (crypto-core.js): over a relay that keeps the order, every envelope that is
\* delivered is decrypted, whoever sends first.
AllRead == refused = {}

\* Envelopes that overtake each other cost no more than the ones whose epoch is
\* not known yet, whose session is not established yet, or a first message that
\* comes after the epoch it began: no key goes wrong, and an envelope that was
\* passed by later ones of its chain or of a later epoch is still decrypted.  An
\* envelope that is delivered again leaves the session as it was.
OnlyOrderRefuses ==
  \A r \in FreshRefusals : r[2] \in {"unknown-epoch", "no-session", "duplicate-first"}

\* No envelope is decrypted twice, however often the relay delivers it, as long as
\* no process was killed: a session file may be older than what was read.
ReadOnce ==
  crashes = 0 => \A p \in Party : \A i, j \in 1..Len(read[p]) : read[p][i] = read[p][j] => i = j

\* No message key encrypts two envelopes, whenever a process is killed and starts
\* again from its files.
NoKeyReuse ==
  \A i, j \in 1..Len(wire) : wire[i].key = wire[j].key => i = j

\* A one-time prekey opens one envelope only, also when its owner is killed after
\* it used it and the relay delivers the first message again.
PrekeyOnce ==
  \A p \in Party : \A i, j \in 1..Len(read[p]) :
    LET m == wire[read[p][i]]  n == wire[read[p][j]] IN
    (m.first /\ n.first /\ m.otk # None /\ m.otk = n.otk) => i = j

\* "the relay replaces the pool wholesale on re-publish, so this is safe and
\* self-healing" (identity.js): a first message is refused for its prekey only
\* when somebody used that prekey.
UnusedPrekeysOpen ==
  \A r \in refused : r[2] = "no-prekey" => wire[r[1]].otk \in spent

\* "a crash after the send must not leave a session that re-flags as `first' on
\* restore (the receiver would reject the duplicate and stall)" (client.js): no
\* first message reaches a peer that already has a receiving chain.
NoRefusedFirst == \A r \in FreshRefusals : r[2] # "duplicate-first"

\* "firstBuilt ... is only ever persisted after the envelope was handed to the
\* transport" (crypto-core.js).
PersistedWasSent ==
  \A p \in Party : (disk[p] # None /\ disk[p].firstBuilt) =>
      \E i \in 1..Len(wire) : wire[i].from = p /\ wire[i].first

\* A first message and its receipt for each text at most.
MaxIds == 2 * MaxTexts + 2

=============================================================================
