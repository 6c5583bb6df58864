------------------------------- MODULE Keyfile -------------------------------
(***************************************************************************)
(* The identity and the sessions of the command line on disk               *)
(* (src/identity.js, sessions.js), used by the client and by the one-shot  *)
(* commands of src/index.js, which run beside it.  Each file is written in *)
(* place: truncated, then filled, and a kill may come between.  A prekey   *)
(* is <<pool it was generated in, number>>; pool 0 is one of an older      *)
(* build, without signatures.                                              *)
(***************************************************************************)
EXTENDS Naturals, FiniteSets

CONSTANTS
  Proc,       \* the processes: the client and perhaps a command
  client,     \* the one that publishes and uses up prekeys
  PoolSize,   \* prekeys of a full pool
  MaxMade     \* bound: pools generated, by any process

VARIABLES
  keyfile,    \* [kind, id, gen, pool]
  sessfile,   \* the identity the session file is sealed for, or NoId or Torn
  proc,       \* per process: where it is, the keys it holds and its sessions
  published,  \* the prekeys the relay offers
  made,       \* pools generated so far; a new identity is named by its first
  opened,     \* history: offered prekeys that were used
  overlap     \* history: two processes were between reading and writing at once

vars == <<keyfile, sessfile, proc, published, made, opened, overlap>>

NoId == 0
Torn == 100
Kinds == {"absent", "torn", "v3", "v4", "v5", "v6"}

\* An identity and its pool: what is in memory, and in a whole file.
Keys == [id : 0..(MaxMade + 1), pool : SUBSET ((0..(MaxMade + 1)) \X (1..PoolSize))]
NoKeys == [id |-> NoId, pool |-> {}]
Fresh(gen) == {gen} \X (1..PoolSize)

Down == [pc |-> "start", keys |-> NoKeys, sessions |-> NoId]

TypeOK ==
  /\ keyfile \in [kind : Kinds, keys : Keys]
  /\ sessfile \in 0..(MaxMade + 1) \cup {Torn}
  /\ proc \in [Proc -> [pc : {"start", "write", "writing", "ready", "saving", "exited"},
                        keys : Keys, sessions : 0..(MaxMade + 1)]]
  /\ published \subseteq (0..(MaxMade + 1)) \X (1..PoolSize)

\* An identity of an older build, or none.
Init ==
  /\ \E kind \in Kinds \ {"torn"}, gen \in {0, 1} :
       keyfile = [kind |-> kind,
                  keys |-> IF kind = "absent" THEN NoKeys
                           ELSE [id |-> 1, pool |-> IF kind = "v6" THEN Fresh(gen) ELSE {}]]
  /\ sessfile = NoId /\ proc = [p \in Proc |-> Down]
  /\ published = {} /\ made = 1 /\ opened = {} /\ overlap = FALSE

Between(p) == proc[p].pc \in {"write", "writing"}
Goes(p, pc) == proc' = [proc EXCEPT ![p].pc = pc]

---------------------------------------------------------------------------
(* loadOrCreateIdentity.                                                   *)

\* Files that are not an identity of today or of a build that can be migrated.
Unreadable == keyfile.kind \in {"torn", "v3"}

\* Mutant: a torn or old file counts as none.
MadeAnew == keyfile.kind \in {"absent", "torn", "v3"}

Created == keyfile.kind = "absent"

\* The identity: a new one only where there is no file.
Loaded == IF Created THEN made + 1 ELSE keyfile.keys.id

\* Mutant: only a pool that is too small is replaced, signed or not.
OnlyTopsUp == Cardinality(keyfile.keys.pool) < PoolSize

\* A pool that is short, or has a prekey without a signature, is replaced whole.
Unpublishable ==
  Cardinality(keyfile.keys.pool) < PoolSize \/ \E k \in keyfile.keys.pool : k[1] = 0

\* Mutant: a new identity is kept in memory.
OnlyPools == ~Created /\ Unpublishable

MustWrite == Created \/ Unpublishable

\* loadSessions(): what is not sealed for this identity is as good as absent.
Restored(id) == IF sessfile = id THEN id ELSE NoId

\* One process reads the file; it will write one if the identity or the pool is new.
Start(p) ==
  /\ proc[p].pc = "start"
  /\ IF Unreadable /\ ~Created
     THEN Goes(p, "exited") /\ UNCHANGED <<made, overlap>>
     ELSE LET id == Loaded IN
          IF MustWrite
          THEN /\ made <= MaxMade /\ made' = made + 1
               /\ proc' = [proc EXCEPT ![p] = [pc |-> "write", sessions |-> Restored(id),
                             keys |-> [id |-> id, pool |-> Fresh(made + 1)]]]
               /\ overlap' = (overlap \/ \E q \in Proc \ {p} : Between(q))
          ELSE /\ proc' = [proc EXCEPT ![p] = [pc |-> "ready", sessions |-> Restored(id),
                             keys |-> [id |-> id, pool |-> keyfile.keys.pool]]]
               /\ UNCHANGED <<made, overlap>>
  /\ UNCHANGED <<keyfile, sessfile, published, opened>>

\* writeKeyfile(): writeFileSync truncates and fills.
Truncate(p) ==
  /\ proc[p].pc = "write"
  /\ keyfile' = [kind |-> "torn", keys |-> keyfile.keys]
  /\ Goes(p, "writing")
  /\ UNCHANGED <<sessfile, published, made, opened, overlap>>

Fill(p) ==
  /\ proc[p].pc = "writing"
  /\ keyfile' = [kind |-> "v6", keys |-> proc[p].keys]
  /\ Goes(p, "ready")
  /\ UNCHANGED <<sessfile, published, made, opened, overlap>>

---------------------------------------------------------------------------
(* The client.                                                             *)

\* The pool is published as it is in memory.
Publish ==
  /\ proc[client].pc = "ready"
  /\ published' = proc[client].keys.pool
  /\ UNCHANGED <<keyfile, sessfile, proc, made, opened, overlap>>

\* A first message used an offered prekey: it leaves the pool, then the file.
Burn(k) ==
  /\ proc[client].pc = "ready" /\ k \in published \cap proc[client].keys.pool
  /\ proc' = [proc EXCEPT ![client].keys.pool = @ \ {k}, ![client].pc = "write",
                          ![client].sessions = proc[client].keys.id]
  /\ published' = published \ {k} /\ opened' = opened \cup {k}
  /\ overlap' = (overlap \/ \E q \in Proc \ {client} : Between(q))
  /\ UNCHANGED <<keyfile, sessfile, made>>

\* saveSessions(): truncated, then filled.
SaveSessions ==
  /\ \/ /\ proc[client].pc = "ready" /\ proc[client].sessions # NoId
        /\ sessfile' = Torn /\ Goes(client, "saving")
     \/ /\ proc[client].pc = "saving"
        /\ sessfile' = proc[client].sessions /\ Goes(client, "ready")
  /\ UNCHANGED <<keyfile, published, made, opened, overlap>>

\* A process ends, by itself or killed wherever it is; it may be started again.
Stop(p) ==
  /\ proc[p].pc # "start"
  /\ proc' = [proc EXCEPT ![p] = Down]
  /\ UNCHANGED <<keyfile, sessfile, published, made, opened, overlap>>

Next ==
  \/ \E p \in Proc : Start(p) \/ Truncate(p) \/ Fill(p) \/ Stop(p)
  \/ Publish \/ (\E k \in published : Burn(k)) \/ SaveSessions

Spec == Init /\ [][Next]_vars

---------------------------------------------------------------------------
(* Properties.                                                             *)

\* "Fail loudly rather than silently replacing keys" (src/identity.js): over
\* migrations, kills in the middle of a write, and a command beside the client,
\* the file never comes to hold another identity than the one it had or lost.
\* Two processes that create it at the same time are the exception.
AddressKept ==
  [][((keyfile.keys.id # NoId /\ ~overlap) => keyfile'.keys.id = keyfile.keys.id)]_vars

\* A process runs under the identity of the file, with the sessions of that
\* identity, unless two were writing the file at once.
RunsAsStored ==
  \A p \in Proc : (proc[p].pc = "ready" /\ ~overlap) =>
    /\ keyfile.keys.id = proc[p].keys.id
    /\ proc[p].sessions \in {NoId, keyfile.keys.id}

\* "the relay verifies every one-time prekey on publish" (src/identity.js): what
\* is offered is signed, and the client can open it unless its pool was replaced,
\* as a whole, since.
OfferedOpens ==
  /\ \A k \in published : k[1] # 0
  /\ (proc[client].pc = "ready" /\ ~overlap) =>
       \A k \in published : k \in proc[client].keys.pool
                             \/ \A j \in proc[client].keys.pool : j[1] > k[1]

\* A kill never costs the identity: a process can be started again.
KillKeepsIdentity == \A p \in Proc : proc[p].pc = "exited" => keyfile.kind = "v3"

=============================================================================
