-------------------------------- MODULE Boot --------------------------------
(***************************************************************************)
(* How the page gets ready: the single-flight gate (public/boot-probe.js), *)
(* the scripts it loads late (public/browser-crypto.js, loadPQ in          *)
(* public/crypto-core.js), and what needs them - the bootstrap of          *)
(* public/index.html, rotation, the import of an identity vault            *)
(* (public/vault-core.js) and the messages the relay delivers meanwhile.   *)
(***************************************************************************)
EXTENDS Naturals, FiniteSets

CONSTANTS
  Caller,       \* whoever awaits the gate: the idle callback, a click
  Stored,       \* the identities a visit may find in localStorage
  MaxReloads    \* bound: reloads of the page

VARIABLES
  net,          \* the server of the scripts answers
  store,        \* localStorage
  gate,         \* "idle", or the step of the one bootstrap in flight, or "ready"
  waiting,      \* callers awaiting that bootstrap
  told,         \* what each caller was told last
  sodium,       \* libsodium is bound
  pq,           \* the ML-KEM and ML-DSA modules
  page,         \* the identity, the owner of the sessions and the socket in memory
  import,       \* an identity vault being restored
  clean,        \* the server has answered since this bootstrap started
  arrived,      \* what became of the last message delivered
  found,        \* the identity the last bootstrap found
  reloads

vars == <<net, store, gate, waiting, told, sodium, pq, page, import, clean, arrived, found, reloads>>

\* Identities: the first one here, the vault's, a rotated one; older formats.
Current == {"own", "vault", "fresh"}
Nobody == "none"
Identities == Current \cup {Nobody, "v3", "v4"}

\* What localStorage keeps: the identity and whether its pool is full, the
\* identity whose signed bundle is cached and the one whose key seals the sessions.
Store(id, full, bundle, sessions) == [id |-> id, full |-> full, bundle |-> bundle, sessions |-> sessions]
NoPage == [id |-> Nobody, sessions |-> Nobody, ws |-> "none"]

TypeOK ==
  /\ net \in BOOLEAN /\ sodium \in {"none", "bound", "failed"} /\ clean \in BOOLEAN
  /\ store \in [id : Identities, full : BOOLEAN, bundle : Identities, sessions : Identities]
  /\ gate \in {"idle", "sodium", "identity", "generate", "top-up", "connect", "ready"}
  /\ waiting \subseteq Caller /\ told \in [Caller -> {"nothing", "ready", "failed"}]
  /\ pq \in {"none", "loading", "bound", "failed"}
  /\ page \in [id : Identities, sessions : Identities, ws : {"none", "dialled", "registered"}]
  /\ import \in {"none", "topping-up", "rotating"} /\ arrived \in {"none", "read", "refused"}
  /\ found \in Identities /\ reloads \in 0..MaxReloads

Init ==
  /\ net = TRUE /\ clean = TRUE
  /\ store = Store(Nobody, FALSE, Nobody, Nobody)
  /\ gate = "idle" /\ waiting = {} /\ told = [c \in Caller |-> "nothing"]
  /\ sodium = "none" /\ pq = "none" /\ page = NoPage /\ import = "none"
  /\ arrived = "none" /\ found = Nobody /\ reloads = 0

\* The visitor's earlier visits left an identity behind.
Visit ==
  /\ reloads = 0 /\ gate = "idle" /\ store.id = Nobody /\ page.id = Nobody
  /\ \E id \in Stored, full \in BOOLEAN :
       \E bundle, sessions \in {Nobody, id} : store' = Store(id, full, bundle, sessions)
  /\ reloads' = 1
  /\ UNCHANGED <<net, gate, waiting, told, sodium, pq, page, import, clean, arrived, found>>

---------------------------------------------------------------------------
(* The gate.                                                               *)

\* ensure(): the first caller starts the bootstrap, the others join it.
Await(c) ==
  /\ c \notin waiting
  /\ IF gate = "ready" THEN told' = [told EXCEPT ![c] = "ready"] /\ UNCHANGED <<gate, waiting, clean>>
     ELSE /\ waiting' = waiting \cup {c}
          /\ IF gate = "idle" THEN gate' = "sodium" /\ clean' = net ELSE UNCHANGED <<gate, clean>>
          /\ UNCHANGED told
  /\ UNCHANGED <<net, store, sodium, pq, page, import, arrived, found, reloads>>

Tell(outcome) ==
  /\ told' = [c \in Caller |-> IF c \in waiting THEN outcome ELSE told[c]]
  /\ waiting' = {}

\* Mutant: a rejection is kept, like a resolution.
KeptRejection == gate' = "ready" /\ Tell("failed")

\* The rejection resets the promise: the next caller starts over.
Rejected == gate' = "idle" /\ Tell("failed")

Resolved == gate' = "ready" /\ Tell("ready")
Go(step) == gate' = step /\ UNCHANGED <<told, waiting>>

---------------------------------------------------------------------------
(* The late scripts.                                                       *)

\* Mutant: the promise of a script that did not load is kept.
KeptFailure == "failed"

\* The promise is reset when a script does not load.
AfterFailure == "none"

\* loadSodium().
LoadSodium ==
  /\ gate = "sodium"
  /\ IF sodium = "bound" \/ (sodium = "none" /\ net)
     THEN sodium' = "bound" /\ Go("identity")
     ELSE sodium' = AfterFailure /\ Rejected
  /\ UNCHANGED <<net, store, pq, page, import, clean, arrived, found, reloads>>

\* loadPQ(): the first call starts the import, and its promise is kept whatever
\* becomes of it.
NeedsPQ == gate \in {"generate", "top-up", "ready"}
loadPQ == /\ pq = "none" /\ NeedsPQ /\ pq' = "loading"
          /\ UNCHANGED <<net, store, gate, waiting, told, sodium, page, import, clean, arrived, found, reloads>>
PQSettles == /\ pq = "loading" /\ pq' = IF net THEN "bound" ELSE "failed"
             /\ UNCHANGED <<net, store, gate, waiting, told, sodium, page, import, clean, arrived, found, reloads>>
Settled == pq \in {"bound", "failed"}

---------------------------------------------------------------------------
(* startE2EE().                                                            *)

\* Mutant: an identity with a short pool is made anew.
OnlyFull == store.id \in Current /\ store.full

\* A v6 identity is kept; older formats are not read.
Usable == store.id \in Current

\* The stored identity is taken as it is, is topped up, or is made anew.
LoadIdentity ==
  /\ gate = "identity"
  /\ found' = store.id
  /\ IF Usable
     THEN page' = [page EXCEPT !.id = store.id] /\ Go(IF store.full THEN "connect" ELSE "top-up")
     ELSE Go("generate") /\ UNCHANGED page
  /\ UNCHANGED <<net, store, sodium, pq, import, clean, arrived, reloads>>

\* generateNewE2EEIdentity(): sessions and groups go with the old identity.
NewIdentity(id) == /\ store' = Store(id, TRUE, store.bundle, Nobody)
                   /\ page' = [page EXCEPT !.id = id, !.sessions = Nobody]

\* A visit with an identity of v3 is ready without having dialled the relay; one
\* of v4 loses its sessions and lacks the keys restoreIdentityFromData() decodes.
Generate ==
  /\ gate = "generate" /\ Settled
  /\ CASE pq = "failed"     -> Rejected /\ UNCHANGED <<store, page>>
       [] pq = "bound" /\ store.id = "v4"    -> /\ store' = [store EXCEPT !.sessions = Nobody]
                                               /\ page' = [page EXCEPT !.id = "v4"] /\ Rejected
       [] OTHER -> NewIdentity("own") /\ IF store.id = "v3" THEN Resolved ELSE Go("connect")
  /\ UNCHANGED <<net, sodium, pq, import, clean, arrived, found, reloads>>

TopUp ==
  /\ gate = "top-up" /\ Settled
  /\ IF pq = "failed" THEN Rejected /\ UNCHANGED store
     ELSE store' = [store EXCEPT !.full = TRUE] /\ Go("connect")
  /\ UNCHANGED <<net, sodium, pq, page, import, clean, arrived, found, reloads>>

\* The sessions open only under the key of the identity that sealed them.
Connect ==
  /\ gate = "connect"
  /\ page' = [page EXCEPT !.sessions = IF store.sessions = page.id THEN page.id ELSE @, !.ws = "dialled"]
  /\ Resolved
  /\ UNCHANGED <<net, store, sodium, pq, import, clean, arrived, found, reloads>>

\* publishToRelay() on open: a cached bundle of this identity needs no signature.
Register ==
  /\ page.ws = "dialled"
  /\ \/ store.bundle = page.id /\ page' = [page EXCEPT !.ws = "registered"] /\ UNCHANGED store
     \/ /\ store.bundle # page.id /\ pq = "bound"
        /\ store' = [store EXCEPT !.bundle = page.id] /\ page' = [page EXCEPT !.ws = "registered"]
  /\ UNCHANGED <<net, gate, waiting, told, sodium, pq, import, clean, arrived, found, reloads>>

---------------------------------------------------------------------------
(* What the page does once it is ready.                                    *)

\* ROTATE awaits the gate and the modules.
Rotate ==
  /\ gate = "ready" /\ import = "none" /\ import' = "rotating"
  /\ UNCHANGED <<net, store, gate, waiting, told, sodium, pq, page, clean, arrived, found, reloads>>

\* vaultImport(): the identity changes in memory first; a vault with a short pool
\* awaits the modules before anything is stored or cleared.
Adopt(id) == /\ store' = Store(id, TRUE, store.bundle, Nobody)
             /\ page' = [id |-> id, sessions |-> Nobody,
                         ws |-> IF page.ws = "none" THEN "none" ELSE "dialled"]
             /\ import' = "none"
ImportFull ==
  /\ gate = "ready" /\ import = "none" /\ Adopt("vault")
  /\ UNCHANGED <<net, gate, waiting, told, sodium, pq, clean, arrived, found, reloads>>
ImportShort ==
  /\ gate = "ready" /\ import = "none"
  /\ page' = [page EXCEPT !.id = "vault"] /\ import' = "topping-up"
  /\ UNCHANGED <<net, store, gate, waiting, told, sodium, pq, clean, arrived, found, reloads>>

EndImport ==
  /\ import # "none" /\ Settled
  /\ IF pq = "failed" THEN import' = "none" /\ UNCHANGED <<store, page>>
     ELSE Adopt(IF import = "rotating" THEN "fresh" ELSE "vault")
  /\ UNCHANGED <<net, gate, waiting, told, sodium, pq, clean, arrived, found, reloads>>

\* A session opened by the user: loadPQ() is awaited first, the state is saved.
OpenSession ==
  /\ gate = "ready" /\ pq = "bound" /\ page.ws = "registered" /\ import = "none"
  /\ page' = [page EXCEPT !.sessions = page.id]
  /\ store' = [store EXCEPT !.sessions = page.id]
  /\ UNCHANGED <<net, gate, waiting, told, sodium, pq, import, clean, arrived, found, reloads>>

\* The first message of a peer makes a session under the identity in memory, and
\* one under a one-time prekey burns that prekey first: the identity in memory is
\* stored with a pool that is short of it, whether or not the message is read. A
\* session whose first message is not read is dropped; the others are saved.
FirstMessage ==
  /\ pq = "bound"
  /\ \E owner \in {page.sessions, page.id} : page' = [page EXCEPT !.sessions = owner]
  /\ \E burns \in BOOLEAN :
       store' = IF burns THEN Store(page.id, FALSE, store.bundle, page.id)
                ELSE [store EXCEPT !.sessions = page.id]

\* The relay delivers once the address is registered: verifyBundle() and
\* decrypt() refuse to run before the modules are bound, and the message is gone.
\* A message of a session there is saves the sessions under the identity in
\* memory; one that is refused or unread changes nothing that is stored.
Deliver ==
  /\ page.ws = "registered"
  /\ arrived' = IF pq = "bound" THEN "read" ELSE "refused"
  /\ \/ page.sessions # Nobody /\ store' = [store EXCEPT !.sessions = page.id] /\ UNCHANGED page
     \/ pq # "bound" /\ UNCHANGED <<store, page>>
     \/ FirstMessage
  /\ UNCHANGED <<net, gate, waiting, told, sodium, pq, import, clean, found, reloads>>

---------------------------------------------------------------------------

NetFlips ==
  /\ net' = ~net /\ clean' = FALSE
  /\ UNCHANGED <<store, gate, waiting, told, sodium, pq, page, import, arrived, found, reloads>>

\* Memory goes, localStorage stays.
Reload ==
  /\ reloads < MaxReloads /\ reloads' = reloads + 1
  /\ gate' = "idle" /\ waiting' = {} /\ told' = [c \in Caller |-> "nothing"]
  /\ sodium' = "none" /\ pq' = "none" /\ page' = NoPage /\ import' = "none" /\ arrived' = "none"
  /\ UNCHANGED <<net, store, clean, found>>

Next ==
  \/ \E c \in Caller : Await(c)
  \/ Visit \/ LoadSodium \/ loadPQ \/ PQSettles
  \/ LoadIdentity \/ Generate \/ TopUp \/ Connect \/ Register
  \/ Rotate \/ ImportFull \/ ImportShort \/ EndImport \/ OpenSession \/ Deliver
  \/ NetFlips \/ Reload

Spec == Init /\ [][Next]_vars

---------------------------------------------------------------------------

\* Whoever was told the page is ready finds an identity, libsodium and, unless it
\* was an identity of v3 that had to be replaced, a relay that was dialled; and
\* nobody waits on a bootstrap that is not running.
ReadyMeansReady ==
  /\ \A c \in Caller : told[c] = "ready" => sodium = "bound" /\ page.id # Nobody /\ (page.ws # "none" \/ found = "v3")
  /\ waiting # {} => gate \notin {"idle", "ready"}

\* boot-probe.js:96-98: a failed bootstrap leaves nothing behind that makes the
\* next one fail while the server answers, unless the modules failed to load or
\* the stored identity is one of v4, which cannot be restored.
FailsForCause ==
  [][(\E c \in waiting : told'[c] = "failed" /\ c \notin waiting') => ~clean \/ pq = "failed" \/ found = "v4"]_vars

\* A bootstrap never gives up the identity or the sessions it finds: a v6 identity
\* is replaced, and its sessions dropped, only after the gate opened - by the
\* user's own rotation or import, or by a first message that stores an identity an
\* import left in memory only - and the sessions stored are sealed by the identity
\* stored beside them, unless an import has changed the identity in memory only.
KeepsIdentity ==
  [][/\ (store.id \in Current /\ store'.id # store.id) => gate = "ready"
     /\ (page.id = store.id /\ store'.sessions # store.sessions) => store'.sessions \in {Nobody, store'.id}
     /\ (store.sessions \in Current /\ store'.sessions = Nobody) => gate = "ready"]_vars

\* index.html:4651-4653, messenger.html:784-785: "PQ is already loaded here".
PQLoadedOnDelivery == arrived # "refused"

\* boot-probe.js:96-98 without the exception.
RetryReruns ==
  [][(\E c \in waiting : told'[c] = "failed" /\ c \notin waiting') => ~clean]_vars
=============================================================================
