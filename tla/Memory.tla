------------------------------- MODULE Memory -------------------------------
(***************************************************************************)
(* The client-side memory: the CLI's client of a Hindsight daemon           *)
(* (src/memory.js), the dashboard's adapter (public/memory.js) and the      *)
(* loopback sidecar between the latter and the daemon                       *)
(* (tools/memory-sidecar.mjs).  The daemon itself is external: a bank is    *)
(* the set of memories it holds, an asynchronous retain is indexed later,   *)
(* and which memory a recall ranks first is a choice.  Texts are numbers;   *)
(* a call is an HTTP request on its way, which may fail with or without     *)
(* having had its effect.                                                   *)
(***************************************************************************)
EXTENDS Naturals, FiniteSets

CONSTANTS Cli, Dashboards,  \* the users, by the client they run
          Peers,            \* whom each user talks to
          Tenants,          \* bound: the users whose bank the tooling makes and deletes
          SPAWN_DAEMON,     \* ~MEMORY_NO_SPAWN
          MaxTexts,         \* bound: texts sent or received
          MaxDeletes        \* bound: deletions of banks

VARIABLES banks,     \* the daemon: bank id -> [life, items, template]
          indexing,  \* the daemon: accepted by an asynchronous retain, not searchable yet
          daemon,    \* [state, by]: down, starting or up, and who started it
          sidecar,   \* [phase, healthy, spawned]: main(), daemonHealthy, spawnedByUs
          on,        \* the users whose client has memory
          calls,     \* requests on their way
          texts,     \* the number of texts so far
          hints      \* history: [user, peer, item], the hints shown

vars == <<banks, indexing, daemon, sidecar, on, calls, texts, hints>>
daemonSide == <<banks, indexing>>
clientSide == <<on, calls, texts, hints>>

Users == Cli \cup Dashboards
Item == [text : 1 .. MaxTexts, user : Users, peer : Peers]
Call == [op : {"retain", "recall", "put", "import", "delete"}, user : Users, peer : Peers,
         text : 0 .. MaxTexts, wait : BOOLEAN, then : BOOLEAN, sure : 0 .. MaxDeletes + 1]

TypeOK ==
    /\ banks \in [Users -> [life : 1 .. MaxDeletes + 1, items : SUBSET Item, template : BOOLEAN]]
    /\ indexing \subseteq Users \X Item
    /\ daemon \in [state : {"down", "starting", "up"}, by : {"sidecar", "other"}]
    /\ sidecar \in [phase : {"probing", "waiting", "serving", "stopped", "exited", "failed"},
                    healthy : BOOLEAN, spawned : BOOLEAN]
    /\ on \subseteq Users
    /\ calls \subseteq Call
    /\ texts \in 0 .. MaxTexts
    /\ hints \subseteq [user : Users, peer : Peers, item : Item]

Init ==
    /\ banks = [u \in Users |-> [life |-> 1, items |-> {}, template |-> FALSE]]
    /\ indexing = {}
    /\ daemon \in [state : {"down", "up"}, by : {"other"}]
    /\ sidecar = [phase |-> "probing", healthy |-> FALSE, spawned |-> FALSE]
    /\ on = Cli
    /\ calls = {}
    /\ texts = 0
    /\ hints = {}
-----------------------------------------------------------------------------
(* Mutant: one bank for everybody. *)
BankOfAnyone(u) == CHOOSE v \in Users : TRUE
(* The bank id is derived from the user's own address: distinct for distinct users. *)
BankOf(u) == u

RetainCall(u, p, n, wait, then) ==
    [op |-> "retain", user |-> u, peer |-> p, text |-> n, wait |-> wait, then |-> then, sure |-> 0]
RecallCall(u, p, n, sure) ==
    [op |-> "recall", user |-> u, peer |-> p, text |-> n, wait |-> TRUE, then |-> FALSE, sure |-> sure]
BankCall(op, u, then) ==
    [op |-> op, user |-> u, peer |-> CHOOSE p \in Peers : TRUE, text |-> 0, wait |-> TRUE,
     then |-> then, sure |-> 0]

(* A text is sent: retained, and not waited for. *)
Sent(u, p) ==
    /\ texts < MaxTexts
    /\ texts' = texts + 1
    /\ calls' = IF u \in on THEN calls \cup {RetainCall(u, p, texts + 1, FALSE, FALSE)} ELSE calls
    /\ UNCHANGED <<daemonSide, daemon, sidecar, on, hints>>

(* Mutant: the dashboard does not ask the daemon to wait. *)
ReceivedUnwaited(u, p, n) ==
    IF u \in Cli THEN {RetainCall(u, p, n, FALSE, FALSE), RecallCall(u, p, n, 0)}
                 ELSE {RetainCall(u, p, n, FALSE, TRUE)}
(* The CLI retains and recalls at once; the dashboard recalls after a retain that waits. *)
CallsOfReceived(u, p, n) ==
    IF u \in Cli THEN {RetainCall(u, p, n, FALSE, FALSE), RecallCall(u, p, n, 0)}
                 ELSE {RetainCall(u, p, n, TRUE, TRUE)}

Received(u, p) ==
    /\ texts < MaxTexts
    /\ texts' = texts + 1
    /\ calls' = IF u \in on THEN calls \cup CallsOfReceived(u, p, texts + 1) ELSE calls
    /\ UNCHANGED <<daemonSide, daemon, sidecar, on, hints>>

(* initMemory: a dashboard's memory is on once the sidecar answered, whatever the daemon. *)
InitMemory(u) ==
    /\ u \notin on
    /\ sidecar.phase = "serving"
    /\ on' = on \cup {u}
    /\ calls' = calls \cup {BankCall("put", u, FALSE)}
    /\ sidecar' = [sidecar EXCEPT !.healthy = daemon.state = "up"]
    /\ UNCHANGED <<daemonSide, daemon, texts, hints>>

(* The tenant tooling provisions a bank from a template, and deletes it. *)
EnsureBank(u) ==
    /\ BankCall("put", u, TRUE) \notin calls /\ BankCall("import", u, FALSE) \notin calls
    /\ ~ banks[BankOf(u)].template
    /\ calls' = calls \cup {BankCall("put", u, TRUE)}
    /\ UNCHANGED <<daemonSide, daemon, sidecar, on, texts, hints>>

DeleteBank(u) ==
    /\ banks[BankOf(u)].life + Cardinality({c \in calls : c.op = "delete" /\ c.user = u}) <= MaxDeletes
    /\ calls' = calls \cup {BankCall("delete", u, FALSE)}
    /\ UNCHANGED <<daemonSide, daemon, sidecar, on, texts, hints>>
-----------------------------------------------------------------------------
(* Calls.  The tooling and the CLI speak to the daemon, a dashboard through  *)
(* the sidecar, which answers 503 unless the daemon was healthy once.        *)
ThroughSidecar(c) == c.user \in Dashboards /\ c.op \in {"retain", "recall"}

Reached(c) ==
    /\ daemon.state = "up"
    /\ ThroughSidecar(c) => sidecar.phase = "serving"

(* Passing the sidecar sets daemonHealthy, which stays set. *)
SidecarAfter(c) ==
    IF ThroughSidecar(c) /\ sidecar.phase = "serving"
    THEN [sidecar EXCEPT !.healthy = @ \/ daemon.state = "up"] ELSE sidecar

ItemOf(c) == [text |-> c.text, user |-> c.user, peer |-> c.peer]

Dropped(bank) == [life |-> bank.life + 1, items |-> {}, template |-> FALSE]

(* What the daemon does for a call. *)
Effect(c) ==
    LET b == BankOf(c.user) IN
    /\ banks' = CASE c.op = "retain" /\ c.wait -> [banks EXCEPT ![b].items = @ \cup {ItemOf(c)}]
                  [] c.op = "import" -> [banks EXCEPT ![b].template = TRUE]
                  [] c.op = "delete" -> [banks EXCEPT ![b] = Dropped(@)]
                  [] OTHER -> banks
    /\ indexing' = IF c.op = "retain" /\ ~ c.wait THEN indexing \cup {<<b, ItemOf(c)>>} ELSE indexing

(* What the client does next.  A retain never rejects, so the recall chained to it is made even
   when it failed; ensureBank imports the template only if the bank was created. *)
FollowUp(c, ok) ==
    CASE c.op = "retain" /\ c.then ->
            {RecallCall(c.user, c.peer, c.text,
                        IF ok THEN banks[BankOf(c.user)].life ELSE 0)}
      [] c.op = "put" /\ c.then /\ ok -> {BankCall("import", c.user, FALSE)}
      [] OTHER -> {}

(* The best result, if there is one, becomes a hint in the conversation of the text. *)
Hinted(c) ==
    IF c.op # "recall" \/ banks[BankOf(c.user)].items = {} THEN hints' = hints
    ELSE \E i \in banks[BankOf(c.user)].items :
            hints' = hints \cup {[user |-> c.user, peer |-> c.peer, item |-> i]}

Succeeds(c) ==
    /\ Reached(c)
    /\ Effect(c)
    /\ Hinted(c)
    /\ calls' = (calls \ {c}) \cup FollowUp(c, TRUE)
    /\ sidecar' = SidecarAfter(c)
    /\ UNCHANGED <<daemon, on, texts>>

(* A refusal, a timeout or a broken connection: the client cannot tell whether it took effect. *)
Fails(c) ==
    /\ \/ Reached(c) /\ Effect(c)
       \/ UNCHANGED daemonSide
    /\ calls' = (calls \ {c}) \cup FollowUp(c, FALSE)
    /\ sidecar' = SidecarAfter(c)
    /\ UNCHANGED <<daemon, on, texts, hints>>

(* External: the daemon indexes what it accepted. *)
Index(e) ==
    /\ daemon.state = "up"
    /\ indexing' = indexing \ {e}
    /\ banks' = [banks EXCEPT ![e[1]].items = @ \cup {e[2]}]
    /\ UNCHANGED <<daemon, sidecar, clientSide>>
-----------------------------------------------------------------------------
(* The sidecar's life. *)

(* Mutant: spawnedByUs is set when the daemon has become healthy. *)
SpawnedOnceHealthy == [phase |-> "waiting", healthy |-> FALSE, spawned |-> FALSE]
Spawned == [phase |-> "waiting", healthy |-> FALSE, spawned |-> TRUE]

(* server.listen: a taken port is an 'error' nobody listens for, and ends the sidecar. *)
Serving(healthy, spawned) ==
    \E phase \in {"serving", "failed"} :
        sidecar' = [phase |-> phase, healthy |-> healthy, spawned |-> spawned]

(* main: a healthy daemon is reused; otherwise one is spawned, unless its profile cannot be made,
   or the sidecar serves without. *)
Main ==
    /\ sidecar.phase = "probing"
    /\ \/ daemon.state = "up" /\ Serving(TRUE, FALSE) /\ UNCHANGED daemon
       \/ /\ daemon.state # "up" /\ SPAWN_DAEMON
          /\ \/ sidecar' = Spawned /\ daemon' = [state |-> "starting", by |-> "sidecar"]
             \/ sidecar' = [sidecar EXCEPT !.phase = "failed"] /\ UNCHANGED daemon
       \/ daemon.state # "up" /\ ~ SPAWN_DAEMON /\ Serving(FALSE, FALSE) /\ UNCHANGED daemon
    /\ UNCHANGED <<daemonSide, clientSide>>

(* spawnDaemon's loop: the health check succeeds, or READY_TIMEOUT_MS is over and main fails,
   which leaves what was spawned to itself. *)
Wait ==
    /\ sidecar.phase = "waiting"
    /\ \/ daemon.state = "up" /\ Serving(TRUE, sidecar.spawned)
       \/ daemon.state # "up" /\ sidecar' = [sidecar EXCEPT !.phase = "failed"]
    /\ UNCHANGED <<daemonSide, daemon, clientSide>>

(* SIGINT or SIGTERM at any of its awaits: stopDaemon, then exit.  How `daemon stop' ended is
   not looked at: the daemon may go on, all the more if it is still starting. *)
Signal ==
    /\ sidecar.phase \in {"probing", "waiting", "serving"}
    /\ sidecar' = [sidecar EXCEPT !.phase = IF sidecar.spawned THEN "stopped" ELSE "exited"]
    /\ \/ sidecar.spawned /\ daemon' = [daemon EXCEPT !.state = "down"]
       \/ UNCHANGED daemon
    /\ UNCHANGED <<daemonSide, clientSide>>

(* External: a daemon that was spawned comes up, or dies; somebody else starts one. *)
DaemonTurns ==
    /\ \/ daemon.state = "starting" /\ daemon' = [daemon EXCEPT !.state = "up"]
       \/ daemon.state # "down" /\ daemon' = [daemon EXCEPT !.state = "down"]
       \/ daemon.state = "down" /\ daemon' = [state |-> "up", by |-> "other"]
    /\ UNCHANGED <<daemonSide, sidecar, clientSide>>
-----------------------------------------------------------------------------
Next ==
    \/ \E u \in Users, p \in Peers : Sent(u, p) \/ Received(u, p)
    \/ \E u \in Dashboards : InitMemory(u)
    \/ \E u \in Tenants : EnsureBank(u) \/ DeleteBank(u)
    \/ \E c \in calls : Succeeds(c) \/ Fails(c)
    \/ \E e \in indexing : Index(e)
    \/ Main \/ Wait \/ Signal \/ DaemonTurns

Spec == Init /\ [][Next]_vars
-----------------------------------------------------------------------------
(* A hint shown to a user was retained by that user: the banks of two identities do not mix,
   whoever shares the daemon and the sidecar. *)
OwnMemories == \A h \in hints : h.item.user = h.user

(* The recall a dashboard makes after its retain was acknowledged finds what was retained,
   unless the bank was deleted since (public/index.html:4682, "so the chained recall below sees
   it indexed"). *)
SeesItIndexed ==
    \A c \in calls : c.op = "recall" /\ c.sure = banks[BankOf(c.user)].life =>
        ItemOf(c) \in banks[BankOf(c.user)].items

(* A sidecar that a signal ends has asked the daemon it started to stop, whether that daemon
   runs or is still starting: without having asked it leaves none.  Whether the daemon obeyed is
   not its concern, and a sidecar that fails asks nobody. *)
StopsItsOwn == sidecar.phase = "exited" => ~ (daemon.by = "sidecar" /\ daemon.state # "down")

(* src/memory.js:24: `a memory from another session can never match'.  The clients retain without
   tags and recall without a filter: a hint may come from the conversation with another peer. *)
HintsOfSession == \A h \in hints : h.item.peer = h.peer
=============================================================================
