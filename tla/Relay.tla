-------------------------------- MODULE Relay --------------------------------
(***************************************************************************)
(* The relay of src/server.js: one Node process, one event loop.  It       *)
(* registers addresses, accepts envelopes, mixes them for a window, and    *)
(* delivers each to whoever is connected or keeps it in memory until its   *)
(* owner comes back or its time to live runs out.                          *)
(*                                                                         *)
(* Every action is one callback of the event loop.  The two loops that     *)
(* resolve messages one after the other (the flush of a mix window, and    *)
(* the catch-up of a registration when mixing is off) take one step per    *)
(* message; while one of them runs, `batch' is not empty and no other      *)
(* callback can start (Idle).                                              *)
(*                                                                         *)
(* A definition marked `Mutant' is the next one with a plausible bug; the  *)
(* specification does not use it.  Each property is shown to catch one.    *)
(***************************************************************************)
EXTENDS Integers, Sequences, FiniteSets, FiniteSetsExt

CONSTANTS
  Client,         \* connections; a client that reconnects is another member
  WsClient,       \* those that are WebSocket connections, the rest are TCP
  Address,        \* routing addresses of identities
  Group,          \* other ids: group ids, or any string a message or subscription names
  None,           \* absence of a client or an address
  Traffic,        \* what senders submit: records [to, mode]
  Subscribable,   \* what connections subscribe to
  MaxSends,       \* bound: messages submitted in a behaviour
  MaxClock,       \* bound: the last tick of the clock
  MaxAwaiting,    \* bound: registrations waiting at the same time
  QueueTTL,       \* QUEUE_TTL_MS
  MaxQueue,       \* MAX_QUEUE_PER_RECIPIENT
  MaxRecipients,  \* MAX_QUEUED_RECIPIENTS
  Ephemeral,      \* EPHEMERAL: nothing is ever queued
  MixOff,         \* MIX_OFF: no mix window
  Jitter          \* MIX_JITTER_MS > 0

\* inbox and groups are Maps with any string as key: `send' and `subscribe' take an
\* address where a group id is meant and the other way round.
Recipient == Address \cup Group

Mode == {"pair", "group", "cover"}

ASSUME RelayAssumption ==
  /\ None \notin Client \cup Address
  /\ WsClient \subseteq Client
  /\ Traffic \subseteq [to : Recipient, mode : Mode]
  /\ Subscribable \subseteq Recipient
  /\ {MaxSends, MaxClock, MaxAwaiting, QueueTTL, MaxQueue, MaxRecipients} \subseteq Nat
  /\ {Ephemeral, MixOff, Jitter} \subseteq BOOLEAN

VARIABLES
  conn,       \* state of each connection's socket
  pk,         \* client.pk: the address a connection registered
  online,     \* the online map
  groups,     \* the groups map: subscribers of each id, somebody's address included
  directory,  \* whose publication the directory holds for each address
  awaiting,   \* publish handlers suspended at their await, oldest first
  inbox,      \* the inbox map: the messages kept for each recipient
  mixPool,    \* messages accepted since the last window closed
  mixTimer,   \* is the timer of the mix window armed
  batch,      \* what the running loop still has to resolve
  jittered,   \* messages whose jitter timer is pending
  now,        \* the clock
  \* History, read by the properties only.
  log,        \* every submission, in order; its index is the message's id
  acked,      \* ids whose sender was told `sent'
  lost,       \* <<id, why>> of each message the relay gave up
  wire,       \* ids written to each connection, in order
  taken       \* ids a subscription to an address took from its inbox

connVars  == <<conn, pk, online, groups, directory, awaiting>>
mailVars  == <<inbox, mixPool, mixTimer, batch, jittered>>
fateVars  == <<lost, wire, taken>>
vars == <<connVars, mailVars, fateVars, now, log, acked>>

\* A message held by the relay.  pos is its place in an inbox list; directTo is
\* the one connection a subscriber's catch-up is meant for.
Item == [id : Nat, to : Recipient, mode : Mode, ts : Nat, pos : Nat,
         directTo : Client \cup {None}]

ConnState == {"none", "open", "closing", "gone"}

Why == {"expired", "full", "ephemeral"}

TypeOK ==
  /\ conn \in [Client -> ConnState]
  /\ pk \in [Client -> Address \cup {None}]
  /\ online \in [Address -> Client \cup {None}]
  /\ groups \in [Recipient -> SUBSET Client]
  /\ directory \in [Address -> Client \cup {None}]
  /\ awaiting \in Seq(Client \X Address)
  /\ inbox \in [Recipient -> SUBSET Item]
  /\ mixPool \in SUBSET Item
  /\ mixTimer \in BOOLEAN
  /\ batch \in SUBSET Item
  /\ jittered \in SUBSET Item
  /\ now \in Nat
  /\ log \in Seq([to : Recipient, mode : Mode, ts : Nat])
  /\ acked \in SUBSET Nat
  /\ lost \in SUBSET (Nat \X Why)
  /\ wire \in [Client -> Seq(Nat)]
  /\ taken \in SUBSET Nat

Init ==
  /\ conn = [c \in Client |-> "none"]
  /\ pk = [c \in Client |-> None]
  /\ online = [a \in Address |-> None]
  /\ groups = [r \in Recipient |-> {}]
  /\ directory = [a \in Address |-> None]
  /\ awaiting = <<>>
  /\ inbox = [r \in Recipient |-> {}]
  /\ mixPool = {}
  /\ mixTimer = FALSE
  /\ batch = {}
  /\ jittered = {}
  /\ now = 0
  /\ log = <<>>
  /\ acked = {}
  /\ lost = {}
  /\ wire = [c \in Client |-> <<>>]
  /\ taken = {}

------------------------------------------------------------------------------
(* Resolving one message.                                                   *)

\* No callback is in the middle of a loop over messages.
Idle == batch = {}

IsAlive(c) == c # None /\ conn[c] = "open"

\* The handler of a line can run: a WebSocket that is closing still emits the
\* frames that arrive before the close completes, a destroyed TCP socket does not.
CanSpeak(c) == conn[c] = "open" \/ (conn[c] = "closing" /\ c \in WsClient)

Expired(ts) == now - ts > QueueTTL

\* Mutant: every live connection.
Broadcast(item) == {c \in Client : IsAlive(c)}

\* The live connections deliverMixed writes a message to.
Targets(item) ==
  {c \in Client :
     /\ IsAlive(c)
     /\ IF item.directTo # None THEN c = item.directTo
        ELSE IF item.mode = "group" THEN c \in groups[item.to]
        ELSE item.to \in Address /\ c = online[item.to]}

Queued == {r \in Recipient : inbox[r] # {}}

\* The place behind the last entry of r's list.
NextPos(r) == IF inbox[r] = {} THEN 1 ELSE 1 + Max({it.pos : it \in inbox[r]})

\* Mutant: only the length of the list is checked.
RefusalByLength(r) ==
  IF Ephemeral THEN {"ephemeral"}
  ELSE IF Cardinality(inbox[r]) >= MaxQueue THEN {"full"} ELSE {}

\* Why queueMessage would refuse a message for r, if it would.
Refusal(r) ==
  IF Ephemeral THEN {"ephemeral"}
  ELSE IF Cardinality(inbox[r]) >= MaxQueue
          \/ (inbox[r] = {} /\ Cardinality(Queued) >= MaxRecipients)
  THEN {"full"}
  ELSE {}

Lose(id, why) == lost' = lost \cup {<<id, why>>}

\* Mutant: a refused message is forgotten without a trace.
QueueOrForget(item) ==
  /\ inbox' = IF Refusal(item.to) # {} THEN inbox
              ELSE [inbox EXCEPT ![item.to] = @ \cup {[item EXCEPT !.directTo = None]}]
  /\ UNCHANGED lost

QueueMessage(item) ==
  \/ /\ Refusal(item.to) = {}
     /\ inbox' = [inbox EXCEPT ![item.to] = @ \cup
                   {[item EXCEPT !.pos = NextPos(item.to), !.directTo = None]}]
     /\ UNCHANGED lost
  \/ /\ \E why \in Refusal(item.to) : Lose(item.id, why)
     /\ UNCHANGED inbox

\* deliverMixed: expired, delivered to whoever is live, or (re)queued with the
\* timestamp of its acceptance.
DeliverMixed(item) ==
  \/ /\ Expired(item.ts)
     /\ Lose(item.id, "expired")
     /\ UNCHANGED <<inbox, wire>>
  \/ /\ ~Expired(item.ts)
     /\ Targets(item) # {}
     /\ wire' = [c \in Client |-> IF c \in Targets(item)
                                  THEN Append(wire[c], item.id) ELSE wire[c]]
     /\ UNCHANGED <<inbox, lost>>
  \/ /\ ~Expired(item.ts)
     /\ Targets(item) = {}
     /\ QueueMessage(item)
     /\ UNCHANGED wire

------------------------------------------------------------------------------
(* The mix window.                                                          *)

\* Mutant: the window is never scheduled.
PoolUnscheduled(items) ==
  /\ mixPool' = mixPool \cup items
  /\ UNCHANGED <<mixTimer, batch>>

\* enqueueRelay with mixing on: into the pool, and the timer armed if idle.
Pool(items) ==
  /\ mixPool' = mixPool \cup items
  /\ mixTimer' = (mixTimer \/ mixPool' # {})
  /\ UNCHANGED batch

\* The window closes: the pool is spliced out and becomes the batch.  Nothing
\* enters the pool while the batch is delivered, so the timer stays disarmed.
FlushMixBatch ==
  /\ Idle /\ mixTimer
  /\ mixTimer' = FALSE
  /\ batch' = mixPool
  /\ mixPool' = {}
  /\ UNCHANGED <<connVars, fateVars, inbox, jittered, now, log, acked>>

\* Mutant: a catch-up starts with the newest message.
NewestUp(item) ==
  /\ item \in batch
  /\ MixOff => \A other \in batch : item.pos >= other.pos

\* The next message of the running loop: any of them after the shuffle of a
\* window, the oldest entry of the list when a registration catches up unmixed.
NextUp(item) ==
  /\ item \in batch
  /\ MixOff => \A other \in batch : item.pos <= other.pos

Delayed(item) == Jitter /\ ~MixOff /\ item.mode # "group"

DeliverNext(item) ==
  /\ NextUp(item) /\ ~Delayed(item)
  /\ DeliverMixed(item)
  /\ batch' = batch \ {item}
  /\ UNCHANGED <<connVars, mixPool, mixTimer, jittered, now, log, acked, taken>>

DelayNext(item) ==
  /\ NextUp(item) /\ Delayed(item)
  /\ jittered' = jittered \cup {item}
  /\ batch' = batch \ {item}
  /\ UNCHANGED <<connVars, fateVars, inbox, mixPool, mixTimer, now, log, acked>>

\* The jitter timer of one message fires, in any order.
JitterFires(item) ==
  /\ Idle /\ item \in jittered
  /\ DeliverMixed(item)
  /\ jittered' = jittered \ {item}
  /\ UNCHANGED <<connVars, mixPool, mixTimer, batch, now, log, acked, taken>>

\* Mutant: the inbox list is read, but stays in the map.
PeekInbox(r) == UNCHANGED inbox

\* A registration or subscription takes the list of its recipient.
TakeInbox(r) == inbox' = [inbox EXCEPT ![r] = {}]

\* Mutant: the backlog is taken and not enqueued.
EnqueueNothing(items) == UNCHANGED <<mixPool, mixTimer, batch>>

\* Mutant: each message of the backlog gets the present as its timestamp.
EnqueueRestamped(items) ==
  IF MixOff THEN batch' = {[it EXCEPT !.ts = now] : it \in items} /\ UNCHANGED <<mixPool, mixTimer>>
  ELSE Pool({[it EXCEPT !.pos = 0, !.ts = now] : it \in items})

\* The backlog of a registration or subscription goes through enqueueRelay.
EnqueueBacklog(items) ==
  IF MixOff THEN batch' = items /\ UNCHANGED <<mixPool, mixTimer>>
  ELSE Pool({[it EXCEPT !.pos = 0] : it \in items})

------------------------------------------------------------------------------
(* Connections.                                                             *)

\* handleTcpSocket, or the `connection' event of the WebSocket server.
Connect(c) ==
  /\ Idle /\ conn[c] = "none"
  /\ conn' = [conn EXCEPT ![c] = "open"]
  /\ UNCHANGED <<pk, online, groups, directory, awaiting, mailVars, fateVars, now, log, acked>>

\* The socket is no longer alive: the peer vanished, or a line was too long and
\* the reader destroyed the socket (TCP) or began closing it (WebSocket).
Closing(c) ==
  /\ Idle /\ conn[c] = "open"
  /\ conn' = [conn EXCEPT ![c] = "closing"]
  /\ UNCHANGED <<pk, online, groups, directory, awaiting, mailVars, fateVars, now, log, acked>>

\* Mutant: a closed connection keeps its subscriptions.
StillSubscribed(c) == groups

Unsubscribed(c) == [r \in Recipient |-> groups[r] \ {c}]

\* The `close' event: dropClient.
DropClient(c) ==
  /\ Idle /\ conn[c] = "closing"
  /\ conn' = [conn EXCEPT ![c] = "gone"]
  /\ online' = [a \in Address |->
                  IF pk[c] = a /\ online[a] = c THEN None ELSE online[a]]
  /\ groups' = Unsubscribed(c)
  /\ UNCHANGED <<pk, directory, awaiting, mailVars, fateVars, now, log, acked>>

------------------------------------------------------------------------------
(* publish: the handler stops at `await loadPQ()' and resumes later, in the  *)
(* order of the requests, whatever became of its connection meanwhile.       *)

Publish(c, a) ==
  /\ Idle /\ CanSpeak(c)
  /\ Len(awaiting) < MaxAwaiting
  /\ awaiting' = Append(awaiting, <<c, a>>)
  /\ UNCHANGED <<conn, pk, online, groups, directory, mailVars, fateVars, now, log, acked>>

Resuming(c, a) ==
  /\ Idle /\ awaiting # <<>> /\ Head(awaiting) = <<c, a>>
  /\ awaiting' = Tail(awaiting)

\* The bundle, the address or a one-time prekey does not verify.
PublishInvalid(c, a) ==
  /\ Resuming(c, a)
  /\ UNCHANGED <<conn, pk, online, groups, directory, mailVars, fateVars, now, log, acked>>

\* Mutant: an address moves to whoever registers it last.
HeldByNobody(c, a) == FALSE

HeldByAnother(c, a) == online[a] # c /\ IsAlive(online[a])

\* Refused while another live connection holds the address; the directory entry
\* has been replaced by then.
PublishRefused(c, a) ==
  /\ Resuming(c, a)
  /\ HeldByAnother(c, a)
  /\ directory' = [directory EXCEPT ![a] = c]
  /\ UNCHANGED <<conn, pk, online, groups, mailVars, fateVars, now, log, acked>>

\* Mutant: the previous address stays mapped to the connection.
KeepBoth(c, a) == online

\* The address this connection held before, if it still holds it.
Release(c, a) ==
  [b \in Address |-> IF b = pk[c] /\ b # a /\ online[b] = c THEN None ELSE online[b]]

PublishRegistered(c, a) ==
  /\ Resuming(c, a)
  /\ ~HeldByAnother(c, a)
  /\ directory' = [directory EXCEPT ![a] = c]
  /\ pk' = [pk EXCEPT ![c] = a]
  /\ online' = [Release(c, a) EXCEPT ![a] = c]
  /\ TakeInbox(a)
  /\ EnqueueBacklog(inbox[a])
  /\ UNCHANGED <<conn, groups, jittered, fateVars, now, log, acked>>

------------------------------------------------------------------------------
(* subscribe and send.                                                       *)

Directed(items, c) == {[it EXCEPT !.directTo = c] : it \in items}

\* Any string is taken for a group id.  If it is somebody's address, the list taken is
\* that address's, pair messages included, and goes to the subscriber.
Subscribe(c, r) ==
  /\ Idle /\ CanSpeak(c)
  /\ groups' = [groups EXCEPT ![r] = @ \cup {c}]
  /\ TakeInbox(r)
  /\ EnqueueBacklog(Directed(inbox[r], c))
  /\ taken' = IF r \in Address THEN taken \cup {it.id : it \in inbox[r]} ELSE taken
  /\ UNCHANGED <<conn, pk, online, directory, awaiting, jittered, lost, wire, now, log, acked>>

\* Every submission of a plausible envelope gets the next id.
Accept(t) ==
  /\ Idle /\ Len(log) < MaxSends
  /\ \E c \in Client : CanSpeak(c)
  /\ log' = Append(log, [to |-> t.to, mode |-> t.mode, ts |-> now])

NewId == Len(log) + 1

\* Mutant: the message is not given its time of acceptance.
NewItemUndated(t) == [id |-> NewId, to |-> t.to, mode |-> t.mode, ts |-> None,
                      pos |-> 0, directTo |-> None]

NewItem(t) == [id |-> NewId, to |-> t.to, mode |-> t.mode, ts |-> now,
               pos |-> 0, directTo |-> None]

\* A cover frame is acknowledged and discarded.
SendCover(t) ==
  /\ t.mode = "cover"
  /\ Accept(t)
  /\ acked' = acked \cup {NewId}
  /\ UNCHANGED <<connVars, mailVars, fateVars, now>>

\* With mixing on the pool always accepts, and the sender is told `sent'.
SendMixed(t) ==
  /\ ~MixOff /\ t.mode # "cover"
  /\ Accept(t)
  /\ Pool({NewItem(t)})
  /\ acked' = acked \cup {NewId}
  /\ UNCHANGED <<connVars, inbox, jittered, fateVars, now>>

\* Mutant: `sent' whatever the outcome.
ToldAnyway(id) == acked \cup {id}

\* The senders told `sent' once the message was resolved.
Told(id) == IF UNCHANGED lost THEN acked \cup {id} ELSE acked

\* With mixing off the message is resolved at once; the sender is told `sent',
\* or the reason why the relay did not take it.
SendUnmixed(t) ==
  /\ MixOff /\ t.mode # "cover"
  /\ Accept(t)
  /\ DeliverMixed(NewItem(t))
  /\ acked' = Told(NewId)
  /\ UNCHANGED <<connVars, mixPool, mixTimer, batch, jittered, taken, now>>

------------------------------------------------------------------------------
(* Time.                                                                     *)

\* Date.now() moves on, also while a loop runs.
Tick ==
  /\ now < MaxClock
  /\ now' = now + 1
  /\ UNCHANGED <<connVars, mailVars, fateVars, log, acked>>

\* The hourly sweep of the inbox, when it finds something to evict.
Sweep ==
  /\ Idle
  /\ \E r \in Recipient : \E it \in inbox[r] : it.ts < now - QueueTTL
  /\ inbox' = [r \in Recipient |-> {it \in inbox[r] : it.ts >= now - QueueTTL}]
  /\ lost' = lost \cup {<<it.id, "expired">> :
                         it \in {x \in UNION {inbox[r] : r \in Recipient} :
                                 x.ts < now - QueueTTL}}
  /\ UNCHANGED <<connVars, wire, taken, mixPool, mixTimer, batch, jittered, now, log, acked>>

------------------------------------------------------------------------------

Connections ==
  \E c \in Client : Connect(c) \/ Closing(c) \/ DropClient(c)

Registrations ==
  \E c \in Client, a \in Address :
    \/ Publish(c, a)
    \/ PublishInvalid(c, a)
    \/ PublishRefused(c, a)
    \/ PublishRegistered(c, a)

Submissions ==
  \/ \E c \in Client, r \in Subscribable : Subscribe(c, r)
  \/ \E t \in Traffic : SendCover(t) \/ SendMixed(t) \/ SendUnmixed(t)

Deliveries ==
  \/ FlushMixBatch
  \/ \E item \in batch : DeliverNext(item) \/ DelayNext(item)
  \/ \E item \in jittered : JitterFires(item)

Next == Connections \/ Registrations \/ Submissions \/ Deliveries \/ Tick \/ Sweep

Spec == Init /\ [][Next]_vars

\* Timers that were armed fire, and a loop over messages runs to its end.  A jitter
\* timer waits for the loops that run meanwhile, so its fairness is strong: the event
\* loop comes back to a timer that is due however often other callbacks keep it busy.
Fairness ==
  /\ WF_vars(FlushMixBatch)
  /\ WF_vars(\E item \in batch : DeliverNext(item) \/ DelayNext(item))
  /\ \A id \in 1..MaxSends :
       SF_vars(\E item \in jittered : item.id = id /\ JitterFires(item))

FairSpec == Spec /\ Fairness

------------------------------------------------------------------------------
(* Where a message is.                                                       *)

Ids(items) == {it.id : it \in items}

OnWire(c) == {wire[c][i] : i \in 1..Len(wire[c])}

Place == {"inbox", "pool", "batch", "jitter", "wire", "lost"}

\* The ids of the messages that are at place p.
At(p) ==
  CASE p = "inbox"  -> UNION {Ids(inbox[r]) : r \in Recipient}
    [] p = "pool"   -> Ids(mixPool)
    [] p = "batch"  -> Ids(batch)
    [] p = "jitter" -> Ids(jittered)
    [] p = "wire"   -> UNION {OnWire(c) : c \in Client}
    [] p = "lost"   -> {l[1] : l \in lost}

Settled(id) == id \in At("wire") \cup At("lost")

LiveOwner(a) == IsAlive(online[a])

------------------------------------------------------------------------------
(* Safety.                                                                   *)

\* Every message a sender submitted is at exactly one place: kept for its
\* recipient, in the mix window, written to a connection, or given up for a
\* reason.  A cover frame is at none.  (enqueueRelay, flushMixBatch,
\* deliverMixed and the two catch-ups move messages between four containers.)
Conservation ==
  \A id \in 1..Len(log) :
    IF log[id].mode = "cover" THEN \A p \in Place : id \notin At(p)
    ELSE \E p \in Place : /\ id \in At(p)
                          /\ \A q \in Place : id \in At(q) => q = p

\* No message is written twice to a connection, and a pair message is written
\* to one connection only, however often it went back and forth between the
\* inbox and the mix window.
AtMostOnce ==
  \A c, d \in Client : \A i \in 1..Len(wire[c]), j \in 1..Len(wire[d]) :
    wire[c][i] = wire[d][j] =>
      \/ c = d /\ i = j
      \/ c # d /\ log[wire[c][i]].mode = "group"

\* The online map and client.pk agree: a connection is found under one address
\* only, the one it registered last (publish releases the previous one).
OnlineMatchesPk ==
  \A a \in Address : online[a] # None => pk[online[a]] = a

\* While the owner of an address is connected, none of its pair messages waits
\* in the inbox, where only the next registration would find it, except those that a
\* subscription to the very address once took: if the subscriber is gone when they
\* come up, deliverMixed puts them back whoever is connected by then.
NoMailStranded ==
  \A a \in Address : LiveOwner(a) =>
    \A it \in inbox[a] : it.mode = "pair" => it.id \in taken

\* The timer of the mix window is armed exactly while the pool holds something:
\* no message can sit in a pool that nothing will flush.
WindowArmed == mixTimer <=> mixPool # {}

\* The memory the relay spends on absent recipients is bounded: in messages per
\* recipient, and in recipients.
QueuesBounded ==
  /\ \A r \in Recipient : Cardinality(inbox[r]) <= MaxQueue
  /\ Cardinality(Queued) <= MaxRecipients

\* No fan-out set holds a connection whose close handler has run.
NoGoneSubscriber ==
  \A r \in Recipient : \A c \in groups[r] : conn[c] # "gone"

\* "so stale entries never accumulate and the genuine owner is never locked out
\* by a stale mapping" (publish in server.js): no address maps to a connection
\* whose close handler has run.
NoGoneOwner ==
  \A a \in Address : online[a] # None => conn[online[a]] # "gone"

\* A message whose sender was told `sent' is not given up for want of room:
\* it reaches the recipient's connection or inbox, or outlives its TTL there.
AckedIsKept == \A id \in acked : <<id, "full">> \notin lost

\* The two together, with mixing off: what the relay keeps for absent recipients is
\* bounded, and yet nothing it acknowledged is given up for want of room.
AckedFits == QueuesBounded /\ AckedIsKept

\* The relay is FIFO: the pair messages for one address reach a connection in
\* the order in which the relay accepted them.
Fifo ==
  \A c \in Client : \A i, j \in 1..Len(wire[c]) :
    LET m == wire[c][i]  n == wire[c][j] IN
    (i < j /\ log[m].mode = "pair" /\ log[n].mode = "pair" /\ log[m].to = log[n].to)
      => m < n

------------------------------------------------------------------------------
(* Steps.                                                                    *)

\* The ids a step writes to connection c.
Written(c) == {wire'[c][i] : i \in (Len(wire[c]) + 1)..Len(wire'[c])}

\* Mixing, jitter and the catch-ups never resurrect a message past its TTL:
\* what is written was accepted at most QueueTTL ago.
NeverPastTTL ==
  [][\A c \in Client : \A id \in Written(c) : now - log'[id].ts <= QueueTTL]_vars

\* What is written to a connection is for it, at the time it is written: for the
\* address it holds or an id it subscribes to.  A pair message for an address goes to
\* another connection than the holder's only if a subscription to that very address
\* took it from the inbox, however windows, jitter and re-registrations interleave.
OnlyTheAddressee ==
  [][\A c \in Client : \A id \in Written(c) :
       LET to == log'[id].to
       IN \/ to \in Address /\ pk[c] = to
          \/ /\ c \in groups[to]
             /\ (to \in Address /\ log'[id].mode = "pair") => id \in taken]_vars

\* A live connection loses its address only by registering another one itself;
\* no registration of another connection, however it is interleaved, takes it.
LiveOwnerKept ==
  [][\A a \in Address :
       (LiveOwner(a) /\ online'[a] # online[a]) => pk'[online[a]] # a]_vars

------------------------------------------------------------------------------
(* Liveness.                                                                 *)

\* If the owner of an address stays connected from some time on, every pair
\* message for it is in the end written to a connection or given up, or somebody's
\* subscription to the address has taken it.
EventuallySettled ==
  \A id \in 1..MaxSends :
    \A a \in Address :
      <>[]LiveOwner(a) =>
        ((id \in 1..Len(log) /\ log[id].mode = "pair" /\ log[id].to = a)
           ~> (Settled(id) \/ id \in taken))

\* No message stays in the mix window or behind a jitter timer for ever.
WindowDrains ==
  \A id \in 1..MaxSends :
    id \in At("pool") \cup At("batch") \cup At("jitter") ~>
      id \in At("inbox") \cup At("wire") \cup At("lost")

------------------------------------------------------------------------------
(* The promise of module Delivery.                                           *)

Held(id) == \E p \in {"inbox", "pool", "batch", "jitter"} : id \in At(p)

Receivers(id) == {c \in Client : id \in OnWire(c)}

FateOf(id) ==
  [mode  |-> log[id].mode,
   state |-> IF Held(id) THEN "held"
             ELSE IF Receivers(id) # {} THEN "written"
             ELSE IF log[id].mode = "cover" THEN "discarded" ELSE "lost",
   to    |-> IF Held(id) THEN {} ELSE Receivers(id)]

Promise == INSTANCE Delivery WITH fate <- [id \in 1..Len(log) |-> FateOf(id)]

\* The relay keeps the promise: wherever a message is moved, it is held until it
\* is written or given up, its receivers are then fixed, and a pair message has
\* one.
KeepsPromise == Promise!Spec

=============================================================================
