------------------------------ MODULE RelayFate ------------------------------
(***************************************************************************)
(* What becomes of a message, proved for every instance of Relay: it is at *)
(* exactly one place, it is written to a connection once, to its addressee *)
(* and in time, and the relay keeps the promise of module Delivery.  Then  *)
(* of the inbox lists: they stay within their limits, and with mixing off  *)
(* nothing acknowledged is refused by them and nothing overtakes in them.  *)
(***************************************************************************)
EXTENDS RelayProofs, SequenceTheorems

------------------------------------------------------------------------------
(* The steps that move messages.                                             *)

Kept == UNION {inbox[r] : r \in Recipient}

\* Every message the relay holds.
Store == Kept \cup InFlight

\* The submissions that are messages; a cover frame is not one.
Mail == {id \in 1..Len(log) : log[id].mode # "cover"}

\* A registration (d is None) or the subscription of d collects the list of r.
CatchUp(r, d) ==
  /\ Idle
  /\ TakeInbox(r)
  /\ EnqueueBacklog({[it EXCEPT !.directTo = d] : it \in inbox[r]})
  /\ UNCHANGED <<jittered, lost, wire, log>>

\* A message in flight is resolved.
ResolveItem(item) ==
  /\ DeliverMixed(item)
  /\ \/ item \in batch /\ batch' = batch \ {item} /\ UNCHANGED jittered
     \/ item \in jittered /\ jittered' = jittered \ {item} /\ UNCHANGED batch
  /\ UNCHANGED <<mixPool, log>>

\* Whatever the relay does, it does one of these to its messages.
LEMMA MailSteps ==
  ASSUME RegistrationInv, [Next]_vars
  PROVE  \/ UNCHANGED <<inbox, mixPool, batch, jittered, lost, wire, log>>
         \/ \E r \in Recipient, d \in Client \cup {None} : CatchUp(r, d)
         \/ FlushMixBatch
         \/ \E item \in batch : DelayNext(item)
         \/ \E item \in batch \cup jittered : ResolveItem(item)
         \/ \E t \in Traffic : SendCover(t) \/ SendMixed(t) \/ SendUnmixed(t)
         \/ Sweep
<1>1. CASE Connections
  BY <1>1 DEF Connections, Connect, Closing, DropClient, mailVars, fateVars
<1>2. CASE Registrations
  <2>. PICK c \in Client, a \in Address :
         Publish(c, a) \/ PublishInvalid(c, a) \/ PublishRefused(c, a) \/ PublishRegistered(c, a)
    BY <1>2 DEF Registrations
  <2>1. CASE PublishRegistered(c, a)
    <3>1. a \in Recipient
      BY DEF Recipient
    <3>2. \A it \in inbox[a] : it \in Item /\ it.directTo = None
      BY <3>1 DEF RegistrationInv, Routed, TypeInv, TypeOK
    <3>3. \A it \in Item : it.directTo = None => [it EXCEPT !.directTo = None] = it
      BY DEF Item
    <3>4. {[it EXCEPT !.directTo = None] : it \in inbox[a]} = inbox[a]
      BY <3>2, <3>3
    <3>5. CatchUp(a, None)
      BY <2>1, <3>4 DEF PublishRegistered, Resuming, CatchUp, fateVars
    <3>. QED  BY <3>1, <3>5
  <2>2. CASE Publish(c, a) \/ PublishInvalid(c, a) \/ PublishRefused(c, a)
    BY <2>2 DEF Publish, PublishInvalid, PublishRefused, mailVars, fateVars
  <2>. QED  BY <2>1, <2>2
<1>3. CASE Submissions
  <2>1. ASSUME NEW c \in Client, NEW g \in Subscribable, Subscribe(c, g)
        PROVE  g \in Recipient /\ CatchUp(g, c)
    BY <2>1, RelayAssumption DEF Subscribe, Directed, CatchUp
  <2>. QED  BY <1>3, <2>1 DEF Submissions
<1>4. CASE Deliveries
  <2>1. ASSUME NEW item \in batch, DeliverNext(item)
        PROVE  ResolveItem(item)
    BY <2>1 DEF DeliverNext, ResolveItem
  <2>2. ASSUME NEW item \in jittered, JitterFires(item)
        PROVE  ResolveItem(item)
    BY <2>2 DEF JitterFires, ResolveItem
  <2>. QED  BY <1>4, <2>1, <2>2 DEF Deliveries
<1>5. CASE Tick \/ UNCHANGED vars
  BY <1>5 DEF Tick, vars, mailVars, fateVars
<1>. QED  BY <1>1, <1>2, <1>3, <1>4, <1>5 DEF Next

------------------------------------------------------------------------------
(* Every message at one place.                                               *)

Where == [p \in Place |-> At(p)]

\* The ids of M are distributed over the places of W, each at one.
Placed(W, M) ==
  /\ \A p \in Place : W[p] \subseteq M
  /\ \A p, q \in Place : p # q => W[p] \cap W[q] = {}
  /\ \A id \in M : \E p \in Place : id \in W[p]

\* The places of a message, one by one.
LEMMA WhereIs ==
  /\ Where["inbox"] = Ids(Kept)
  /\ Where["pool"] = Ids(mixPool)
  /\ Where["batch"] = Ids(batch)
  /\ Where["jitter"] = Ids(jittered)
  /\ Where["wire"] = UNION {OnWire(c) : c \in Client}
  /\ Where["lost"] = {l[1] : l \in lost}
<1>1. \A p \in Place : Where[p] = At(p)
  BY DEF Where
<1>2. UNION {Ids(inbox[r]) : r \in Recipient} = Ids(Kept)
  BY DEF Ids, Kept
<1>. QED  BY <1>1, <1>2 DEF At, Place

\* The same after a step.
LEMMA WhereIsThen ==
  /\ Where'["inbox"] = Ids(Kept)'
  /\ Where'["pool"] = Ids(mixPool)'
  /\ Where'["batch"] = Ids(batch)'
  /\ Where'["jitter"] = Ids(jittered)'
  /\ Where'["wire"] = UNION {OnWire(c)' : c \in Client}
  /\ Where'["lost"] = {l[1] : l \in lost'}
<1>1. \A p \in Place : Where'[p] = At(p)'
  BY DEF Where
<1>2. UNION {Ids(inbox[r])' : r \in Recipient} = Ids(Kept)'
  BY DEF Ids, Kept
<1>. QED  BY <1>1, <1>2 DEF At, Place

\* Messages that move from one place to another stay at one place each.
LEMMA MoveIds ==
  ASSUME NEW W, NEW V, NEW M, NEW S, NEW p \in Place, NEW q \in Place, p # q,
         Placed(W, M), S \subseteq W[p],
         V[p] = W[p] \ S, V[q] = W[q] \cup S,
         \A o \in Place \ {p, q} : V[o] = W[o]
  PROVE  Placed(V, M)
<1>1. \A o \in Place : V[o] \subseteq M
  BY DEF Placed
<1>2. ASSUME NEW o \in Place, NEW u \in Place, o # u  PROVE V[o] \cap V[u] = {}
  BY <1>2 DEF Placed
<1>3. ASSUME NEW id \in M  PROVE \E o \in Place : id \in V[o]
  <2>1. PICK o \in Place : id \in W[o]
    BY DEF Placed
  <2>2. CASE id \in S
    BY <2>2
  <2>3. CASE id \notin S
    BY <2>1, <2>3
  <2>. QED  BY <2>2, <2>3
<1>. QED  BY <1>1, <1>2, <1>3 DEF Placed

\* So does a new message that appears at one place.
LEMMA AddId ==
  ASSUME NEW W, NEW V, NEW M, NEW id, NEW q \in Place,
         Placed(W, M), id \notin M,
         V[q] = W[q] \cup {id},
         \A o \in Place \ {q} : V[o] = W[o]
  PROVE  Placed(V, M \cup {id})
<1>1. \A o \in Place : V[o] \subseteq M \cup {id}
  BY DEF Placed
<1>2. ASSUME NEW o \in Place, NEW u \in Place, o # u  PROVE V[o] \cap V[u] = {}
  BY <1>2 DEF Placed
<1>3. ASSUME NEW i \in M \cup {id}  PROVE \E o \in Place : i \in V[o]
  BY DEF Placed
<1>. QED  BY <1>1, <1>2, <1>3 DEF Placed

\* What the relay holds is what was submitted, unaltered: recipient, mode and
\* time of acceptance.
Logged ==
  \A it \in Store :
    /\ it.id \in Mail
    /\ log[it.id].to = it.to /\ log[it.id].mode = it.mode /\ log[it.id].ts = it.ts

\* No message is held twice, not even with different places in a list.
OneItem == \A x, y \in Store : x.id = y.id => x = y

\* What the safety of deliveries rests on.  Conservation and AtMostOnce are not
\* inductive: two entries with one id could be resolved differently, and an entry
\* of a message that was written already would be written again.
FateInv ==
  /\ RegistrationInv
  /\ Logged
  /\ OneItem
  /\ Placed(Where, Mail)
  /\ AtMostOnce

\* What the relay stores are items, and each inbox is a part of it.
LEMMA StoreType ==
  ASSUME TypeInv
  PROVE  /\ Store \subseteq Item
         /\ \A r \in Recipient : inbox[r] \subseteq Kept
         /\ \A it \in Item : it.id \in Nat /\ it.to \in Recipient
BY DEF TypeInv, TypeOK, Store, Kept, InFlight, Item

\* The containers do not share a message, and none of them holds what was
\* written or given up.
LEMMA Elsewhere ==
  ASSUME FateInv
  PROVE  /\ \A x \in Kept, y \in InFlight : x.id # y.id
         /\ \A x \in mixPool, y \in batch \cup jittered : x.id # y.id
         /\ \A x \in batch, y \in jittered : x.id # y.id
         /\ \A x \in Store, c \in Client : x.id \notin OnWire(c)
         /\ \A x \in Store, l \in lost : x.id # l[1]
<1>1. \A p, q \in Place : p # q => Where[p] \cap Where[q] = {}
  BY DEF FateInv, Placed
<1>2. /\ \A x \in Kept : x.id \in Where["inbox"]
      /\ \A x \in mixPool : x.id \in Where["pool"]
      /\ \A x \in batch : x.id \in Where["batch"]
      /\ \A x \in jittered : x.id \in Where["jitter"]
  BY WhereIs DEF Ids
<1>3. /\ \A c \in Client : OnWire(c) \subseteq Where["wire"]
      /\ \A l \in lost : l[1] \in Where["lost"]
  BY WhereIs
<1>. QED  BY <1>1, <1>2, <1>3 DEF Store, InFlight, Place

\* A message that is resolved is written, kept or given up, and nothing else
\* happens to the inboxes, the connections and the losses.
LEMMA DeliverMixedFate ==
  ASSUME TypeInv, NEW item \in Item, DeliverMixed(item)
  PROVE  \/ /\ Kept' = Kept /\ UNCHANGED wire
            /\ \E why \in Why : lost' = lost \cup {<<item.id, why>>}
         \/ /\ Kept' = Kept /\ UNCHANGED lost
            /\ Targets(item) # {} /\ ~Expired(item.ts)
            /\ wire' = [c \in Client |-> IF c \in Targets(item)
                                         THEN Append(wire[c], item.id) ELSE wire[c]]
         \/ /\ UNCHANGED <<wire, lost>>
            /\ \E e \in Item : SameMessage(e, item) /\ Kept' = Kept \cup {e}
<1>1. CASE Expired(item.ts) /\ Lose(item.id, "expired") /\ UNCHANGED <<inbox, wire>>
  BY <1>1 DEF Lose, Why, Kept
<1>2. CASE /\ Targets(item) # {} /\ ~Expired(item.ts)
           /\ wire' = [c \in Client |-> IF c \in Targets(item)
                                        THEN Append(wire[c], item.id) ELSE wire[c]]
           /\ UNCHANGED <<inbox, lost>>
  BY <1>2 DEF Kept
<1>3. CASE QueueMessage(item) /\ UNCHANGED wire
  <2>1. CASE \E why \in Refusal(item.to) : Lose(item.id, why) /\ UNCHANGED inbox
    BY <1>3, <2>1 DEF Lose, Refusal, Why, Kept
  <2>2. CASE /\ inbox' = [inbox EXCEPT ![item.to] = @ \cup
                   {[item EXCEPT !.pos = NextPos(item.to), !.directTo = None]}]
             /\ UNCHANGED lost
    <3>. DEFINE e == [item EXCEPT !.pos = NextPos(item.to), !.directTo = None]
    <3>1. item.to \in Recipient /\ inbox \in [Recipient -> SUBSET Item]
      BY DEF Item, TypeInv, TypeOK
    <3>2. e \in Item /\ SameMessage(e, item)
      BY <3>1, NextPosType DEF Item, SameMessage
    <3>3. /\ inbox'[item.to] = inbox[item.to] \cup {e}
          /\ \A r \in Recipient \ {item.to} : inbox'[r] = inbox[r]
      BY <2>2, <3>1
    <3>. HIDE DEF e
    <3>4. Kept' = Kept \cup {e}
      BY <3>1, <3>3 DEF Kept
    <3>. QED  BY <1>3, <2>2, <3>2, <3>4
  <2>. QED  BY <1>3, <2>1, <2>2 DEF QueueMessage
<1>. QED  BY <1>1, <1>2, <1>3 DEF DeliverMixed

\* The ids on a connection after a message was appended for some.
LEMMA AppendOnWire ==
  ASSUME wire \in [Client -> Seq(Nat)], NEW id \in Nat, NEW T \in SUBSET Client,
         wire' = [c \in Client |-> IF c \in T THEN Append(wire[c], id) ELSE wire[c]]
  PROVE  \A c \in Client :
           /\ c \notin T => wire'[c] = wire[c]
           /\ c \in T => /\ Len(wire'[c]) = Len(wire[c]) + 1
                         /\ wire'[c][Len(wire[c]) + 1] = id
                         /\ \A i \in 1..Len(wire[c]) : wire'[c][i] = wire[c][i]
           /\ OnWire(c)' = IF c \in T THEN OnWire(c) \cup {id} ELSE OnWire(c)
<1>. SUFFICES ASSUME NEW c \in Client
              PROVE  /\ c \notin T => wire'[c] = wire[c]
                     /\ c \in T => /\ Len(wire'[c]) = Len(wire[c]) + 1
                                   /\ wire'[c][Len(wire[c]) + 1] = id
                                   /\ \A i \in 1..Len(wire[c]) : wire'[c][i] = wire[c][i]
                     /\ OnWire(c)' = IF c \in T THEN OnWire(c) \cup {id} ELSE OnWire(c)
  OBVIOUS
<1>1. wire[c] \in Seq(Nat) /\ wire'[c] = IF c \in T THEN Append(wire[c], id) ELSE wire[c]
  OBVIOUS
<1>2. CASE c \notin T
  BY <1>1, <1>2 DEF OnWire
<1>3. CASE c \in T
  <2>1. /\ Len(wire[c]) \in Nat
        /\ Len(wire'[c]) = Len(wire[c]) + 1
        /\ wire'[c][Len(wire[c]) + 1] = id
        /\ \A i \in 1..Len(wire[c]) : wire'[c][i] = wire[c][i]
    BY <1>1, <1>3
  <2>2. OnWire(c)' = {wire'[c][i] : i \in 1..Len(wire[c]) + 1}
    BY <2>1 DEF OnWire
  <2>3. 1..(Len(wire[c]) + 1) = (1..Len(wire[c])) \cup {Len(wire[c]) + 1}
    BY <2>1
  <2>4. OnWire(c)' = OnWire(c) \cup {id}
    BY <2>1, <2>2, <2>3 DEF OnWire
  <2>. QED  BY <1>3, <2>1, <2>4
<1>. QED  BY <1>2, <1>3

\* A delivered item goes to an inbox, to a wire or is given up, and to one of them.
LEMMA DeliverMixedPlace ==
  ASSUME TypeInv, NEW item \in Item, DeliverMixed(item)
  PROVE  \E q \in {"inbox", "wire", "lost"} :
           /\ Where'[q] = Where[q] \cup {item.id}
           /\ \A o \in {"inbox", "wire", "lost"} \ {q} : Where'[o] = Where[o]
<1>1. Kept' = Kept => Where'["inbox"] = Where["inbox"]
  BY WhereIs, WhereIsThen DEF Ids
<1>2. UNCHANGED wire => Where'["wire"] = Where["wire"]
  BY WhereIs, WhereIsThen DEF OnWire
<1>3. UNCHANGED lost => Where'["lost"] = Where["lost"]
  BY WhereIs, WhereIsThen
<1>4. ASSUME NEW why \in Why, lost' = lost \cup {<<item.id, why>>}
      PROVE  Where'["lost"] = Where["lost"] \cup {item.id}
  <2>1. <<item.id, why>>[1] = item.id
    OBVIOUS
  <2>2. {l[1] : l \in lost'} = {l[1] : l \in lost} \cup {item.id}
    BY <1>4, <2>1
  <2>. QED  BY <2>2, WhereIs, WhereIsThen
<1>5. ASSUME Targets(item) # {},
             wire' = [c \in Client |-> IF c \in Targets(item)
                                       THEN Append(wire[c], item.id) ELSE wire[c]]
      PROVE  Where'["wire"] = Where["wire"] \cup {item.id}
  <2>. DEFINE T == Targets(item)
              id == item.id
  <2>1. id \in Nat /\ T \in SUBSET Client /\ wire \in [Client -> Seq(Nat)]
    BY DEF Item, Targets, TypeInv, TypeOK
  <2>2. T # {} /\ wire' = [c \in Client |-> IF c \in T THEN Append(wire[c], id) ELSE wire[c]]
    BY <1>5
  <2>. HIDE DEF T, id
  <2>3. \A c \in Client : OnWire(c)' = IF c \in T THEN OnWire(c) \cup {id} ELSE OnWire(c)
    BY <2>1, <2>2, AppendOnWire
  <2>4. PICK t \in Client : t \in T
    BY <2>1, <2>2
  <2>5. \A x : (\E c \in Client : x \in OnWire(c)') <=> (x = id \/ \E c \in Client : x \in OnWire(c))
    BY <2>3, <2>4
  <2>6. \A x : x \in Where'["wire"] <=> \E c \in Client : x \in OnWire(c)'
    BY WhereIsThen
  <2>7. \A x : x \in Where["wire"] <=> \E c \in Client : x \in OnWire(c)
    BY WhereIs
  <2>8. Where'["wire"] = Where["wire"] \cup {id}
    BY <2>5, <2>6, <2>7
  <2>. QED  BY <2>8 DEF id
<1>6. ASSUME NEW e \in Item, SameMessage(e, item), Kept' = Kept \cup {e}
      PROVE  Where'["inbox"] = Where["inbox"] \cup {item.id}
  <2>1. Ids(Kept)' = Ids(Kept) \cup {item.id}
    BY <1>6 DEF Ids, SameMessage
  <2>. QED  BY <2>1, WhereIs, WhereIsThen
<1>7. CASE Kept' = Kept /\ UNCHANGED wire /\ \E why \in Why : lost' = lost \cup {<<item.id, why>>}
  BY <1>1, <1>2, <1>4, <1>7
<1>8. CASE /\ Kept' = Kept /\ UNCHANGED lost
           /\ Targets(item) # {}
           /\ wire' = [c \in Client |-> IF c \in Targets(item)
                                        THEN Append(wire[c], item.id) ELSE wire[c]]
  BY <1>1, <1>3, <1>5, <1>8
<1>9. CASE UNCHANGED <<wire, lost>> /\ \E e \in Item : SameMessage(e, item) /\ Kept' = Kept \cup {e}
  BY <1>2, <1>3, <1>6, <1>9
<1>. QED  BY <1>7, <1>8, <1>9, DeliverMixedFate

\* A message that is on no connection yet is written once to each of its targets,
\* and a pair message has at most one.
LEMMA DeliverMixedOnce ==
  ASSUME TypeInv, AtMostOnce, NEW item \in Item, DeliverMixed(item),
         \A c \in Client : item.id \notin OnWire(c),
         \A c \in Client : \A id \in OnWire(c) : log'[id].mode = log[id].mode,
         log'[item.id].mode = item.mode
  PROVE  AtMostOnce'
<1>1. CASE UNCHANGED wire
  BY <1>1 DEF AtMostOnce, OnWire
<1>2. CASE wire' = [c \in Client |-> IF c \in Targets(item)
                                     THEN Append(wire[c], item.id) ELSE wire[c]]
  <2>. SUFFICES ASSUME NEW c \in Client, NEW d \in Client,
                       NEW i \in 1..Len(wire'[c]), NEW j \in 1..Len(wire'[d]),
                       wire'[c][i] = wire'[d][j]
                PROVE  (c = d /\ i = j) \/ (c # d /\ log'[wire'[c][i]].mode = "group")
    BY DEF AtMostOnce
  <2>1. item.id \in Nat /\ Targets(item) \in SUBSET Client /\ wire \in [Client -> Seq(Nat)]
    BY DEF Item, Targets, TypeInv, TypeOK
  <2>2. \A b \in Client :
           /\ b \notin Targets(item) => wire'[b] = wire[b]
           /\ b \in Targets(item) => /\ Len(wire'[b]) = Len(wire[b]) + 1
                         /\ wire'[b][Len(wire[b]) + 1] = item.id
                         /\ \A k \in 1..Len(wire[b]) : wire'[b][k] = wire[b][k]
    BY <1>2, <2>1, AppendOnWire
  <2>3. \A b \in Client : Len(wire[b]) \in Nat
    BY <2>1
  <2>4. ASSUME NEW b \in Client, NEW k \in 1..Len(wire'[b])
        PROVE  \/ k \in 1..Len(wire[b]) /\ wire'[b][k] = wire[b][k] /\ wire'[b][k] # item.id
               \/ k = Len(wire[b]) + 1 /\ wire'[b][k] = item.id /\ b \in Targets(item)
    <3>1. \A l \in 1..Len(wire[b]) : wire[b][l] # item.id
      BY DEF OnWire
    <3>. QED  BY <2>2, <2>3, <3>1
  <2>5. CASE wire'[c][i] # item.id
    <3>1. i \in 1..Len(wire[c]) /\ j \in 1..Len(wire[d]) /\ wire[c][i] = wire[d][j] /\ wire'[c][i] = wire[c][i]
      BY <2>4, <2>5
    <3>. QED  BY <3>1 DEF AtMostOnce, OnWire
  <2>6. CASE wire'[c][i] = item.id
    <3>1. /\ i = Len(wire[c]) + 1 /\ c \in Targets(item)
          /\ j = Len(wire[d]) + 1 /\ d \in Targets(item)
      BY <2>4, <2>6
    <3>2. c # d => item.mode = "group"
      BY <3>1 DEF Targets
    <3>. QED  BY <2>6, <3>1, <3>2
  <2>. QED  BY <2>5, <2>6
<1>. QED  BY <1>1, <1>2, DeliverMixedFate

\* FateInv is preserved when an item of a batch or of the jitter is delivered.
LEMMA FateResolve ==
  ASSUME FateInv, RegistrationInv', NEW item \in batch \cup jittered, ResolveItem(item)
  PROVE  FateInv'
<1>1. /\ TypeInv /\ item \in Item /\ item \in Store
      /\ DeliverMixed(item) /\ UNCHANGED <<mixPool, log>> /\ Mail' = Mail
  BY StoreType DEF FateInv, RegistrationInv, ResolveItem, Store, InFlight, Mail
<1>2. PICK p \in {"batch", "jitter"} :
        /\ item.id \in Where[p]
        /\ Where'[p] = Where[p] \ {item.id}
        /\ \A o \in {"pool", "batch", "jitter"} \ {p} : Where'[o] = Where[o]
  <2>1. ASSUME NEW S \in SUBSET Store, item \in S
        PROVE  Ids(S \ {item}) = Ids(S) \ {item.id} /\ item.id \in Ids(S)
    BY <1>1, <2>1 DEF FateInv, OneItem, Ids
  <2>2. batch \in SUBSET Store /\ jittered \in SUBSET Store
    BY DEF Store, InFlight
  <2>. HIDE DEF Store
  <2>3. CASE item \in batch /\ batch' = batch \ {item} /\ UNCHANGED jittered
    <3>1. Ids(batch)' = Ids(batch) \ {item.id} /\ item.id \in Ids(batch)
      BY <2>1, <2>2, <2>3 DEF Ids
    <3>2. Ids(jittered)' = Ids(jittered) /\ Ids(mixPool)' = Ids(mixPool)
      BY <1>1, <2>3 DEF Ids
    <3>. QED  BY <3>1, <3>2, WhereIs, WhereIsThen
  <2>4. CASE item \in jittered /\ jittered' = jittered \ {item} /\ UNCHANGED batch
    <3>1. Ids(jittered)' = Ids(jittered) \ {item.id} /\ item.id \in Ids(jittered)
      BY <2>1, <2>2, <2>4 DEF Ids
    <3>2. Ids(batch)' = Ids(batch) /\ Ids(mixPool)' = Ids(mixPool)
      BY <1>1, <2>4 DEF Ids
    <3>. QED  BY <3>1, <3>2, WhereIs, WhereIsThen
  <2>. QED  BY <2>3, <2>4 DEF ResolveItem
<1>3. PICK q \in {"inbox", "wire", "lost"} :
        /\ Where'[q] = Where[q] \cup {item.id}
        /\ \A o \in {"inbox", "wire", "lost"} \ {q} : Where'[o] = Where[o]
  BY <1>1, DeliverMixedPlace
<1>4. Placed(Where, Mail)'
  <2>1. p \in Place /\ q \in Place /\ p # q
    BY DEF Place
  <2>2. \A o \in Place \ {p, q} : Where'[o] = Where[o]
    BY <1>2, <1>3 DEF Place
  <2>3. Placed(Where', Mail)
    <3>. DEFINE W == Where
                V == Where'
                S == {item.id}
    <3>1. Placed(W, Mail) /\ S \subseteq W[p] /\ V[p] = W[p] \ S /\ V[q] = W[q] \cup S
      BY <1>2, <1>3 DEF FateInv
    <3>2. \A o \in Place \ {p, q} : V[o] = W[o]
      BY <2>2
    <3>. HIDE DEF W, V, S
    <3>3. Placed(V, Mail)
      BY <2>1, <3>1, <3>2, MoveIds
    <3>. QED  BY <3>3 DEF V
  <2>. QED  BY <1>1, <2>3 DEF Placed
<1>5. \A x \in Store' : \/ x \in Store /\ x.id # item.id
                        \/ x \in Kept' /\ SameMessage(x, item)
                           /\ \A y \in Store' : y = x \/ (y \in Store /\ y.id # item.id)
  <2>1. \A x \in InFlight' : x \in InFlight /\ x.id # item.id
    <3>1. \A x \in mixPool : x.id # item.id
      BY Elsewhere
    <3>2. \A x \in batch', y \in jittered' : x.id # item.id /\ y.id # item.id /\ x \in batch /\ y \in jittered
      BY <1>1, Elsewhere DEF ResolveItem, FateInv, OneItem, Store, InFlight
    <3>. QED  BY <1>1, <3>1, <3>2, Elsewhere DEF ResolveItem, InFlight, FateInv, OneItem, Store
  <2>2. \A x \in Kept : x.id # item.id
    BY Elsewhere DEF InFlight
  <2>3. \/ Kept' = Kept
        \/ \E e \in Item : SameMessage(e, item) /\ Kept' = Kept \cup {e}
    BY <1>1, DeliverMixedFate
  <2>. QED  BY <2>1, <2>2, <2>3 DEF Store
<1>6. Logged'
  BY <1>1, <1>5 DEF FateInv, Logged, SameMessage
<1>7. OneItem'
  BY <1>5 DEF FateInv, OneItem, SameMessage
<1>8. AtMostOnce'
  <2>1. \A c \in Client : item.id \notin OnWire(c)
    BY <1>1, Elsewhere
  <2>2. log'[item.id].mode = item.mode
    BY <1>1 DEF FateInv, Logged
  <2>3. \A c \in Client : \A id \in OnWire(c) : log'[id].mode = log[id].mode
    BY <1>1
  <2>. QED  BY <1>1, <2>1, <2>2, <2>3, DeliverMixedOnce DEF FateInv
<1>. QED  BY <1>4, <1>6, <1>7, <1>8 DEF FateInv

\* The list that is collected becomes what the running loop resolves, or part of
\* the mix window.
LEMMA CatchUpItems ==
  ASSUME TypeInv, NEW r \in Recipient, NEW d \in Client \cup {None}, CatchUp(r, d)
  PROVE  \E E \in SUBSET Item :
           /\ \A e \in E : \E x \in inbox[r] : SameMessage(e, x)
           /\ \A x \in inbox[r] : \E e \in E : SameMessage(e, x)
           /\ \A e, f \in E : (e # f /\ e.id = f.id) =>
                \E x, y \in inbox[r] : x # y /\ x.id = y.id
           /\ \/ MixOff /\ batch' = E /\ UNCHANGED mixPool
              \/ ~MixOff /\ mixPool' = mixPool \cup E /\ UNCHANGED batch
<1>1. inbox[r] \in SUBSET Item
  BY DEF TypeInv, TypeOK
<1>. DEFINE D == {[it EXCEPT !.directTo = d] : it \in inbox[r]}
            E == IF MixOff THEN D ELSE {[it EXCEPT !.pos = 0] : it \in D}
<1>2. \A it \in Item : LET e == [it EXCEPT !.directTo = d]
                      IN e \in Item /\ SameMessage(e, it)
  BY DEF Item, SameMessage
<1>3. \A it \in Item : LET e == [it EXCEPT !.pos = 0]
                      IN e \in Item /\ SameMessage(e, it)
  BY DEF Item, SameMessage
<1>4. /\ D \in SUBSET Item
      /\ \A e \in D : \E x \in inbox[r] : SameMessage(e, x)
      /\ \A x \in inbox[r] : \E e \in D : SameMessage(e, x)
  BY <1>1, <1>2
<1>5. \A e, f \in D : (e # f /\ e.id = f.id) => \E x, y \in inbox[r] : x # y /\ x.id = y.id
  <2>. SUFFICES ASSUME NEW e \in D, NEW f \in D, e # f, e.id = f.id
                PROVE  \E x, y \in inbox[r] : x # y /\ x.id = y.id
    OBVIOUS
  <2>1. PICK x \in inbox[r], y \in inbox[r] :
          e = [x EXCEPT !.directTo = d] /\ f = [y EXCEPT !.directTo = d]
    OBVIOUS
  <2>2. SameMessage(e, x) /\ SameMessage(f, y)
    BY <1>1, <1>2, <2>1
  <2>. QED  BY <2>1, <2>2 DEF SameMessage
<1>6. CASE MixOff
  <2>1. batch' = E /\ UNCHANGED mixPool
    BY <1>6 DEF CatchUp, EnqueueBacklog
  <2>. QED  BY <1>4, <1>5, <1>6, <2>1
<1>7. CASE ~MixOff
  <2>. DEFINE F == {[it EXCEPT !.pos = 0] : it \in D}
  <2>. HIDE DEF D
  <2>1. mixPool' = mixPool \cup F /\ UNCHANGED batch
    BY <1>7 DEF CatchUp, EnqueueBacklog, Pool, D
  <2>2. /\ F \in SUBSET Item
        /\ \A e \in F : \E x \in D : SameMessage(e, x)
        /\ \A x \in D : \E e \in F : SameMessage(e, x)
    BY <1>3, <1>4
  <2>3. \A e, f \in F : (e # f /\ e.id = f.id) => \E x, y \in D : x # y /\ x.id = y.id
    <3>. SUFFICES ASSUME NEW e \in F, NEW f \in F, e # f, e.id = f.id
                  PROVE  \E x, y \in D : x # y /\ x.id = y.id
      OBVIOUS
    <3>1. PICK x \in D, y \in D : e = [x EXCEPT !.pos = 0] /\ f = [y EXCEPT !.pos = 0]
      OBVIOUS
    <3>2. SameMessage(e, x) /\ SameMessage(f, y)
      BY <1>3, <1>4, <3>1
    <3>. QED  BY <3>1, <3>2 DEF SameMessage
  <2>. HIDE DEF F
  <2>4. \A x \in inbox[r] : \E e \in F : SameMessage(e, x)
    BY <1>4, <2>2 DEF SameMessage
  <2>5. \A e \in F : \E x \in inbox[r] : SameMessage(e, x)
    BY <1>4, <2>2 DEF SameMessage
  <2>. QED  BY <1>5, <1>7, <2>1, <2>2, <2>3, <2>4, <2>5
<1>. QED  BY <1>6, <1>7

\* FateInv is preserved when a connection catches up with an inbox.
LEMMA FateCatchUp ==
  ASSUME FateInv, RegistrationInv',
         NEW r \in Recipient, NEW d \in Client \cup {None}, CatchUp(r, d)
  PROVE  FateInv'
<1>1. /\ TypeInv /\ Idle /\ UNCHANGED <<jittered, lost, wire, log>> /\ Mail' = Mail
      /\ Kept' = Kept \ inbox[r]
      /\ inbox[r] \subseteq Kept
  <2>1. TypeInv /\ Routed
    BY DEF FateInv, RegistrationInv
  <2>2. inbox'[r] = {} /\ \A s \in Recipient \ {r} : inbox'[s] = inbox[s]
    BY <2>1 DEF CatchUp, TakeInbox, TypeInv, TypeOK
  <2>3. \A s \in Recipient \ {r} : inbox[s] \cap inbox[r] = {}
    BY <2>1 DEF Routed
  <2>. QED  BY <2>1, <2>2, <2>3 DEF CatchUp, Kept, Mail
<1>2. PICK E \in SUBSET Item :
           /\ \A e \in E : \E x \in inbox[r] : SameMessage(e, x)
           /\ \A x \in inbox[r] : \E e \in E : SameMessage(e, x)
           /\ \A e, f \in E : (e # f /\ e.id = f.id) =>
                \E x, y \in inbox[r] : x # y /\ x.id = y.id
           /\ \/ MixOff /\ batch' = E /\ UNCHANGED mixPool
              \/ ~MixOff /\ mixPool' = mixPool \cup E /\ UNCHANGED batch
  BY <1>1, CatchUpItems
<1>3. \A x, y \in inbox[r] : x.id = y.id => x = y
  BY <1>1 DEF FateInv, OneItem, Store
<1>4. \A e, f \in E : e.id = f.id => e = f
  BY <1>2, <1>3
<1>. DEFINE S == Ids(inbox[r])
<1>5. Ids(E) = S
  BY <1>2 DEF Ids, SameMessage
<1>6. Where'["inbox"] = Where["inbox"] \ S /\ S \subseteq Where["inbox"]
  <2>1. Ids(Kept \ inbox[r]) = Ids(Kept) \ S /\ S \subseteq Ids(Kept)
    BY <1>1 DEF FateInv, OneItem, Store, Ids
  <2>2. Ids(Kept)' = Ids(Kept \ inbox[r])
    BY <1>1 DEF Ids
  <2>. QED  BY <2>1, <2>2, WhereIs, WhereIsThen
<1>7. PICK q \in {"pool", "batch"} :
        /\ Where'[q] = Where[q] \cup S
        /\ \A o \in {"pool", "batch", "jitter", "wire", "lost"} \ {q} : Where'[o] = Where[o]
  <2>1. Where'["jitter"] = Where["jitter"]
    BY <1>1, WhereIs, WhereIsThen DEF Ids
  <2>2. Where'["wire"] = Where["wire"]
    BY <1>1, WhereIs, WhereIsThen DEF OnWire
  <2>3. Where'["lost"] = Where["lost"]
    BY <1>1, WhereIs, WhereIsThen
  <2>4. CASE MixOff /\ batch' = E /\ UNCHANGED mixPool
    <3>1. Where'["pool"] = Where["pool"]
      BY <2>4, WhereIs, WhereIsThen DEF Ids
    <3>2. Where'["batch"] = Where["batch"] \cup S
      <4>1. Ids(batch)' = Ids(E) /\ Ids(batch) = {}
        BY <1>1, <2>4 DEF Idle, Ids
      <4>. QED  BY <1>5, <4>1, WhereIs, WhereIsThen
    <3>. QED  BY <2>1, <2>2, <2>3, <3>1, <3>2
  <2>5. CASE ~MixOff /\ mixPool' = mixPool \cup E /\ UNCHANGED batch
    <3>1. Where'["batch"] = Where["batch"]
      BY <2>5, WhereIs, WhereIsThen DEF Ids
    <3>2. Where'["pool"] = Where["pool"] \cup S
      <4>1. Ids(mixPool)' = Ids(mixPool) \cup Ids(E)
        BY <2>5 DEF Ids
      <4>. QED  BY <1>5, <4>1, WhereIs, WhereIsThen
    <3>. QED  BY <2>1, <2>2, <2>3, <3>1, <3>2
  <2>. QED  BY <1>2, <2>4, <2>5
<1>8. Placed(Where, Mail)'
  <2>. DEFINE W == Where
              V == Where'
              p == "inbox"
  <2>1. /\ Placed(W, Mail) /\ S \subseteq W[p] /\ V[p] = W[p] \ S /\ V[q] = W[q] \cup S
        /\ p \in Place /\ q \in Place /\ p # q
        /\ \A o \in Place \ {p, q} : V[o] = W[o]
    BY <1>6, <1>7 DEF FateInv, Place
  <2>. HIDE DEF W, V, S, p
  <2>2. Placed(V, Mail)
    BY <2>1, MoveIds
  <2>. QED  BY <1>1, <2>2 DEF V, Placed
<1>9. \A x \in Store' : \/ x \in Store /\ x.id \notin S
                        \/ x \in E /\ \E y \in Store : SameMessage(x, y)
  <2>1. \A x \in Kept' : x \in Kept /\ x.id \notin S
    BY <1>1 DEF FateInv, OneItem, Store, Ids
  <2>2. \A x \in InFlight : x.id \notin S
    BY <1>1, Elsewhere DEF Ids
  <2>3. \A x \in InFlight' : x \in InFlight \/ x \in E
    BY <1>1, <1>2 DEF InFlight
  <2>. QED  BY <1>1, <1>2, <2>1, <2>2, <2>3 DEF Store
<1>10. Logged'
  BY <1>1, <1>9 DEF FateInv, Logged, SameMessage
<1>11. OneItem'
  <2>1. \A x \in E : x.id \in S
    BY <1>5 DEF Ids
  <2>. QED  BY <1>4, <1>9, <2>1 DEF FateInv, OneItem
<1>12. AtMostOnce'
  BY <1>1 DEF FateInv, AtMostOnce
<1>. QED  BY <1>8, <1>10, <1>11, <1>12 DEF FateInv

\* A window closes, or one of its messages is put behind a jitter timer.
LEMMA FateWindow ==
  ASSUME FateInv, RegistrationInv', FlushMixBatch \/ \E item \in batch : DelayNext(item)
  PROVE  FateInv'
<1>1. /\ UNCHANGED <<inbox, lost, wire, log>> /\ Mail' = Mail /\ Kept' = Kept
      /\ Where'["inbox"] = Where["inbox"]
      /\ Where'["wire"] = Where["wire"]
      /\ Where'["lost"] = Where["lost"]
  <2>1. UNCHANGED <<inbox, lost, wire, log>>
    BY DEF FlushMixBatch, DelayNext, fateVars
  <2>2. Ids(Kept)' = Ids(Kept) /\ Kept' = Kept
    BY <2>1 DEF Ids, Kept
  <2>3. \A c \in Client : OnWire(c)' = OnWire(c)
    BY <2>1 DEF OnWire
  <2>. QED  BY <2>1, <2>2, <2>3, WhereIs, WhereIsThen DEF Mail
<1>2. Store' \subseteq Store
  BY <1>1 DEF Store, InFlight, FlushMixBatch, DelayNext
<1>3. PICK p \in {"pool", "batch"}, q \in {"batch", "jitter"}, S \in SUBSET (Where["pool"] \cup Where["batch"]) :
        /\ p # q /\ S \subseteq Where[p]
        /\ Where'[p] = Where[p] \ S
        /\ Where'[q] = Where[q] \cup S
        /\ \A o \in {"pool", "batch", "jitter"} \ {p, q} : Where'[o] = Where[o]
  <2>1. CASE FlushMixBatch
    <3>1. Ids(mixPool)' = {} /\ Ids(batch)' = Ids(mixPool) /\ Ids(batch) = {} /\ Ids(jittered)' = Ids(jittered)
      BY <2>1 DEF FlushMixBatch, Idle, Ids
    <3>2. /\ Where'["pool"] = Where["pool"] \ Ids(mixPool)
          /\ Where'["batch"] = Where["batch"] \cup Ids(mixPool)
          /\ Where'["jitter"] = Where["jitter"]
          /\ Ids(mixPool) \subseteq Where["pool"]
      BY <3>1, WhereIs, WhereIsThen
    <3>. QED  BY <3>2
  <2>2. ASSUME NEW item \in batch, DelayNext(item)
        PROVE  /\ Where'["batch"] = Where["batch"] \ {item.id}
               /\ Where'["jitter"] = Where["jitter"] \cup {item.id}
               /\ Where'["pool"] = Where["pool"]
               /\ {item.id} \subseteq Where["batch"]
    <3>1. Ids(batch)' = Ids(batch) \ {item.id} /\ item.id \in Ids(batch)
      BY <2>2 DEF DelayNext, Ids, FateInv, OneItem, Store, InFlight
    <3>2. Ids(jittered)' = Ids(jittered) \cup {item.id} /\ Ids(mixPool)' = Ids(mixPool)
      BY <2>2 DEF DelayNext, Ids
    <3>. QED  BY <3>1, <3>2, WhereIs, WhereIsThen
  <2>3. CASE \E item \in batch : DelayNext(item)
    <3>. PICK item \in batch : DelayNext(item)
      BY <2>3
    <3>. DEFINE S == {item.id}
    <3>1. /\ Where'["batch"] = Where["batch"] \ S
          /\ Where'["jitter"] = Where["jitter"] \cup S
          /\ Where'["pool"] = Where["pool"]
          /\ S \subseteq Where["batch"]
      BY <2>2
    <3>. HIDE DEF S
    <3>. QED  BY <3>1
  <2>. QED  BY <2>1, <2>3
<1>4. Placed(Where, Mail)'
  <2>. DEFINE W == Where
              V == Where'
  <2>1. /\ Placed(W, Mail) /\ S \subseteq W[p] /\ V[p] = W[p] \ S /\ V[q] = W[q] \cup S
        /\ p \in Place /\ q \in Place /\ p # q
        /\ \A o \in Place \ {p, q} : V[o] = W[o]
    BY <1>1, <1>3 DEF FateInv, Place
  <2>. HIDE DEF W, V
  <2>2. Placed(V, Mail)
    BY <2>1, MoveIds
  <2>. QED  BY <1>1, <2>2 DEF V, Placed
<1>5. Logged' /\ OneItem'
  BY <1>1, <1>2 DEF FateInv, Logged, OneItem
<1>6. AtMostOnce'
  BY <1>1 DEF FateInv, AtMostOnce
<1>. QED  BY <1>4, <1>5, <1>6 DEF FateInv

\* FateInv is preserved by the sweep of what is too old.
LEMMA FateSweep ==
  ASSUME FateInv, RegistrationInv', Sweep
  PROVE  FateInv'
<1>. DEFINE Old == {x \in Kept : x.ts < now - QueueTTL}
            S == Ids(Old)
<1>1. /\ UNCHANGED <<mixPool, batch, jittered, wire, log>>
      /\ Mail' = Mail
      /\ lost' = lost \cup {<<it.id, "expired">> : it \in Old}
  BY DEF Sweep, Kept, Mail
<1>2. Kept' = Kept \ Old
  <2>1. \A r \in Recipient : inbox'[r] = {it \in inbox[r] : it.ts >= now - QueueTTL}
    BY DEF Sweep
  <2>2. \A it \in Kept : it.ts \in Nat /\ now \in Nat /\ QueueTTL \in Nat
    BY RelayAssumption DEF FateInv, RegistrationInv, TypeInv, TypeOK, Kept, Item
  <2>. QED  BY <2>1, <2>2 DEF Kept
<1>3. Store' \subseteq Store
  BY <1>1, <1>2 DEF Store, InFlight
<1>4. Where'["inbox"] = Where["inbox"] \ S /\ S \subseteq Where["inbox"]
  <2>1. Ids(Kept \ Old) = Ids(Kept) \ S /\ S \subseteq Ids(Kept)
    BY DEF FateInv, OneItem, Store, Ids
  <2>2. Ids(Kept)' = Ids(Kept \ Old)
    BY <1>2 DEF Ids
  <2>. QED  BY <2>1, <2>2, WhereIs, WhereIsThen
<1>5. Where'["lost"] = Where["lost"] \cup S
  <2>1. \A it \in Old : <<it.id, "expired">>[1] = it.id
    OBVIOUS
  <2>. HIDE DEF Old
  <2>2. {l[1] : l \in lost'} = {l[1] : l \in lost} \cup S
    BY <1>1, <2>1 DEF Ids
  <2>. QED  BY <2>2, WhereIs, WhereIsThen
<1>6. \A o \in {"pool", "batch", "jitter", "wire"} : Where'[o] = Where[o]
  <2>1. Where'["pool"] = Where["pool"]
    BY <1>1, WhereIs, WhereIsThen DEF Ids
  <2>2. Where'["batch"] = Where["batch"]
    BY <1>1, WhereIs, WhereIsThen DEF Ids
  <2>3. Where'["jitter"] = Where["jitter"]
    BY <1>1, WhereIs, WhereIsThen DEF Ids
  <2>4. Where'["wire"] = Where["wire"]
    BY <1>1, WhereIs, WhereIsThen DEF OnWire
  <2>. QED  BY <2>1, <2>2, <2>3, <2>4
<1>7. Placed(Where, Mail)'
  <2>. DEFINE W == Where
              V == Where'
              p == "inbox"
              q == "lost"
  <2>1. /\ Placed(W, Mail) /\ S \subseteq W[p] /\ V[p] = W[p] \ S /\ V[q] = W[q] \cup S
        /\ p \in Place /\ q \in Place /\ p # q
        /\ \A o \in Place \ {p, q} : V[o] = W[o]
    BY <1>4, <1>5, <1>6 DEF FateInv, Place
  <2>. HIDE DEF W, V, S, p, q
  <2>2. Placed(V, Mail)
    BY <2>1, MoveIds
  <2>. QED  BY <1>1, <2>2 DEF V, Placed
<1>8. Logged' /\ OneItem'
  BY <1>1, <1>3 DEF FateInv, Logged, OneItem
<1>9. AtMostOnce'
  BY <1>1 DEF FateInv, AtMostOnce
<1>. QED  BY <1>7, <1>8, <1>9 DEF FateInv

\* A submission gets an id nothing has yet, and what was submitted before stays.
LEMMA AcceptLog ==
  ASSUME TypeInv, NEW t \in Traffic, Accept(t)
  PROVE  /\ NewId \notin Mail
         /\ log'[NewId].to = t.to /\ log'[NewId].mode = t.mode /\ log'[NewId].ts = now
         /\ \A id \in 1..Len(log) : log'[id] = log[id]
         /\ Len(log') = NewId
         /\ Mail' = IF t.mode = "cover" THEN Mail ELSE Mail \cup {NewId}
<1>1. log \in Seq([to : Recipient, mode : Mode, ts : Nat]) /\ Len(log) \in Nat
  BY DEF TypeInv, TypeOK
<1>. DEFINE m == [to |-> t.to, mode |-> t.mode, ts |-> now]
<1>2. log' = Append(log, m) /\ m.to = t.to /\ m.mode = t.mode /\ m.ts = now
  BY DEF Accept
<1>. HIDE DEF m
<1>3. /\ Len(log') = Len(log) + 1
      /\ log'[Len(log) + 1] = m
      /\ \A id \in 1..Len(log) : log'[id] = log[id]
  BY <1>1, <1>2
<1>4. 1..(Len(log) + 1) = (1..Len(log)) \cup {Len(log) + 1} /\ Len(log) + 1 \notin 1..Len(log)
  BY <1>1
<1>5. Mail' = IF t.mode = "cover" THEN Mail ELSE Mail \cup {NewId}
  BY <1>2, <1>3, <1>4 DEF Mail, NewId
<1>. QED  BY <1>2, <1>3, <1>4, <1>5 DEF Mail, NewId

\* FateInv is preserved by every submission.
LEMMA FateSubmit ==
  ASSUME FateInv, RegistrationInv', NEW t \in Traffic, SendCover(t) \/ SendMixed(t) \/ SendUnmixed(t)
  PROVE  FateInv'
<1>1. TypeInv /\ Accept(t)
  BY DEF SendCover, SendMixed, SendUnmixed, FateInv, RegistrationInv
<1>. DEFINE n == NewItem(t)
<1>2. /\ n \in Item /\ n.id = NewId /\ n.to = t.to /\ n.mode = t.mode /\ n.ts = now
  BY <1>1, AcceptType DEF NewItem
<1>3. /\ \A p \in Place : NewId \notin Where[p]
      /\ \A x \in Store : x.id # NewId
      /\ \A c \in Client : NewId \notin OnWire(c) /\ \A id \in OnWire(c) : log'[id] = log[id]
  <2>1. NewId \notin Mail /\ \A id \in Mail : log'[id] = log[id]
    BY <1>1, AcceptLog DEF Mail
  <2>2. \A c \in Client : OnWire(c) \subseteq Mail
    <3>1. \A c \in Client : OnWire(c) \subseteq Where["wire"]
      BY WhereIs
    <3>2. Where["wire"] \subseteq Mail
      BY DEF FateInv, Placed, Place
    <3>. QED  BY <3>1, <3>2
  <2>. QED  BY <2>1, <2>2 DEF FateInv, Placed, Logged
<1>4. ASSUME \A x \in Store' : \/ x \in Store
                               \/ /\ SameMessage(x, n) /\ t.mode # "cover"
                                  /\ \A y \in Store' : y = x \/ y \in Store
      PROVE  Logged' /\ OneItem'
  <2>1. Logged'
    <3>1. \A id \in Mail : id \in Mail' /\ log'[id] = log[id]
      BY <1>1, AcceptLog DEF Mail
    <3>2. /\ t.mode # "cover" => NewId \in Mail'
          /\ log'[NewId].to = t.to /\ log'[NewId].mode = t.mode /\ log'[NewId].ts = now
      BY <1>1, AcceptLog
    <3>. QED  BY <1>2, <1>4, <3>1, <3>2 DEF FateInv, Logged, SameMessage
  <2>2. OneItem'
    BY <1>2, <1>3, <1>4 DEF FateInv, OneItem, SameMessage
  <2>. QED  BY <2>1, <2>2
<1>5. ASSUME t.mode # "cover", NEW q \in Place,
             Where'[q] = Where[q] \cup {NewId},
             \A o \in Place \ {q} : Where'[o] = Where[o]
      PROVE  Placed(Where, Mail)'
  <2>. DEFINE W == Where
              V == Where'
  <2>1. /\ Placed(W, Mail) /\ NewId \notin Mail /\ Mail' = Mail \cup {NewId}
        /\ V[q] = W[q] \cup {NewId}
        /\ \A o \in Place \ {q} : V[o] = W[o]
    BY <1>1, <1>5, AcceptLog DEF FateInv
  <2>. HIDE DEF W, V
  <2>2. Placed(V, Mail \cup {NewId})
    BY <2>1, AddId
  <2>. QED  BY <2>1, <2>2 DEF V, Placed
<1>6. UNCHANGED wire => AtMostOnce'
  BY <1>3 DEF FateInv, AtMostOnce, OnWire
<1>7. CASE SendCover(t)
  <2>1. UNCHANGED <<inbox, mixPool, batch, jittered, lost, wire>> /\ Mail' = Mail
    BY <1>1, <1>7, AcceptLog DEF SendCover, mailVars, fateVars
  <2>2. Store' = Store
    BY <2>1 DEF Store, Kept, InFlight
  <2>3. Where' = Where
    BY <2>1 DEF Where, At, Ids, OnWire
  <2>4. Placed(Where, Mail)'
    BY <2>1, <2>3 DEF FateInv, Placed
  <2>. QED  BY <1>4, <1>6, <2>1, <2>2, <2>4 DEF FateInv
<1>8. CASE SendMixed(t)
  <2>1. /\ UNCHANGED <<inbox, batch, jittered, lost, wire>> /\ Kept' = Kept
        /\ mixPool' = mixPool \cup {n} /\ t.mode # "cover"
    BY <1>8 DEF SendMixed, Pool, fateVars, Kept
  <2>2. Where'["pool"] = Where["pool"] \cup {NewId}
    <3>. HIDE DEF n
    <3>1. Ids(mixPool)' = Ids(mixPool) \cup {n.id}
      BY <2>1 DEF Ids
    <3>. QED  BY <1>2, <3>1, WhereIs, WhereIsThen
  <2>3. \A o \in Place \ {"pool"} : Where'[o] = Where[o]
    BY <2>1 DEF Where, At, Ids, OnWire, Place
  <2>4. Placed(Where, Mail)'
    BY <1>5, <2>1, <2>2, <2>3 DEF Place
  <2>5. \A x \in Store' : x \in Store \/ (x = n /\ \A y \in Store' : y = x \/ y \in Store)
    BY <2>1 DEF Store, InFlight
  <2>. QED  BY <1>4, <1>6, <2>1, <2>4, <2>5 DEF FateInv, SameMessage
<1>9. CASE SendUnmixed(t)
  <2>1. /\ UNCHANGED <<mixPool, batch, jittered>> /\ t.mode # "cover"
        /\ DeliverMixed(n)
    BY <1>9 DEF SendUnmixed, Told
  <2>2. PICK q \in {"inbox", "wire", "lost"} :
          /\ Where'[q] = Where[q] \cup {NewId}
          /\ \A o \in {"inbox", "wire", "lost"} \ {q} : Where'[o] = Where[o]
    <3>. HIDE DEF n
    <3>. QED  BY <1>1, <1>2, <2>1, DeliverMixedPlace
  <2>3. \A o \in {"pool", "batch", "jitter"} : Where'[o] = Where[o]
    BY <2>1 DEF Where, At, Ids, Place
  <2>4. Placed(Where, Mail)'
    <3>1. q \in Place /\ \A o \in Place \ {q} : Where'[o] = Where[o]
      BY <2>2, <2>3 DEF Place
    <3>. QED  BY <1>5, <2>1, <2>2, <3>1
  <2>5. \A x \in Store' : \/ x \in Store
                          \/ SameMessage(x, n) /\ \A y \in Store' : y = x \/ y \in Store
    <3>. HIDE DEF n
    <3>1. Kept' = Kept \/ \E e \in Item : SameMessage(e, n) /\ Kept' = Kept \cup {e}
      BY <1>1, <1>2, <2>1, DeliverMixedFate
    <3>2. InFlight' = InFlight
      BY <2>1 DEF InFlight
    <3>. QED  BY <3>1, <3>2 DEF Store
  <2>6. AtMostOnce'
    <3>1. log'[n.id].mode = n.mode
      BY <1>1, <1>2, AcceptLog
    <3>2. /\ \A c \in Client : n.id \notin OnWire(c)
          /\ \A c \in Client : \A id \in OnWire(c) : log'[id].mode = log[id].mode
      BY <1>2, <1>3
    <3>. HIDE DEF n
    <3>. QED  BY <1>1, <1>2, <2>1, <3>1, <3>2, DeliverMixedOnce DEF FateInv
  <2>. QED  BY <1>4, <2>1, <2>4, <2>5, <2>6 DEF FateInv
<1>. QED  BY <1>7, <1>8, <1>9

\* FateInv holds at first.
LEMMA FateInit == Init => FateInv
<1>. SUFFICES ASSUME Init PROVE FateInv
  OBVIOUS
<1>1. RegistrationInv
  BY RegistrationInit
<1>2. Store = {} /\ Mail = {}
  <2>1. \A r \in Recipient : inbox[r] = {}
    BY DEF Init
  <2>2. Kept = {}
    BY <2>1 DEF Kept
  <2>. QED  BY <2>2 DEF Init, Store, InFlight, Mail
<1>3. \A c \in Client : wire[c] = <<>>
  BY DEF Init
<1>4. \A p \in Place : Where[p] = {}
  <2>1. \A c \in Client : OnWire(c) = {}
    BY <1>3 DEF OnWire
  <2>2. Kept = {} /\ mixPool = {} /\ batch = {} /\ jittered = {} /\ lost = {}
    BY <1>2 DEF Init, Store
  <2>3. Ids({}) = {}
    BY DEF Ids
  <2>4. /\ Where["inbox"] = {} /\ Where["pool"] = {} /\ Where["batch"] = {}
        /\ Where["jitter"] = {} /\ Where["lost"] = {}
    BY <2>2, <2>3, WhereIs
  <2>5. Where["wire"] = {}
    BY <2>1, WhereIs
  <2>. QED  BY <2>4, <2>5 DEF Place
<1>5. Logged /\ OneItem
  BY <1>2 DEF Logged, OneItem
<1>6. Placed(Where, Mail)
  BY <1>2, <1>4 DEF Placed
<1>7. AtMostOnce
  BY <1>3 DEF AtMostOnce
<1>. QED  BY <1>1, <1>5, <1>6, <1>7 DEF FateInv

\* FateInv is preserved by every step.
LEMMA FateNext ==
  ASSUME FateInv, [Next]_vars
  PROVE  FateInv'
<1>1. RegistrationInv /\ RegistrationInv'
  BY RegistrationNext DEF FateInv
<1>2. CASE UNCHANGED <<inbox, mixPool, batch, jittered, lost, wire, log>>
  <2>1. Store' = Store /\ Mail' = Mail
    BY <1>2 DEF Store, Kept, InFlight, Mail
  <2>2. Where' = Where
    BY <1>2 DEF Where, At, Ids, OnWire
  <2>3. Placed(Where, Mail)'
    BY <2>1, <2>2 DEF FateInv, Placed
  <2>. QED  BY <1>1, <1>2, <2>1, <2>3 DEF FateInv, Logged, OneItem, AtMostOnce
<1>. QED
  BY <1>1, <1>2, MailSteps, FateCatchUp, FateWindow, FateResolve, FateSubmit, FateSweep

\* FateInv holds in every reachable state.
LEMMA FateCorrect == Spec => []FateInv
BY FateInit, FateNext, PTL DEF Spec

------------------------------------------------------------------------------
(* What follows about messages.                                              *)

\* Every message a sender submitted is at exactly one place, wherever mixing,
\* jitter, catch-ups, requeues and the sweep move it; a cover frame is at none.
THEOREM ConservationAlways == Spec => []Conservation
<1>1. ASSUME FateInv PROVE Conservation
  <2>. SUFFICES ASSUME NEW id \in 1..Len(log)
                PROVE  IF log[id].mode = "cover" THEN \A p \in Place : id \notin At(p)
                       ELSE \E p \in Place : /\ id \in At(p)
                                             /\ \A q \in Place : id \in At(q) => q = p
    BY DEF Conservation
  <2>1. \A p \in Place : Where[p] = At(p)
    BY DEF Where
  <2>2. Placed(Where, Mail)
    BY <1>1 DEF FateInv
  <2>3. CASE log[id].mode = "cover"
    BY <2>1, <2>2, <2>3 DEF Placed, Mail
  <2>4. CASE log[id].mode # "cover"
    <3>1. id \in Mail
      BY <2>4 DEF Mail
    <3>. QED  BY <2>1, <2>2, <2>4, <3>1 DEF Placed
  <2>. QED  BY <2>3, <2>4
<1>2. FateInv => Conservation
  BY <1>1
<1>. QED  BY <1>2, FateCorrect, PTL

\* No message is written twice to a connection, and a pair message is written to
\* one connection only.
THEOREM AtMostOnceAlways == Spec => []AtMostOnce
<1>1. FateInv => AtMostOnce
  BY DEF FateInv
<1>. QED  BY <1>1, FateCorrect, PTL

------------------------------------------------------------------------------
(* What is written, and to whom.                                             *)

\* The messages a step can write: one in flight, or the one just submitted.
Writable == batch \cup jittered \cup {NewItem(t) : t \in Traffic}

\* Whatever a step writes to a connection is a message that is not too old, and
\* the connection is one of its targets at that moment.
LEMMA WrittenIs ==
  ASSUME FateInv, [Next]_vars, NEW c \in Client, NEW id \in Written(c)
  PROVE  \E item \in Writable :
           /\ item \in Item /\ item.id = id
           /\ c \in Targets(item) /\ ~Expired(item.ts)
           /\ log'[id].to = item.to /\ log'[id].mode = item.mode /\ log'[id].ts = item.ts
<1>1. TypeInv /\ wire \in [Client -> Seq(Nat)]
  BY DEF FateInv, RegistrationInv, TypeInv, TypeOK
<1>2. ASSUME UNCHANGED wire  PROVE FALSE
  <2>1. Len(wire[c]) \in Nat
    BY <1>1
  <2>. QED  BY <1>2, <2>1 DEF Written
<1>3. ASSUME NEW item \in Item, DeliverMixed(item)
      PROVE  id = item.id /\ c \in Targets(item) /\ ~Expired(item.ts)
  <2>. DEFINE T == Targets(item)
              i == item.id
  <2>1. /\ T \in SUBSET Client /\ i \in Nat
        /\ ~Expired(item.ts)
        /\ wire' = [d \in Client |-> IF d \in T THEN Append(wire[d], i) ELSE wire[d]]
    BY <1>1, <1>2, <1>3, DeliverMixedFate DEF Targets, Item
  <2>. HIDE DEF T, i
  <2>2. /\ c \notin T => wire'[c] = wire[c]
        /\ c \in T => Len(wire'[c]) = Len(wire[c]) + 1 /\ wire'[c][Len(wire[c]) + 1] = i
        /\ Len(wire[c]) \in Nat
    BY <1>1, <2>1, AppendOnWire
  <2>3. c \in T
    <3>. SUFFICES ASSUME c \notin T PROVE FALSE
      OBVIOUS
    <3>. QED  BY <2>2 DEF Written
  <2>4. \A k \in (Len(wire[c]) + 1)..Len(wire'[c]) : k = Len(wire[c]) + 1
    BY <2>2, <2>3
  <2>5. id = i
    BY <2>2, <2>3, <2>4 DEF Written
  <2>. QED  BY <2>1, <2>3, <2>5 DEF T, i
<1>4. ASSUME NEW item \in batch \cup jittered, ResolveItem(item)
      PROVE  \E x \in Writable :
               /\ x \in Item /\ x.id = id
               /\ c \in Targets(x) /\ ~Expired(x.ts)
               /\ log'[id].to = x.to /\ log'[id].mode = x.mode /\ log'[id].ts = x.ts
  <2>1. item \in Store /\ item \in Item /\ item \in Writable
    BY <1>1, StoreType DEF Store, InFlight, Writable
  <2>2. log' = log /\ log[item.id].to = item.to /\ log[item.id].mode = item.mode
        /\ log[item.id].ts = item.ts
    BY <1>4, <2>1 DEF FateInv, Logged, ResolveItem
  <2>3. id = item.id /\ c \in Targets(item) /\ ~Expired(item.ts)
    BY <1>3, <1>4, <2>1 DEF ResolveItem
  <2>. QED  BY <2>1, <2>2, <2>3
<1>5. ASSUME NEW t \in Traffic, SendUnmixed(t)
      PROVE  \E x \in Writable :
               /\ x \in Item /\ x.id = id
               /\ c \in Targets(x) /\ ~Expired(x.ts)
               /\ log'[id].to = x.to /\ log'[id].mode = x.mode /\ log'[id].ts = x.ts
  <2>. DEFINE n == NewItem(t)
  <2>1. Accept(t) /\ DeliverMixed(n)
    BY <1>5 DEF SendUnmixed, Told
  <2>2. n \in Item /\ n.id = NewId /\ n.to = t.to /\ n.mode = t.mode /\ n.ts = now
    BY <1>1, <2>1, AcceptType DEF NewItem
  <2>3. n \in Writable
    BY DEF Writable
  <2>. HIDE DEF n
  <2>4. id = n.id /\ c \in Targets(n) /\ ~Expired(n.ts)
    BY <1>3, <2>1, <2>2
  <2>5. log'[NewId].to = t.to /\ log'[NewId].mode = t.mode /\ log'[NewId].ts = now
    BY <1>1, <2>1, AcceptLog
  <2>. QED  BY <2>2, <2>3, <2>4, <2>5
<1>6. RegistrationInv
  BY DEF FateInv
<1>7. ASSUME NEW t \in Traffic, SendCover(t) \/ SendMixed(t)
      PROVE  FALSE
  BY <1>2, <1>7 DEF SendCover, SendMixed, fateVars
<1>8. ASSUME NEW r \in Recipient, NEW d \in Client \cup {None}, CatchUp(r, d)
      PROVE  FALSE
  BY <1>2, <1>8 DEF CatchUp
<1>9. ASSUME FlushMixBatch \/ Sweep \/ \E item \in batch : DelayNext(item)
      PROVE  FALSE
  BY <1>2, <1>9 DEF FlushMixBatch, Sweep, DelayNext, fateVars
<1>10. CASE UNCHANGED <<inbox, mixPool, batch, jittered, lost, wire, log>>
  BY <1>2, <1>10
<1>. QED  BY <1>4, <1>5, <1>6, <1>7, <1>8, <1>9, <1>10, MailSteps

\* Mixing, jitter and the catch-ups never resurrect a message past its TTL.
THEOREM NeverPastTTLAlways == Spec => NeverPastTTL
<1>. DEFINE InTime == \A c \in Client : \A id \in Written(c) : now - log'[id].ts <= QueueTTL
<1>1. ASSUME FateInv, [Next]_vars  PROVE InTime
  <2>. SUFFICES ASSUME NEW c \in Client, NEW id \in Written(c)
                PROVE  now - log'[id].ts <= QueueTTL
    OBVIOUS
  <2>1. PICK item \in Item : ~Expired(item.ts) /\ log'[id].ts = item.ts
    BY <1>1, WrittenIs
  <2>2. item.ts \in Nat /\ now \in Nat /\ QueueTTL \in Nat
    BY <1>1, RelayAssumption DEF Item, FateInv, RegistrationInv, TypeInv, TypeOK
  <2>. QED  BY <2>1, <2>2 DEF Expired
<1>2. FateInv /\ [Next]_vars => [InTime]_vars
  BY <1>1
<1>. QED  BY <1>2, FateCorrect, PTL DEF Spec, NeverPastTTL

\* A message is written only to a connection it is for at that moment: the one
\* that holds its address, or one that subscribes to the id it is for; and a pair
\* message for an address reaches a mere subscriber only if a subscription to that
\* address took it from the inbox.
THEOREM OnlyTheAddresseeAlways == Spec => OnlyTheAddressee
<1>. DEFINE Its(c, id) ==
              LET to == log'[id].to
              IN \/ to \in Address /\ pk[c] = to
                 \/ /\ c \in groups[to]
                    /\ (to \in Address /\ log'[id].mode = "pair") => id \in taken
            ForIt == \A c \in Client : \A id \in Written(c) : Its(c, id)
<1>1. ASSUME FateInv, [Next]_vars  PROVE ForIt
  <2>. SUFFICES ASSUME NEW c \in Client, NEW id \in Written(c)
                PROVE  Its(c, id)
    OBVIOUS
  <2>1. PICK item \in Writable :
          /\ item \in Item /\ c \in Targets(item)
          /\ log'[id].to = item.to /\ log'[id].mode = item.mode /\ item.id = id
    BY <1>1, WrittenIs
  <2>2. IsAlive(c) /\ c # None
    BY <2>1 DEF Targets, IsAlive
  <2>3. CASE item.directTo # None
    <3>1. item.directTo = c
      BY <2>1, <2>3 DEF Targets
    <3>2. item \in InFlight
      BY <2>1, <2>3 DEF Writable, NewItem, InFlight
    <3>3. c \in groups[item.to] /\ (item.to \in Address => id \in taken)
      BY <1>1, <2>1, <2>2, <2>3, <3>1, <3>2 DEF FateInv, RegistrationInv, Routed, IsAlive
    <3>. QED  BY <2>1, <3>3
  <2>4. CASE item.directTo = None /\ item.mode = "group"
    BY <2>1, <2>4 DEF Targets
  <2>5. CASE item.directTo = None /\ item.mode # "group"
    <3>1. item.to \in Address /\ online[item.to] = c
      BY <2>1, <2>5 DEF Targets
    <3>2. pk[c] = item.to
      BY <1>1, <2>2, <3>1 DEF FateInv, RegistrationInv, OnlineMatchesPk
    <3>. QED  BY <2>1, <3>1, <3>2
  <2>. QED  BY <2>3, <2>4, <2>5
<1>2. FateInv /\ [Next]_vars => [ForIt]_vars
  BY <1>1
<1>. QED  BY <1>2, FateCorrect, PTL DEF Spec, OnlyTheAddressee

------------------------------------------------------------------------------
(* The relay implements Delivery.                                            *)

\* Held, the refinement mapping's word for waiting, is to be in the store.
LEMMA HeldIs ==
  /\ \A id : Held(id) <=> id \in Ids(Store)
  /\ \A id : Held(id)' <=> id \in Ids(Store)'
<1>1. \A id : Held(id) <=> \E p \in {"inbox", "pool", "batch", "jitter"} : id \in Where[p]
  BY DEF Held, Where, Place
<1>2. \A id : Held(id)' <=> \E p \in {"inbox", "pool", "batch", "jitter"} : id \in Where'[p]
  BY DEF Held, Where, Place
<1>3. \A id : id \in Ids(Store) <=>
        id \in Ids(Kept) \/ id \in Ids(mixPool) \/ id \in Ids(batch) \/ id \in Ids(jittered)
  BY DEF Ids, Store, InFlight
<1>4. \A id : id \in Ids(Store)' <=>
        id \in Ids(Kept)' \/ id \in Ids(mixPool)' \/ id \in Ids(batch)' \/ id \in Ids(jittered)'
  BY DEF Ids, Store, InFlight
<1>5. \A id : Held(id) <=> id \in Ids(Store)
  BY <1>1, <1>3, WhereIs
<1>6. \A id : Held(id)' <=> id \in Ids(Store)'
  BY <1>2, <1>4, WhereIsThen
<1>. QED  BY <1>5, <1>6

\* Every message has one of the fates that Delivery knows.
Fated == \A id \in 1..Len(log) : FateOf(id) \in Promise!Fate

\* Under FateInv every message of the log has a fate of the abstract specification.
LEMMA FateInvFated == FateInv => Fated
<1>. SUFFICES ASSUME FateInv, NEW id \in 1..Len(log)
              PROVE  FateOf(id) \in Promise!Fate
  BY DEF Fated
<1>1. log[id].mode \in Mode
  <2>1. log \in Seq([to : Recipient, mode : Mode, ts : Nat])
    BY DEF FateInv, RegistrationInv, TypeInv, TypeOK
  <2>. DEFINE R == [to : Recipient, mode : Mode, ts : Nat]
  <2>2. \A m \in R : m.mode \in Mode
    OBVIOUS
  <2>. HIDE DEF R
  <2>3. log[id] \in R
    BY <2>1, ElementOfSeq DEF R
  <2>. QED  BY <2>2, <2>3
<1>2. /\ Held(id) <=> id \in Ids(Store)
      /\ Receivers(id) \in SUBSET Client
      /\ \A c \in Client : c \in Receivers(id) <=> id \in OnWire(c)
  BY HeldIs DEF Receivers
<1>3. CASE log[id].mode = "cover"
  <2>1. id \notin Mail
    BY <1>3 DEF Mail
  <2>2. ~Held(id)
    BY <1>2, <2>1 DEF FateInv, Logged, Ids
  <2>3. Receivers(id) = {}
    <3>1. \A c \in Client : OnWire(c) \subseteq Where["wire"]
      BY WhereIs
    <3>2. Where["wire"] \subseteq Mail
      BY DEF FateInv, Placed, Place
    <3>. QED  BY <1>2, <2>1, <3>1, <3>2
  <2>4. FateOf(id) = [mode |-> "cover", state |-> "discarded", to |-> {}]
    BY <1>3, <2>2, <2>3 DEF FateOf
  <2>. QED  BY <2>4 DEF Promise!Fate
<1>4. CASE log[id].mode # "cover" /\ (Held(id) \/ Receivers(id) = {})
  <2>1. FateOf(id).mode \in {"pair", "group"} /\ FateOf(id).state \in {"held", "lost"} /\ FateOf(id).to = {}
    BY <1>1, <1>4 DEF FateOf, Mode
  <2>2. FateOf(id) \in [mode : {"pair", "group"}, state : {"held", "lost"}, to : {{}}]
    BY <2>1 DEF FateOf
  <2>. QED  BY <2>2 DEF Promise!Fate
<1>5. CASE log[id].mode # "cover" /\ ~Held(id) /\ Receivers(id) # {}
  <2>1. FateOf(id) = [mode |-> log[id].mode, state |-> "written", to |-> Receivers(id)]
    BY <1>5 DEF FateOf
  <2>2. CASE log[id].mode = "group"
    BY <1>2, <1>5, <2>1, <2>2 DEF Promise!Fate
  <2>3. CASE log[id].mode = "pair"
    <3>1. PICK c \in Client : c \in Receivers(id)
      BY <1>2, <1>5
    <3>2. \A d \in Receivers(id) : d = c
      <4>. SUFFICES ASSUME NEW d \in Receivers(id), d # c PROVE FALSE
        OBVIOUS
      <4>1. PICK i \in 1..Len(wire[c]) : wire[c][i] = id
        BY <1>2, <3>1 DEF OnWire
      <4>2. PICK j \in 1..Len(wire[d]) : wire[d][j] = id
        BY <1>2 DEF OnWire
      <4>. QED  BY <1>2, <2>3, <4>1, <4>2 DEF FateInv, AtMostOnce
    <3>3. Receivers(id) = {c}
      BY <3>1, <3>2
    <3>. QED  BY <2>1, <2>3, <3>3 DEF Promise!Fate
  <2>. QED  BY <1>1, <1>5, <2>2, <2>3 DEF Mode
<1>. QED  BY <1>3, <1>4, <1>5

\* A step either submits a message and leaves the others where they are, or moves
\* messages that are held.
LEMMA FateStep ==
  ASSUME FateInv, [Next]_vars
  PROVE  \/ /\ \E t \in Traffic : Accept(t)
            /\ \A id \in 1..Len(log) : id \in Ids(Store)' <=> id \in Ids(Store)
            /\ \A id \in 1..Len(log), c \in Client : id \in OnWire(c)' <=> id \in OnWire(c)
         \/ /\ UNCHANGED log
            /\ Ids(Store)' \subseteq Ids(Store)
            /\ \A id \in 1..Len(log), c \in Client :
                 id \notin Ids(Store) => (id \in OnWire(c)' <=> id \in OnWire(c))
<1>1. TypeInv /\ RegistrationInv
  BY DEF FateInv, RegistrationInv
<1>2. UNCHANGED wire => \A c \in Client : OnWire(c)' = OnWire(c)
  BY DEF OnWire
<1>3. CASE UNCHANGED <<inbox, mixPool, batch, jittered, lost, wire, log>>
  BY <1>2, <1>3 DEF Store, Kept, InFlight, Ids
<1>4. ASSUME NEW r \in Recipient, NEW d \in Client \cup {None}, CatchUp(r, d)
      PROVE  UNCHANGED <<wire, log>> /\ Ids(Store)' \subseteq Ids(Store)
  <2>1. PICK E \in SUBSET Item :
           /\ \A e \in E : \E x \in inbox[r] : SameMessage(e, x)
           /\ \/ MixOff /\ batch' = E /\ UNCHANGED mixPool
              \/ ~MixOff /\ mixPool' = mixPool \cup E /\ UNCHANGED batch
    BY <1>1, <1>4, CatchUpItems
  <2>2. \A s \in Recipient : inbox'[s] \subseteq inbox[s]
    BY <1>1, <1>4 DEF CatchUp, TakeInbox, TypeInv, TypeOK
  <2>3. Kept' \subseteq Kept /\ inbox[r] \subseteq Kept /\ UNCHANGED jittered
    BY <1>4, <2>2 DEF Kept, CatchUp
  <2>4. \A x \in Store' : \E y \in Store : x.id = y.id
    BY <2>1, <2>3 DEF Store, InFlight, SameMessage
  <2>. QED  BY <1>4, <2>4 DEF CatchUp, Ids
<1>5. ASSUME FlushMixBatch \/ Sweep \/ \E item \in batch : DelayNext(item)
      PROVE  UNCHANGED <<wire, log>> /\ Ids(Store)' \subseteq Ids(Store)
  <2>1. UNCHANGED <<wire, log>> /\ Kept' \subseteq Kept /\ InFlight' \subseteq InFlight
    BY <1>5 DEF FlushMixBatch, Sweep, DelayNext, fateVars, Kept, InFlight
  <2>. QED  BY <2>1 DEF Ids, Store
<1>6. ASSUME NEW item \in Item, DeliverMixed(item)
      PROVE  /\ \A x \in Kept' : x \in Kept \/ x.id = item.id
             /\ Kept \subseteq Kept'
             /\ \A c \in Client : OnWire(c) \subseteq OnWire(c)' /\ OnWire(c)' \subseteq OnWire(c) \cup {item.id}
  <2>1. CASE UNCHANGED wire
    BY <1>1, <1>2, <1>6, <2>1, DeliverMixedFate DEF SameMessage
  <2>2. CASE ~UNCHANGED wire
    <3>. DEFINE T == Targets(item)
                i == item.id
    <3>1. /\ T \in SUBSET Client /\ i \in Nat /\ wire \in [Client -> Seq(Nat)]
          /\ Kept' = Kept
          /\ wire' = [c \in Client |-> IF c \in T THEN Append(wire[c], i) ELSE wire[c]]
      BY <1>1, <1>6, <2>2, DeliverMixedFate DEF Targets, Item, TypeInv, TypeOK
    <3>. HIDE DEF T, i
    <3>2. \A c \in Client : OnWire(c)' = IF c \in T THEN OnWire(c) \cup {i} ELSE OnWire(c)
      BY <3>1, AppendOnWire
    <3>. QED  BY <3>1, <3>2 DEF i
  <2>. QED  BY <2>1, <2>2
<1>7. ASSUME NEW item \in batch \cup jittered, ResolveItem(item)
      PROVE  /\ UNCHANGED log
             /\ Ids(Store)' \subseteq Ids(Store)
             /\ \A id \in 1..Len(log), c \in Client :
                  id \notin Ids(Store) => (id \in OnWire(c)' <=> id \in OnWire(c))
  <2>1. item \in Store /\ item \in Item /\ item.id \in Ids(Store)
    BY <1>1, StoreType DEF Store, InFlight, Ids
  <2>2. UNCHANGED log /\ InFlight' \subseteq InFlight /\ DeliverMixed(item)
    BY <1>7 DEF ResolveItem, InFlight
  <2>3. \A x \in Store' : x \in Store \/ x.id = item.id
    BY <1>6, <2>1, <2>2 DEF Store
  <2>4. Ids(Store)' \subseteq Ids(Store)
    BY <2>1, <2>3 DEF Ids
  <2>. QED  BY <1>6, <2>1, <2>2, <2>4
<1>8. ASSUME NEW t \in Traffic, SendCover(t) \/ SendMixed(t) \/ SendUnmixed(t)
      PROVE  /\ Accept(t)
             /\ \A id \in 1..Len(log) : id \in Ids(Store)' <=> id \in Ids(Store)
             /\ \A id \in 1..Len(log), c \in Client : id \in OnWire(c)' <=> id \in OnWire(c)
  <2>. DEFINE n == NewItem(t)
  <2>1. Accept(t)
    BY <1>8 DEF SendCover, SendMixed, SendUnmixed
  <2>2. n \in Item /\ n.id = NewId
    BY <1>1, <2>1, AcceptType DEF NewItem
  <2>3. NewId \notin 1..Len(log)
    BY <1>1 DEF NewId, TypeInv, TypeOK
  <2>4. CASE SendCover(t)
    BY <1>2, <2>1, <2>4 DEF SendCover, mailVars, fateVars, Store, Kept, InFlight, Ids
  <2>5. CASE SendMixed(t)
    <3>1. UNCHANGED wire /\ Store' = Store \cup {n}
      BY <2>5 DEF SendMixed, Pool, fateVars, Store, Kept, InFlight
    <3>. HIDE DEF n
    <3>2. Ids(Store)' = Ids(Store) \cup {NewId}
      BY <2>2, <3>1 DEF Ids
    <3>. QED  BY <1>2, <2>1, <2>3, <3>1, <3>2
  <2>6. CASE SendUnmixed(t)
    <3>1. DeliverMixed(n) /\ InFlight' = InFlight
      BY <2>6 DEF SendUnmixed, Told, InFlight
    <3>. HIDE DEF n
    <3>2. /\ \A x \in Store' : x \in Store \/ x.id = NewId
          /\ Store \subseteq Store'
          /\ \A c \in Client : OnWire(c) \subseteq OnWire(c)' /\ OnWire(c)' \subseteq OnWire(c) \cup {NewId}
      BY <1>6, <2>2, <3>1 DEF Store
    <3>3. Ids(Store) \subseteq Ids(Store)' /\ Ids(Store)' \subseteq Ids(Store) \cup {NewId}
      BY <3>2 DEF Ids
    <3>. QED  BY <2>1, <2>3, <3>2, <3>3
  <2>. QED  BY <1>8, <2>4, <2>5, <2>6
<1>9. CASE \/ \E r \in Recipient, d \in Client \cup {None} : CatchUp(r, d)
           \/ FlushMixBatch \/ Sweep \/ \E item \in batch : DelayNext(item)
  <2>1. UNCHANGED <<wire, log>> /\ Ids(Store)' \subseteq Ids(Store)
    BY <1>4, <1>5, <1>9
  <2>2. \A c \in Client : OnWire(c)' = OnWire(c)
    BY <1>2, <2>1
  <2>. QED  BY <2>1, <2>2
<1>10. CASE \E item \in batch \cup jittered : ResolveItem(item)
  BY <1>7, <1>10
<1>11. CASE \E t \in Traffic : SendCover(t) \/ SendMixed(t) \/ SendUnmixed(t)
  BY <1>8, <1>11
<1>. QED  BY <1>1, <1>3, <1>9, <1>10, <1>11, MailSteps

\* Each step of the relay is a step of Delivery, or none: a submission appends one
\* fate and alters no other, and nothing but a held message changes its fate.
THEOREM RelayKeepsPromise == Spec => KeepsPromise
<1>. DEFINE fates == [id \in 1..Len(log) |-> FateOf(id)]
<1>1. Init => Promise!Init
  <2>. SUFFICES ASSUME Init PROVE fates = <<>>
    BY DEF Promise!Init
  <2>1. Len(log) = 0
    BY DEF Init
  <2>. QED  BY <2>1
<1>2. ASSUME FateInv, FateInv', Fated', [Next]_vars
      PROVE  Promise!Next \/ UNCHANGED fates
  <2>1. /\ Len(log) \in Nat /\ log \in Seq([to : Recipient, mode : Mode, ts : Nat])
        /\ Len(log') \in Nat
    BY <1>2 DEF FateInv, RegistrationInv, TypeInv, TypeOK
  <2>2. Len(fates) = Len(log) /\ Len(fates') = Len(log')
    BY <2>1
  <2>3. \A id \in 1..Len(log) : fates[id] = FateOf(id)
    OBVIOUS
  <2>4. \A id \in 1..Len(log') : fates'[id] = FateOf(id)' /\ fates'[id] \in Promise!Fate
    BY <1>2 DEF Fated
  <2>5. \A id \in 1..Len(log) :
          /\ FateOf(id).mode = log[id].mode
          /\ FateOf(id).state = "held" <=> id \in Ids(Store)
    BY HeldIs DEF FateOf
  <2>6. CASE /\ \E t \in Traffic : Accept(t)
             /\ \A id \in 1..Len(log) : id \in Ids(Store)' <=> id \in Ids(Store)
             /\ \A id \in 1..Len(log), c \in Client : id \in OnWire(c)' <=> id \in OnWire(c)
    <3>1. PICK t \in Traffic : Accept(t)
      BY <2>6
    <3>2. Len(log') = Len(log) + 1 /\ \A id \in 1..Len(log) : log'[id] = log[id]
      BY <1>2, <3>1, AcceptLog DEF FateInv, RegistrationInv, NewId
    <3>3. ASSUME NEW id \in 1..Len(log)  PROVE fates'[id] = fates[id]
      <4>1. Held(id)' <=> Held(id)
        BY <2>6, HeldIs
      <4>2. Receivers(id)' = Receivers(id)
        BY <2>6 DEF Receivers
      <4>3. FateOf(id)' = FateOf(id)
        BY <3>2, <4>1, <4>2 DEF FateOf
      <4>. QED  BY <2>1, <2>3, <2>4, <3>2, <4>3
    <3>. DEFINE f == fates'[Len(log) + 1]
    <3>4. f \in Promise!Fate
      BY <2>1, <2>4, <3>2
    <3>5. fates' = Append(fates, f)
      <4>. DEFINE F == {fates[id] : id \in 1..Len(log)} \cup {f}
      <4>1. fates \in Seq(F)
        <5>. DEFINE m == Len(log)  s == fates
        <5>1. s \in [1..m -> F] /\ m \in Nat
          BY <2>1
        <5>. HIDE DEF s, m, F
        <5>2. s \in Seq(F)
          BY <5>1, SeqDef
        <5>. QED  BY <5>2 DEF s
      <4>2. fates' \in Seq(F)
        <5>1. \A id \in 1..Len(log') : fates'[id] \in F
          BY <2>1, <3>2, <3>3
        <5>. DEFINE m == Len(log')  u == fates'
        <5>2. u \in [1..m -> F] /\ m \in Nat
          BY <2>1, <5>1
        <5>. HIDE DEF u, m, F
        <5>3. u \in Seq(F)
          BY <5>2, SeqDef
        <5>. QED  BY <5>3 DEF u
      <4>3. f \in F
        OBVIOUS
      <4>. DEFINE s == fates
                  u == fates'
                  e == f
                  n == Len(log)
      <4>4. /\ Len(u) = n + 1 /\ Len(s) = n /\ u[n + 1] = e
            /\ \A id \in 1..n : u[id] = s[id]
        BY <2>2, <3>2, <3>3
      <4>5. n \in Nat /\ s \in Seq(F) /\ u \in Seq(F) /\ e \in F
        BY <2>1, <4>1, <4>2, <4>3
      <4>. HIDE DEF s, u, e, n, F
      <4>6. /\ Append(s, e) \in Seq(F)
            /\ Len(Append(s, e)) = n + 1
            /\ \A id \in 1..n : Append(s, e)[id] = s[id]
            /\ Append(s, e)[n + 1] = e
        BY <4>4, <4>5, AppendProperties
      <4>7. \A id \in 1..Len(u) : u[id] = Append(s, e)[id]
        BY <4>4, <4>5, <4>6
      <4>8. u = Append(s, e)
        BY <4>4, <4>5, <4>6, <4>7, SeqEqual
      <4>. QED  BY <4>8 DEF s, u, e
    <3>. QED  BY <2>2, <3>2, <3>4, <3>5 DEF Promise!Next, Promise!Submit
  <2>7. CASE /\ UNCHANGED log
             /\ Ids(Store)' \subseteq Ids(Store)
             /\ \A id \in 1..Len(log), c \in Client :
                  id \notin Ids(Store) => (id \in OnWire(c)' <=> id \in OnWire(c))
    <3>1. ASSUME NEW id \in 1..Len(log)
          PROVE  \/ fates'[id] = fates[id]
                 \/ fates[id].state = "held" /\ fates'[id] \in {f \in Promise!Fate : f.mode = fates[id].mode}
      <4>1. CASE id \in Ids(Store)
        <5>1. FateOf(id)'.mode = FateOf(id).mode
          BY <2>7 DEF FateOf
        <5>. QED  BY <2>3, <2>4, <2>5, <2>7, <4>1, <5>1
      <4>2. CASE id \notin Ids(Store)
        <5>1. ~Held(id) /\ ~Held(id)'
          BY <2>7, <4>2, HeldIs
        <5>2. Receivers(id)' = Receivers(id)
          BY <2>7, <4>2 DEF Receivers
        <5>3. FateOf(id)' = FateOf(id)
          BY <2>7, <5>1, <5>2 DEF FateOf
        <5>. QED  BY <2>3, <2>4, <2>7, <5>3
      <4>. QED  BY <4>1, <4>2
    <3>. QED  BY <2>2, <2>7, <3>1 DEF Promise!Next, Promise!Resolve
  <2>. QED  BY <1>2, <2>6, <2>7, FateStep
<1>3. FateInv /\ FateInv' /\ Fated' /\ [Next]_vars => [Promise!Next]_fates
  BY <1>2
<1>. QED  BY <1>1, <1>3, FateInvFated, FateCorrect, PTL DEF Spec, KeepsPromise, Promise!Spec

------------------------------------------------------------------------------
(* The limits.                                                               *)

NeverQueued == Ephemeral => Queued = {}

\* The limits are inductive with what the checks of queueMessage count: finitely
\* many lists that are not empty, and none where nothing is ever queued.
QueueInv ==
  /\ RegistrationInv
  /\ QueuesBounded
  /\ IsFiniteSet(Queued)
  /\ NeverQueued

\* The ways a message is resolved: it is too old or refused, it is written, or it
\* is put behind the others of its recipient.
LEMMA DeliverMixedCases ==
  ASSUME TypeInv, NEW item \in Item, DeliverMixed(item)
  PROVE  \/ /\ UNCHANGED <<inbox, wire>>
            /\ \E why \in {"expired"} \cup Refusal(item.to) : lost' = lost \cup {<<item.id, why>>}
         \/ /\ Targets(item) # {} /\ UNCHANGED <<inbox, lost>>
            /\ wire' = [c \in Client |-> IF c \in Targets(item)
                                         THEN Append(wire[c], item.id) ELSE wire[c]]
         \/ /\ Targets(item) = {} /\ Refusal(item.to) = {} /\ UNCHANGED <<lost, wire>>
            /\ \E e \in Item :
                 /\ SameMessage(e, item) /\ e.pos = NextPos(item.to) /\ e.directTo = None
                 /\ inbox' = [inbox EXCEPT ![item.to] = inbox[item.to] \cup {e}]
<1>. DEFINE e == [item EXCEPT !.pos = NextPos(item.to), !.directTo = None]
<1>1. item.to \in Recipient /\ NextPos(item.to) \in Nat
  BY NextPosType DEF Item
<1>2. e \in Item /\ SameMessage(e, item) /\ e.pos = NextPos(item.to) /\ e.directTo = None
  BY <1>1 DEF Item, SameMessage
<1>. QED  BY <1>2 DEF DeliverMixed, QueueMessage, Lose

\* Lists that lose messages stay within the limits.
LEMMA QueueShrinks ==
  ASSUME QueueInv, TypeInv', \A r \in Recipient : inbox'[r] \subseteq inbox[r]
  PROVE  QueuesBounded' /\ IsFiniteSet(Queued)' /\ NeverQueued'
<1>1. ASSUME NEW r \in Recipient  PROVE Cardinality(inbox'[r]) <= MaxQueue
  <2>1. IsFiniteSet(inbox[r]) /\ inbox'[r] \in SUBSET inbox[r]
    BY <1>1 DEF QueueInv, RegistrationInv, TypeInv, FiniteInbox
  <2>2. /\ Cardinality(inbox'[r]) <= Cardinality(inbox[r])
        /\ Cardinality(inbox'[r]) \in Nat /\ Cardinality(inbox[r]) \in Nat
    BY <2>1, FS_Subset, FS_CardinalityType
  <2>. QED  BY <2>2, RelayAssumption DEF QueueInv, QueuesBounded
<1>2. Queued' \in SUBSET Queued /\ IsFiniteSet(Queued)
  BY DEF Queued, QueueInv
<1>3. /\ IsFiniteSet(Queued') /\ Cardinality(Queued') <= Cardinality(Queued)
      /\ Cardinality(Queued') \in Nat /\ Cardinality(Queued) \in Nat
  BY <1>2, FS_Subset, FS_CardinalityType
<1>4. Cardinality(Queued') <= MaxRecipients
  BY <1>3, RelayAssumption DEF QueueInv, QueuesBounded
<1>5. NeverQueued'
  BY <1>2 DEF NeverQueued, QueueInv
<1>. QED  BY <1>1, <1>3, <1>4, <1>5 DEF QueuesBounded

\* So do lists that grow by a message which was not refused.
LEMMA QueueGrows ==
  ASSUME QueueInv, NEW r \in Recipient, NEW e, Refusal(r) = {},
         inbox' = [inbox EXCEPT ![r] = inbox[r] \cup {e}]
  PROVE  QueuesBounded' /\ IsFiniteSet(Queued)' /\ NeverQueued'
<1>1. /\ ~Ephemeral
      /\ ~(Cardinality(inbox[r]) >= MaxQueue)
      /\ ~(inbox[r] = {} /\ Cardinality(Queued) >= MaxRecipients)
  BY DEF Refusal
<1>2. inbox \in [Recipient -> SUBSET Item] /\ IsFiniteSet(inbox[r]) /\ IsFiniteSet(Queued)
  BY DEF QueueInv, RegistrationInv, TypeInv, TypeOK, FiniteInbox
<1>3. /\ inbox'[r] = inbox[r] \cup {e}
      /\ \A s \in Recipient \ {r} : inbox'[s] = inbox[s]
  BY <1>2
<1>4. Queued' = Queued \cup {r}
  BY <1>3 DEF Queued
<1>5. /\ IsFiniteSet(Queued')
      /\ Cardinality(Queued') = IF r \in Queued THEN Cardinality(Queued) ELSE Cardinality(Queued) + 1
      /\ Cardinality(Queued) \in Nat
  BY <1>2, <1>4, FS_AddElement, FS_CardinalityType
<1>6. /\ Cardinality(inbox'[r]) <= Cardinality(inbox[r]) + 1
      /\ Cardinality(inbox[r]) \in Nat
  <2>1. Cardinality(inbox[r] \cup {e}) = IF e \in inbox[r] THEN Cardinality(inbox[r])
                                         ELSE Cardinality(inbox[r]) + 1
    BY <1>2, FS_AddElement
  <2>. QED  BY <1>2, <1>3, <2>1, FS_CardinalityType
<1>7. MaxQueue \in Nat /\ MaxRecipients \in Nat
  BY RelayAssumption
<1>8. Cardinality(inbox'[r]) <= MaxQueue
  <2>1. Cardinality(inbox'[r]) \in Nat
    BY <1>2, <1>3, FS_AddElement, FS_CardinalityType
  <2>. QED  BY <1>1, <1>6, <1>7, <2>1
<1>9. Cardinality(Queued') <= MaxRecipients
  <2>1. r \notin Queued => inbox[r] = {}
    BY DEF Queued
  <2>. QED  BY <1>1, <1>5, <1>7, <2>1 DEF QueueInv, QueuesBounded
<1>10. \A s \in Recipient : Cardinality(inbox'[s]) <= MaxQueue
  BY <1>3, <1>8 DEF QueueInv, QueuesBounded
<1>. QED  BY <1>1, <1>5, <1>9, <1>10 DEF QueuesBounded, NeverQueued

\* QueueInv holds at first.
LEMMA QueueInit == Init => QueueInv
<1>. SUFFICES ASSUME Init PROVE QueueInv
  OBVIOUS
<1>1. RegistrationInv
  BY RegistrationInit
<1>2. Queued = {} /\ \A r \in Recipient : inbox[r] = {}
  BY DEF Init, Queued
<1>3. MaxQueue \in Nat /\ MaxRecipients \in Nat
  BY RelayAssumption
<1>. QED  BY <1>1, <1>2, <1>3, FS_EmptySet DEF QueueInv, QueuesBounded, NeverQueued

\* QueueInv is preserved by every step.
LEMMA QueueNext ==
  ASSUME QueueInv, [Next]_vars
  PROVE  QueueInv'
<1>1. RegistrationInv /\ RegistrationInv' /\ TypeInv /\ TypeInv'
  BY RegistrationNext DEF QueueInv, RegistrationInv
<1>2. ASSUME \A r \in Recipient : inbox'[r] \subseteq inbox[r]  PROVE QueueInv'
  BY <1>1, <1>2, QueueShrinks DEF QueueInv
<1>3. ASSUME NEW item \in Item, DeliverMixed(item)  PROVE QueueInv'
  <2>1. CASE UNCHANGED inbox
    BY <1>2, <2>1
  <2>2. CASE Refusal(item.to) = {} /\ \E e : inbox' = [inbox EXCEPT ![item.to] = inbox[item.to] \cup {e}]
    <3>1. item.to \in Recipient
      BY DEF Item
    <3>. QED  BY <1>1, <2>2, <3>1, QueueGrows DEF QueueInv
  <2>. QED  BY <1>1, <1>3, <2>1, <2>2, DeliverMixedCases
<1>4. CASE \E r \in Recipient, d \in Client \cup {None} : CatchUp(r, d)
  <2>1. PICK r \in Recipient : TakeInbox(r)
    BY <1>4 DEF CatchUp
  <2>2. inbox \in [Recipient -> SUBSET Item]
    BY <1>1 DEF TypeInv, TypeOK
  <2>. QED  BY <1>2, <2>1, <2>2 DEF TakeInbox
<1>5. CASE \E item \in batch \cup jittered : ResolveItem(item)
  <2>1. batch \cup jittered \subseteq Item
    BY <1>1 DEF TypeInv, TypeOK
  <2>. QED  BY <1>3, <1>5, <2>1 DEF ResolveItem
<1>6. CASE \E t \in Traffic : SendCover(t) \/ SendMixed(t) \/ SendUnmixed(t)
  <2>. PICK t \in Traffic : SendCover(t) \/ SendMixed(t) \/ SendUnmixed(t)
    BY <1>6
  <2>1. Accept(t)
    BY DEF SendCover, SendMixed, SendUnmixed
  <2>2. NewItem(t) \in Item
    BY <1>1, <2>1, AcceptType
  <2>3. CASE SendUnmixed(t)
    BY <1>3, <2>2, <2>3 DEF SendUnmixed
  <2>. QED  BY <1>2, <2>3 DEF SendCover, SendMixed, mailVars
<1>7. CASE Sweep
  BY <1>2, <1>7 DEF Sweep
<1>8. CASE \/ UNCHANGED <<inbox, mixPool, batch, jittered, lost, wire, log>>
           \/ FlushMixBatch
           \/ \E item \in batch : DelayNext(item)
  BY <1>2, <1>8 DEF FlushMixBatch, DelayNext
<1>. QED  BY <1>1, <1>4, <1>5, <1>6, <1>7, <1>8, MailSteps

\* QueueInv holds in every reachable state.
LEMMA QueueCorrect == Spec => []QueueInv
BY QueueInit, QueueNext, PTL DEF Spec

\* The memory the relay spends on absent recipients is bounded, in messages per
\* recipient and in recipients, whatever returns to the lists from a mix window.
THEOREM QueuesBoundedAlways == Spec => []QueuesBounded
<1>1. QueueInv => QueuesBounded
  BY DEF QueueInv
<1>. QED  BY <1>1, QueueCorrect, PTL

------------------------------------------------------------------------------
(* With mixing off.                                                          *)

\* The list a registration collected is resolved for one recipient, and what is
\* left of it fits where it came from.
BatchOfOne == \A x, y \in batch : x.to = y.to /\ x.directTo = y.directTo

BatchFits ==
  \A it \in batch :
    /\ ~Ephemeral
    /\ Cardinality(batch) + Cardinality(inbox[it.to]) <= MaxQueue
    /\ Cardinality(Queued \cup {it.to}) <= MaxRecipients

\* Lists are in the order of acceptance, and what the running loop has put back is
\* older than what it still has to resolve.
ListInOrder == \A r \in Recipient : \A x, y \in inbox[r] : x.id < y.id => x.pos < y.pos

BatchInOrder == \A x, y \in batch : x.id < y.id => x.pos < y.pos

ListBeforeBatch == \A y \in batch : \A x \in inbox[y.to] : x.id < y.id

\* What was written is older than what is held for the same address.
WireBefore ==
  \A c \in Client : \A m \in OnWire(c) : \A it \in Kept \cup batch :
    (it.mode = "pair" /\ log[m].mode = "pair" /\ log[m].to = it.to) => m < it.id

\* A loop that can write a pair message has put back none before it.
BatchClear ==
  \A it \in batch : (it.mode = "pair" /\ Targets(it) # {}) =>
    \A x \in inbox[it.to] : x.mode # "pair"

\* Neither Fifo nor AckedIsKept is inductive: the loop of a catch-up puts back
\* what it cannot write, one message at a time, into lists that could be full or
\* hold a younger message.
LoopFits == IsFiniteSet(batch) /\ BatchOfOne /\ BatchFits

Promised == acked \subseteq 1..Len(log) /\ AckedIsKept

InTurn == ListInOrder /\ BatchInOrder /\ ListBeforeBatch /\ WireBefore /\ BatchClear /\ Fifo

\* Without a mix window a subscriber's catch-up is over before anyone can register, so
\* what it could not be given is put back for an owner who is not connected either.
OwnerServed ==
  /\ \A a \in Address : LiveOwner(a) => \A it \in inbox[a] : it.mode # "pair"
  /\ \A it \in batch : (it.directTo # None /\ it.to \in Address /\ it.mode = "pair") => ~LiveOwner(it.to)

UnmixedInv ==
  /\ FateInv
  /\ QueueInv
  /\ mixPool = {} /\ jittered = {}
  /\ LoopFits /\ Promised /\ InTurn
  /\ OwnerServed

\* A step of the running loop, or one that starts when there is none.
LEMMA UnmixedSteps ==
  ASSUME MixOff, UnmixedInv, [Next]_vars
  PROVE  /\ mixPool' = {} /\ jittered' = {}
         /\ \/ UNCHANGED <<connVars, inbox, batch, lost, wire, log, acked>>
            \/ \E item \in batch :
                 /\ NextUp(item) /\ DeliverMixed(item) /\ batch' = batch \ {item}
                 /\ UNCHANGED <<connVars, log, acked>>
            \/ /\ batch = {} /\ batch' = {}
               /\ \/ UNCHANGED <<inbox, lost, wire, log, acked>>
                  \/ \E t \in Traffic : SendCover(t) \/ SendUnmixed(t)
                  \/ Sweep
            \/ /\ batch = {} /\ UNCHANGED acked
               /\ \E r \in Recipient, d \in Client \cup {None} : CatchUp(r, d)
<1>1. /\ mixPool = {} /\ jittered = {} /\ ~mixTimer
      /\ RegistrationInv /\ TypeInv
  BY DEF UnmixedInv, QueueInv, RegistrationInv, WindowArmed
<1>2. CASE Connections
  BY <1>1, <1>2 DEF Connections, Connect, Closing, DropClient, mailVars, fateVars, Idle
<1>3. CASE Registrations \/ \E c \in Client, g \in Subscribable : Subscribe(c, g)
  <2>1. Idle /\ UNCHANGED <<acked, log, lost, wire, jittered>>
    BY <1>3 DEF Registrations, Publish, PublishInvalid, PublishRefused, PublishRegistered,
       Subscribe, Resuming, mailVars, fateVars
  <2>2. Len(log) \in Nat
    BY <1>1 DEF TypeInv, TypeOK
  <2>3. UNCHANGED mixPool
    BY <1>3, MixOff DEF Registrations, Publish, PublishInvalid, PublishRefused,
       PublishRegistered, Subscribe, EnqueueBacklog, mailVars
  <2>4. \/ UNCHANGED <<inbox, mixPool, batch, jittered, lost, wire, log>>
        \/ \E r \in Recipient, d \in Client \cup {None} : CatchUp(r, d)
        \/ Sweep
    <3>1. ASSUME NEW t \in Traffic, Accept(t)  PROVE FALSE
      BY <1>1, <2>1, <2>2, <3>1, AcceptLog DEF NewId
    <3>2. ~FlushMixBatch
      BY <1>1 DEF FlushMixBatch
    <3>. QED
      BY <1>1, <2>1, <3>1, <3>2, MailSteps DEF Idle, SendCover, SendMixed, SendUnmixed
  <2>. QED  BY <1>1, <2>1, <2>3, <2>4 DEF Idle, Sweep
<1>4. CASE \E t \in Traffic : SendCover(t) \/ SendMixed(t) \/ SendUnmixed(t)
  BY <1>1, <1>4, MixOff DEF SendCover, SendMixed, SendUnmixed, Accept, Idle, mailVars
<1>5. CASE Deliveries
  BY <1>1, <1>5, MixOff DEF Deliveries, FlushMixBatch, DeliverNext, DelayNext, Delayed, JitterFires
<1>6. CASE Tick \/ Sweep \/ UNCHANGED vars
  BY <1>1, <1>6 DEF Tick, Sweep, vars, mailVars, fateVars, connVars, Idle
<1>. QED  BY <1>2, <1>3, <1>4, <1>5, <1>6 DEF Next, Submissions

\* Every id the relay has anywhere was given to a submission.
LEMMA KnownIds ==
  ASSUME FateInv
  PROVE  /\ \A x \in Store : x.id \in 1..Len(log) /\ log[x.id].to = x.to /\ log[x.id].mode = x.mode
         /\ \A c \in Client : OnWire(c) \subseteq 1..Len(log)
         /\ \A l \in lost : l[1] \in 1..Len(log)
         /\ Len(log) \in Nat
<1>1. Where["wire"] \subseteq Mail /\ Where["lost"] \subseteq Mail
  BY DEF FateInv, Placed, Place
<1>2. \A c \in Client : OnWire(c) \subseteq Where["wire"]
  BY WhereIs
<1>3. \A l \in lost : l[1] \in Where["lost"]
  BY WhereIs
<1>4. Len(log) \in Nat
  BY DEF FateInv, RegistrationInv, TypeInv, TypeOK
<1>. QED  BY <1>1, <1>2, <1>3, <1>4 DEF Mail, FateInv, Logged

\* The place NextPos gives is behind every other in the list.
LEMMA NextPosBehind ==
  ASSUME TypeInv, NEW r \in Recipient
  PROVE  \A x \in inbox[r] : x.pos < NextPos(r)
<1>. DEFINE P == {it.pos : it \in inbox[r]}
<1>1. P \in SUBSET Nat
  BY DEF TypeInv, TypeOK, Item
<1>2. IsFiniteSet(P)
  <2>. DEFINE f == [it \in inbox[r] |-> it.pos]
  <2>1. f \in Surjection(inbox[r], P)
    BY DEF Surjection
  <2>2. IsFiniteSet(inbox[r])
    BY DEF TypeInv, FiniteInbox
  <2>. QED  BY <2>1, <2>2, FS_Surjection
<1>3. P # {} => Max(P) \in Nat /\ \A p \in P : p <= Max(P)
  <2>. HIDE DEF P
  <2>. QED  BY <1>1, <1>2, MaxNat
<1>. SUFFICES ASSUME NEW x \in inbox[r]  PROVE x.pos < NextPos(r)
  OBVIOUS
<1>4. x.pos \in P /\ NextPos(r) = 1 + Max(P)
  BY DEF NextPos
<1>5. x.pos \in Nat /\ Max(P) \in Nat /\ x.pos <= Max(P)
  <2>. HIDE DEF P
  <2>. QED  BY <1>1, <1>3, <1>4
<1>. QED  BY <1>4, <1>5

\* A list stays in order when something younger is put at its end.
LEMMA ListAppend ==
  ASSUME TypeInv, ListInOrder, NEW r \in Recipient, NEW e \in Item, e.pos = NextPos(r),
         \A x \in inbox[r] : x.id < e.id,
         inbox' = [inbox EXCEPT ![r] = inbox[r] \cup {e}]
  PROVE  ListInOrder'
<1>1. inbox \in [Recipient -> SUBSET Item]
  BY DEF TypeInv, TypeOK
<1>2. inbox'[r] = inbox[r] \cup {e} /\ \A s \in Recipient \ {r} : inbox'[s] = inbox[s]
  BY <1>1
<1>3. \A x \in inbox[r] : x.pos < e.pos /\ x.id \in Nat
  BY <1>1, NextPosBehind DEF Item
<1>4. e.id \in Nat
  BY DEF Item
<1>5. ASSUME NEW x \in inbox'[r], NEW y \in inbox'[r], x.id < y.id
      PROVE  x.pos < y.pos
  BY <1>2, <1>3, <1>4, <1>5 DEF ListInOrder
<1>. QED  BY <1>2, <1>5 DEF ListInOrder

\* Fifo after a step.
LEMMA FifoThen ==
  ASSUME \A c \in Client : \A j, k \in 1..Len(wire'[c]) :
           (/\ j < k
            /\ log'[wire'[c][j]].mode = "pair" /\ log'[wire'[c][k]].mode = "pair"
            /\ log'[wire'[c][j]].to = log'[wire'[c][k]].to) => wire'[c][j] < wire'[c][k]
  PROVE  Fifo'
BY DEF Fifo

\* Connections stay in order when something younger is written.
LEMMA WireAppend ==
  ASSUME wire \in [Client -> Seq(Nat)], Fifo, NEW i \in Nat, NEW T \in SUBSET Client,
         wire' = [c \in Client |-> IF c \in T THEN Append(wire[c], i) ELSE wire[c]],
         \A c \in Client : \A m \in OnWire(c) : log'[m] = log[m],
         \A c \in Client : \A m \in OnWire(c) :
           (log[m].mode = "pair" /\ log'[i].mode = "pair" /\ log[m].to = log'[i].to) => m < i
  PROVE  Fifo'
<1>. SUFFICES ASSUME NEW c \in Client, NEW j \in 1..Len(wire'[c]), NEW k \in 1..Len(wire'[c]),
                     /\ j < k
                     /\ log'[wire'[c][j]].mode = "pair" /\ log'[wire'[c][k]].mode = "pair"
                     /\ log'[wire'[c][j]].to = log'[wire'[c][k]].to
              PROVE  wire'[c][j] < wire'[c][k]
  BY FifoThen, Zenon
<1>1. /\ c \notin T => wire'[c] = wire[c]
      /\ c \in T => /\ Len(wire'[c]) = Len(wire[c]) + 1
                    /\ wire'[c][Len(wire[c]) + 1] = i
                    /\ \A n \in 1..Len(wire[c]) : wire'[c][n] = wire[c][n]
      /\ Len(wire[c]) \in Nat
  BY AppendOnWire
<1>2. \A n \in 1..Len(wire[c]) : wire[c][n] \in OnWire(c) /\ log'[wire[c][n]] = log[wire[c][n]]
  BY DEF OnWire
<1>3. CASE k \in 1..Len(wire[c])
  <2>1. j \in 1..Len(wire[c])
    BY <1>1, <1>3
  <2>2. wire'[c][j] = wire[c][j] /\ wire'[c][k] = wire[c][k]
    BY <1>1, <1>3, <2>1
  <2>. QED  BY <1>2, <1>3, <2>1, <2>2 DEF Fifo
<1>4. CASE k \notin 1..Len(wire[c])
  <2>1. c \in T /\ k = Len(wire[c]) + 1 /\ j \in 1..Len(wire[c])
    BY <1>1, <1>4
  <2>2. wire'[c][k] = i /\ wire'[c][j] = wire[c][j]
    BY <1>1, <2>1
  <2>. QED  BY <1>2, <2>1, <2>2
<1>. QED  BY <1>3, <1>4

\* Callbacks that move no message keep all of it.
LEMMA UnmixedQuiet ==
  ASSUME UnmixedInv, UNCHANGED <<inbox, batch, lost, wire, log, acked>>,
         batch = {} \/ UNCHANGED connVars
  PROVE  (LoopFits /\ Promised /\ InTurn)'
<1>. USE DEF UnmixedInv
<1>1. LoopFits'
  BY DEF LoopFits, BatchOfOne, BatchFits, Queued
<1>2. Promised'
  BY DEF Promised, AckedIsKept
<1>3. ListInOrder' /\ BatchInOrder' /\ ListBeforeBatch' /\ WireBefore'
  BY DEF InTurn, ListInOrder, BatchInOrder, ListBeforeBatch, WireBefore, OnWire, Kept
<1>4. BatchClear'
  <2>1. CASE batch = {}
    BY <2>1 DEF BatchClear
  <2>2. CASE UNCHANGED connVars
    <3>1. \A it \in batch : Targets(it)' = Targets(it)
      BY <2>2 DEF connVars, Targets, IsAlive
    <3>. QED  BY <3>1 DEF InTurn, BatchClear
  <2>. QED  BY <2>1, <2>2
<1>5. Fifo'
  BY DEF InTurn, Fifo
<1>. QED  BY <1>1, <1>2, <1>3, <1>4, <1>5 DEF InTurn

\* So does the sweep, which gives up what is too old.
LEMMA UnmixedSweep ==
  ASSUME UnmixedInv, Sweep, batch = {}
  PROVE  (LoopFits /\ Promised /\ InTurn)'
<1>. USE DEF UnmixedInv
<1>1. /\ UNCHANGED <<batch, wire, log, acked>>
      /\ \A r \in Recipient : inbox'[r] \subseteq inbox[r]
      /\ \A l \in lost' : l \in lost \/ l[2] = "expired"
  BY DEF Sweep
<1>2. LoopFits'
  BY <1>1 DEF LoopFits, BatchOfOne, BatchFits
<1>3. Promised'
  BY <1>1 DEF Promised, AckedIsKept
<1>4. ListInOrder' /\ BatchInOrder' /\ ListBeforeBatch' /\ BatchClear'
  BY <1>1 DEF InTurn, ListInOrder, BatchInOrder, ListBeforeBatch, BatchClear
<1>5. WireBefore'
  <2>1. Kept' \subseteq Kept /\ \A c \in Client : OnWire(c)' = OnWire(c)
    BY <1>1 DEF Kept, OnWire
  <2>. QED  BY <1>1, <2>1 DEF InTurn, WireBefore
<1>6. Fifo'
  BY <1>1 DEF InTurn, Fifo
<1>. QED  BY <1>2, <1>3, <1>4, <1>5, <1>6 DEF InTurn

\* A registration turns a list into what its loop resolves, in the list's order.
LEMMA UnmixedCatchUp ==
  ASSUME MixOff, UnmixedInv, batch = {}, UNCHANGED acked,
         NEW r \in Recipient, NEW d \in Client \cup {None}, CatchUp(r, d)
  PROVE  (LoopFits /\ Promised /\ InTurn)'
<1>. DEFINE D == {[it EXCEPT !.directTo = d] : it \in inbox[r]}
<1>1. /\ inbox \in [Recipient -> SUBSET Item] /\ IsFiniteSet(inbox[r])
      /\ \A x \in inbox[r] : x.to = r
  BY DEF UnmixedInv, QueueInv, RegistrationInv, TypeInv, TypeOK, FiniteInbox, Routed
<1>2. /\ batch' = D /\ UNCHANGED <<lost, wire, log>>
      /\ inbox'[r] = {} /\ \A s \in Recipient \ {r} : inbox'[s] = inbox[s]
  BY <1>1 DEF CatchUp, EnqueueBacklog, TakeInbox
<1>3. \A x \in D : /\ x.to = r /\ x.directTo = d
                   /\ \E it \in inbox[r] : x.id = it.id /\ x.pos = it.pos /\ x.mode = it.mode
  <2>1. \A it \in Item : LET x == [it EXCEPT !.directTo = d]
                        IN x.to = it.to /\ x.directTo = d /\ x.id = it.id /\ x.pos = it.pos
                           /\ x.mode = it.mode
    BY DEF Item
  <2>. SUFFICES ASSUME NEW x \in D
                PROVE  /\ x.to = r /\ x.directTo = d
                       /\ \E it \in inbox[r] : x.id = it.id /\ x.pos = it.pos /\ x.mode = it.mode
    BY Zenon
  <2>2. PICK it \in inbox[r] : x = [it EXCEPT !.directTo = d]
    OBVIOUS
  <2>3. it \in Item /\ it.to = r
    BY <1>1
  <2>4. x.to = it.to /\ x.directTo = d /\ x.id = it.id /\ x.pos = it.pos /\ x.mode = it.mode
    BY <2>1, <2>2, <2>3
  <2>. QED  BY <2>3, <2>4
<1>4. IsFiniteSet(D) /\ Cardinality(D) <= Cardinality(inbox[r])
  <2>. DEFINE f == [it \in inbox[r] |-> [it EXCEPT !.directTo = d]]
  <2>1. f \in Surjection(inbox[r], D)
    BY DEF Surjection
  <2>. QED  BY <1>1, <2>1, FS_Surjection
<1>5. D # {} => inbox[r] # {}
  OBVIOUS
<1>. HIDE DEF D
<1>6. LoopFits'
  <2>1. BatchOfOne'
    BY <1>2, <1>3 DEF BatchOfOne
  <2>2. ASSUME D # {}
        PROVE  /\ ~Ephemeral
               /\ Cardinality(D) + Cardinality(inbox'[r]) <= MaxQueue
               /\ Cardinality(Queued' \cup {r}) <= MaxRecipients
    <3>1. r \in Queued
      BY <1>5, <2>2 DEF Queued
    <3>2. ~Ephemeral
      BY <3>1 DEF UnmixedInv, QueueInv, NeverQueued
    <3>3. Cardinality(D) + Cardinality(inbox'[r]) <= MaxQueue
      <4>1. Cardinality(inbox[r]) <= MaxQueue /\ MaxQueue \in Nat
        BY RelayAssumption DEF UnmixedInv, QueueInv, QueuesBounded
      <4>2. Cardinality(D) \in Nat /\ Cardinality(inbox[r]) \in Nat
        BY <1>1, <1>4, FS_CardinalityType
      <4>3. Cardinality(inbox'[r]) = 0
        BY <1>2, FS_EmptySet
      <4>. QED  BY <1>4, <4>1, <4>2, <4>3
    <3>4. Queued' \cup {r} = Queued
      BY <1>2, <3>1 DEF Queued
    <3>. QED  BY <3>2, <3>3, <3>4 DEF UnmixedInv, QueueInv, QueuesBounded
  <2>3. BatchFits'
    BY <1>2, <1>3, <2>2 DEF BatchFits
  <2>. QED  BY <1>2, <1>4, <2>1, <2>3 DEF LoopFits
<1>7. Promised'
  BY <1>2 DEF UnmixedInv, Promised, AckedIsKept
<1>8. ListInOrder'
  BY <1>2 DEF UnmixedInv, InTurn, ListInOrder
<1>9. BatchInOrder'
  <2>1. \A x, y \in inbox[r] : x.id < y.id => x.pos < y.pos
    BY DEF UnmixedInv, InTurn, ListInOrder
  <2>. QED  BY <1>2, <1>3, <2>1 DEF BatchInOrder
<1>10. ListBeforeBatch' /\ BatchClear'
  BY <1>2, <1>3 DEF ListBeforeBatch, BatchClear
<1>11. WireBefore'
  <2>1. \A c \in Client : OnWire(c)' = OnWire(c)
    BY <1>2 DEF OnWire
  <2>2. Kept' \subseteq Kept /\ inbox[r] \subseteq Kept
    BY <1>2 DEF Kept
  <2>3. \A it \in Kept' \cup batch' :
          \E x \in Kept : it.id = x.id /\ it.to = x.to /\ it.mode = x.mode
    BY <1>1, <1>2, <1>3, <2>2
  <2>. QED  BY <1>2, <2>1, <2>3 DEF UnmixedInv, InTurn, WireBefore
<1>12. Fifo'
  BY <1>2 DEF UnmixedInv, InTurn, Fifo
<1>. QED  BY <1>6, <1>7, <1>8, <1>9, <1>10, <1>11, <1>12 DEF InTurn

\* The loop resolves its oldest message, for which there is room: it is written
\* before the younger ones, or put back behind the older ones.
LEMMA UnmixedLoop ==
  ASSUME MixOff, UnmixedInv, NEW item \in batch, NextUp(item), DeliverMixed(item),
         batch' = batch \ {item}, UNCHANGED <<connVars, log, acked>>
  PROVE  (LoopFits /\ Promised /\ InTurn)'
<1>1. /\ TypeInv /\ FateInv /\ QueueInv
      /\ batch \subseteq Store /\ Kept \subseteq Store /\ Store \subseteq Item
      /\ inbox \in [Recipient -> SUBSET Item] /\ wire \in [Client -> Seq(Nat)]
      /\ \A r \in Recipient : IsFiniteSet(inbox[r]) /\ inbox[r] \subseteq Kept
  BY StoreType DEF UnmixedInv, QueueInv, RegistrationInv, TypeInv, TypeOK, FiniteInbox, Store, InFlight
<1>2. item \in Item /\ item.id \in Nat /\ item.to \in Recipient
  BY <1>1 DEF Item
<1>3. \A it \in batch' : /\ it \in batch /\ it \in Item /\ item.id < it.id
                         /\ it.to = item.to /\ it.directTo = item.directTo
  <2>. SUFFICES ASSUME NEW it \in batch'
                PROVE  /\ it \in batch /\ it \in Item /\ item.id < it.id
                       /\ it.to = item.to /\ it.directTo = item.directTo
    OBVIOUS
  <2>1. it \in batch /\ it # item /\ it \in Item
    BY <1>1
  <2>2. it.id # item.id
    BY <1>1, <2>1 DEF FateInv, OneItem
  <2>3. item.pos <= it.pos /\ (it.id < item.id => it.pos < item.pos)
    BY <2>1 DEF NextUp, UnmixedInv, InTurn, BatchInOrder
  <2>4. it.id \in Nat /\ it.pos \in Nat /\ item.pos \in Nat
    BY <1>2, <2>1 DEF Item
  <2>. QED  BY <1>2, <2>1, <2>2, <2>3, <2>4 DEF UnmixedInv, LoopFits, BatchOfOne
<1>4. /\ ~Ephemeral
      /\ Cardinality(batch) + Cardinality(inbox[item.to]) <= MaxQueue
      /\ Cardinality(Queued \cup {item.to}) <= MaxRecipients
      /\ IsFiniteSet(batch) /\ Cardinality(batch) \in Nat /\ Cardinality(batch) > 0
      /\ IsFiniteSet(inbox[item.to]) /\ Cardinality(inbox[item.to]) \in Nat
      /\ IsFiniteSet(Queued) /\ Cardinality(Queued) \in Nat
      /\ MaxQueue \in Nat /\ MaxRecipients \in Nat
  <2>1. IsFiniteSet(batch) /\ IsFiniteSet(inbox[item.to]) /\ IsFiniteSet(Queued)
    BY <1>1, <1>2 DEF UnmixedInv, LoopFits, QueueInv
  <2>2. /\ Cardinality(batch) \in Nat /\ Cardinality(inbox[item.to]) \in Nat
        /\ Cardinality(Queued) \in Nat
    BY <2>1, FS_CardinalityType
  <2>3. Cardinality(batch) # 0
    BY <2>1, FS_EmptySet
  <2>4. MaxQueue \in Nat /\ MaxRecipients \in Nat
    BY RelayAssumption
  <2>. QED  BY <2>1, <2>2, <2>3, <2>4 DEF UnmixedInv, LoopFits, BatchFits
<1>5. Refusal(item.to) = {}
  <2>1. ~(Cardinality(inbox[item.to]) >= MaxQueue)
    BY <1>4
  <2>2. ASSUME inbox[item.to] = {}, Cardinality(Queued) >= MaxRecipients  PROVE FALSE
    <3>1. item.to \notin Queued
      BY <2>2 DEF Queued
    <3>2. Cardinality(Queued \cup {item.to}) = Cardinality(Queued) + 1
      BY <1>4, <3>1, FS_AddElement
    <3>. QED  BY <1>4, <2>2, <3>2
  <2>. QED  BY <1>4, <2>1, <2>2 DEF Refusal
<1>6. \/ UNCHANGED <<inbox, wire>> /\ lost' = lost \cup {<<item.id, "expired">>}
      \/ /\ Targets(item) # {} /\ UNCHANGED <<inbox, lost>>
         /\ wire' = [c \in Client |-> IF c \in Targets(item)
                                      THEN Append(wire[c], item.id) ELSE wire[c]]
      \/ /\ Targets(item) = {} /\ UNCHANGED <<lost, wire>>
         /\ \E e \in Item :
              /\ SameMessage(e, item) /\ e.pos = NextPos(item.to) /\ e.directTo = None
              /\ inbox' = [inbox EXCEPT ![item.to] = inbox[item.to] \cup {e}]
  BY <1>1, <1>2, <1>5, DeliverMixedCases
<1>7. \A x \in inbox[item.to] : x.id < item.id
  BY DEF UnmixedInv, InTurn, ListBeforeBatch
<1>8. \/ UNCHANGED inbox
      \/ /\ Targets(item) = {} /\ UNCHANGED wire
         /\ \E e \in Item :
              /\ SameMessage(e, item) /\ e.pos = NextPos(item.to) /\ e.directTo = None
              /\ inbox'[item.to] = inbox[item.to] \cup {e}
              /\ \A r \in Recipient \ {item.to} : inbox'[r] = inbox[r]
  BY <1>1, <1>2, <1>6
<1>9. LoopFits'
  <2>1. BatchOfOne'
    BY <1>3 DEF BatchOfOne
  <2>2. IsFiniteSet(batch') /\ Cardinality(batch') = Cardinality(batch) - 1
    BY <1>4, FS_RemoveElement
  <2>3. /\ Cardinality(inbox'[item.to]) <= Cardinality(inbox[item.to]) + 1
        /\ Cardinality(inbox'[item.to]) \in Nat
    <3>1. CASE UNCHANGED inbox
      BY <1>4, <3>1
    <3>2. ASSUME NEW e, inbox'[item.to] = inbox[item.to] \cup {e}
          PROVE  /\ Cardinality(inbox'[item.to]) <= Cardinality(inbox[item.to]) + 1
                 /\ Cardinality(inbox'[item.to]) \in Nat
      <4>. DEFINE I == inbox[item.to]
      <4>1. IsFiniteSet(I) /\ Cardinality(I) \in Nat
        BY <1>4
      <4>. HIDE DEF I
      <4>2. Cardinality(I \cup {e}) = IF e \in I THEN Cardinality(I) ELSE Cardinality(I) + 1
        BY <4>1, FS_AddElement
      <4>3. Cardinality(I \cup {e}) <= Cardinality(I) + 1 /\ Cardinality(I \cup {e}) \in Nat
        BY <4>1, <4>2
      <4>. QED  BY <3>2, <4>3 DEF I
    <3>. QED  BY <1>8, <3>1, <3>2
  <2>4. Cardinality(Queued' \cup {item.to}) <= MaxRecipients
    <3>1. Queued' \cup {item.to} \in SUBSET (Queued \cup {item.to})
      BY <1>8 DEF Queued
    <3>2. IsFiniteSet(Queued \cup {item.to})
      BY <1>4, FS_AddElement
    <3>3. /\ Cardinality(Queued' \cup {item.to}) <= Cardinality(Queued \cup {item.to})
          /\ Cardinality(Queued' \cup {item.to}) \in Nat
          /\ Cardinality(Queued \cup {item.to}) \in Nat
      BY <3>1, <3>2, FS_Subset, FS_CardinalityType
    <3>. QED  BY <1>4, <3>3
  <2>5. Cardinality(batch') + Cardinality(inbox'[item.to]) <= MaxQueue
    BY <1>4, <2>2, <2>3
  <2>6. BatchFits'
    BY <1>3, <1>4, <2>4, <2>5 DEF BatchFits
  <2>. QED  BY <2>1, <2>2, <2>6 DEF LoopFits
<1>10. Promised'
  BY <1>6 DEF UnmixedInv, Promised, AckedIsKept
<1>11. ListInOrder'
  <2>1. CASE UNCHANGED inbox
    BY <2>1 DEF UnmixedInv, InTurn, ListInOrder
  <2>2. ASSUME NEW e \in Item, SameMessage(e, item), e.pos = NextPos(item.to),
               inbox' = [inbox EXCEPT ![item.to] = inbox[item.to] \cup {e}]
        PROVE  ListInOrder'
    BY <1>1, <1>2, <1>7, <2>2, ListAppend DEF UnmixedInv, InTurn, SameMessage
  <2>. QED  BY <1>6, <2>1, <2>2
<1>12. BatchInOrder'
  BY <1>3 DEF UnmixedInv, InTurn, BatchInOrder
<1>13. ListBeforeBatch'
  <2>. SUFFICES ASSUME NEW y \in batch', NEW x \in inbox'[y.to]  PROVE x.id < y.id
    BY DEF ListBeforeBatch
  <2>1. y \in batch /\ item.id < y.id /\ y.to = item.to
    BY <1>3
  <2>2. x \in inbox[y.to] \/ x.id = item.id
    BY <1>8, <2>1 DEF SameMessage
  <2>. QED  BY <2>1, <2>2 DEF UnmixedInv, InTurn, ListBeforeBatch
<1>14. BatchClear'
  <2>. SUFFICES ASSUME NEW y \in batch', y.mode = "pair", Targets(y)' # {}, NEW x \in inbox'[y.to]
                PROVE  x.mode # "pair"
    BY DEF BatchClear
  <2>1. y \in batch /\ y.to = item.to /\ y.directTo = item.directTo
    BY <1>3
  <2>2. Targets(y) # {}
    BY DEF connVars, Targets, IsAlive
  <2>3. CASE x \in inbox[y.to]
    BY <2>1, <2>2, <2>3 DEF UnmixedInv, InTurn, BatchClear
  <2>4. CASE x \notin inbox[y.to]
    <3>1. x.mode = item.mode /\ Targets(item) = {}
      BY <1>8, <2>1, <2>4 DEF SameMessage
    <3>2. item.mode = "pair" => Targets(item) = Targets(y)
      BY <2>1 DEF Targets
    <3>. QED  BY <2>2, <3>1, <3>2
  <2>. QED  BY <2>3, <2>4
<1>15. \A x \in Kept \cup batch' :
         (item.mode = "pair" /\ x.mode = "pair" /\ x.to = item.to /\ Targets(item) # {}) => item.id < x.id
  <2>. SUFFICES ASSUME NEW x \in Kept, item.mode = "pair", x.mode = "pair", x.to = item.to,
                       Targets(item) # {}
                PROVE  FALSE
    BY <1>3
  <2>1. x \in inbox[item.to]
    BY DEF Kept, UnmixedInv, QueueInv, RegistrationInv, Routed
  <2>. QED  BY <2>1 DEF UnmixedInv, InTurn, BatchClear
<1>16. CASE UNCHANGED wire
  <2>1. Fifo'
    BY <1>16 DEF UnmixedInv, InTurn, Fifo
  <2>2. \A x \in Kept' \cup batch' :
          \E y \in Kept \cup batch : x.id = y.id /\ x.to = y.to /\ x.mode = y.mode
    BY <1>8 DEF Kept, SameMessage
  <2>3. \A c \in Client : OnWire(c)' = OnWire(c)
    BY <1>16 DEF OnWire
  <2>4. WireBefore'
    BY <2>2, <2>3 DEF UnmixedInv, InTurn, WireBefore
  <2>. QED  BY <1>9, <1>10, <1>11, <1>12, <1>13, <1>14, <2>1, <2>4 DEF InTurn
<1>17. CASE ~UNCHANGED wire
  <2>. DEFINE T == Targets(item)
              i == item.id
  <2>1. /\ T # {} /\ T \in SUBSET Client /\ i \in Nat /\ UNCHANGED inbox
        /\ wire' = [c \in Client |-> IF c \in T THEN Append(wire[c], i) ELSE wire[c]]
    BY <1>2, <1>6, <1>17 DEF Targets
  <2>2. log[i].to = item.to /\ log[i].mode = item.mode
    BY <1>1, KnownIds
  <2>3. \A c \in Client : \A m \in OnWire(c) :
          (log[m].mode = "pair" /\ log'[i].mode = "pair" /\ log[m].to = log'[i].to) => m < i
    BY <2>2 DEF UnmixedInv, InTurn, WireBefore
  <2>4. \A x \in Kept \cup batch' :
          (log[i].mode = "pair" /\ x.mode = "pair" /\ x.to = log[i].to) => i < x.id
    BY <1>15, <2>1, <2>2
  <2>. HIDE DEF T, i
  <2>5. Fifo'
    BY <1>1, <2>1, <2>3, WireAppend DEF UnmixedInv, InTurn
  <2>6. \A c \in Client : OnWire(c)' \subseteq OnWire(c) \cup {i}
    <3>1. \A c \in Client : OnWire(c)' = IF c \in T THEN OnWire(c) \cup {i} ELSE OnWire(c)
      BY <1>1, <2>1, AppendOnWire
    <3>. QED  BY <3>1
  <2>7. Kept' = Kept
    BY <2>1 DEF Kept
  <2>8. WireBefore'
    BY <2>4, <2>6, <2>7 DEF UnmixedInv, InTurn, WireBefore
  <2>. QED  BY <1>9, <1>10, <1>11, <1>12, <1>13, <1>14, <2>5, <2>8 DEF InTurn
<1>. QED  BY <1>16, <1>17

\* A submission is younger than everything, and acknowledged unless it is refused.
LEMMA UnmixedSend ==
  ASSUME MixOff, UnmixedInv, batch = {}, batch' = {}, NEW t \in Traffic,
         SendCover(t) \/ SendUnmixed(t)
  PROVE  (LoopFits /\ Promised /\ InTurn)'
<1>. DEFINE n == NewItem(t)
<1>1. /\ TypeInv /\ FateInv
      /\ wire \in [Client -> Seq(Nat)] /\ inbox \in [Recipient -> SUBSET Item]
  BY DEF UnmixedInv, FateInv, RegistrationInv, TypeInv, TypeOK
<1>2. Accept(t)
  BY DEF SendCover, SendUnmixed
<1>3. /\ n \in Item /\ n.id = NewId /\ n.to = t.to /\ n.mode = t.mode /\ n.directTo = None
      /\ n.to \in Recipient
  <2>1. n \in Item
    BY <1>1, <1>2, AcceptType
  <2>. QED  BY <2>1 DEF NewItem, Item
<1>4. /\ log'[NewId].to = n.to /\ log'[NewId].mode = n.mode
      /\ \A id \in 1..Len(log) : log'[id] = log[id]
      /\ Len(log') = NewId
  BY <1>1, <1>2, <1>3, AcceptLog
<1>5. /\ \A x \in Store : x.id \in 1..Len(log)
      /\ \A c \in Client : OnWire(c) \subseteq 1..Len(log)
      /\ \A l \in lost : l[1] \in 1..Len(log)
      /\ Len(log) \in Nat
  BY <1>1, KnownIds
<1>6. NewId \in Nat /\ \A id \in 1..Len(log) : id < NewId
  BY <1>5 DEF NewId
<1>. HIDE DEF n
<1>7. LoopFits'
  BY FS_EmptySet DEF LoopFits, BatchOfOne, BatchFits
<1>8. BatchInOrder' /\ ListBeforeBatch' /\ BatchClear'
  BY DEF BatchInOrder, ListBeforeBatch, BatchClear
<1>9. SendUnmixed(t) => DeliverMixed(n) /\ acked' = Told(NewId)
  BY DEF SendUnmixed, n
<1>10. Promised'
  <2>1. acked' \subseteq acked \cup {NewId} /\ acked \subseteq 1..Len(log) /\ AckedIsKept
    BY <1>9 DEF SendCover, Told, UnmixedInv, Promised
  <2>2. acked' \subseteq 1..Len(log')
    BY <1>4, <1>5, <2>1 DEF NewId
  <2>3. CASE UNCHANGED lost
    <3>1. <<NewId, "full">> \notin lost
      BY <1>5, <1>6
    <3>. QED  BY <2>1, <2>2, <2>3, <3>1 DEF Promised, AckedIsKept
  <2>4. CASE ~UNCHANGED lost
    <3>1. acked' = acked /\ \E why : lost' = lost \cup {<<NewId, why>>}
      BY <1>1, <1>3, <1>9, <2>4, DeliverMixedCases DEF SendCover, fateVars, Told
    <3>2. NewId \notin acked
      BY <1>6, <2>1
    <3>. QED  BY <2>1, <2>2, <3>1, <3>2 DEF Promised, AckedIsKept
  <2>. QED  BY <2>3, <2>4
<1>11. \/ UNCHANGED <<inbox, wire>>
       \/ /\ Targets(n) # {} /\ UNCHANGED inbox
          /\ wire' = [c \in Client |-> IF c \in Targets(n) THEN Append(wire[c], n.id) ELSE wire[c]]
       \/ /\ UNCHANGED wire
          /\ \E e \in Item :
               /\ SameMessage(e, n) /\ e.pos = NextPos(n.to) /\ e.directTo = None
               /\ inbox' = [inbox EXCEPT ![n.to] = inbox[n.to] \cup {e}]
  BY <1>1, <1>3, <1>9, DeliverMixedCases DEF SendCover, mailVars, fateVars
<1>12. ListInOrder'
  <2>1. CASE UNCHANGED inbox
    BY <2>1 DEF UnmixedInv, InTurn, ListInOrder
  <2>2. ASSUME NEW e \in Item, SameMessage(e, n), e.pos = NextPos(n.to),
               inbox' = [inbox EXCEPT ![n.to] = inbox[n.to] \cup {e}]
        PROVE  ListInOrder'
    <3>1. \A x \in inbox[n.to] : x.id < e.id
      BY <1>3, <1>5, <1>6, <2>2 DEF SameMessage, Store, Kept
    <3>. QED  BY <1>1, <1>3, <2>2, <3>1, ListAppend DEF UnmixedInv, InTurn
  <2>. QED  BY <1>11, <2>1, <2>2
<1>13. CASE UNCHANGED wire
  <2>1. \A c \in Client : OnWire(c)' = OnWire(c)
    BY <1>13 DEF OnWire
  <2>2. Fifo'
    <3>. SUFFICES ASSUME NEW c \in Client, NEW j \in 1..Len(wire'[c]), NEW k \in 1..Len(wire'[c]),
                         /\ j < k
                         /\ log'[wire'[c][j]].mode = "pair" /\ log'[wire'[c][k]].mode = "pair"
                         /\ log'[wire'[c][j]].to = log'[wire'[c][k]].to
                  PROVE  wire'[c][j] < wire'[c][k]
      BY FifoThen, Zenon
    <3>1. wire[c][j] \in OnWire(c) /\ wire[c][k] \in OnWire(c)
      BY <1>13 DEF OnWire
    <3>2. log'[wire[c][j]] = log[wire[c][j]] /\ log'[wire[c][k]] = log[wire[c][k]]
      BY <1>4, <1>5, <3>1
    <3>. QED  BY <1>13, <3>2 DEF UnmixedInv, InTurn, Fifo
  <2>3. \A x \in Kept' : x \in Kept \/ x.id = NewId
    <3>1. CASE UNCHANGED inbox
      BY <3>1 DEF Kept
    <3>2. ASSUME NEW e \in Item, SameMessage(e, n),
                 inbox' = [inbox EXCEPT ![n.to] = inbox[n.to] \cup {e}]
          PROVE  \A x \in Kept' : x \in Kept \/ x.id = NewId
      <4>1. \A r \in Recipient : \A x \in inbox'[r] : x \in inbox[r] \/ x = e
        BY <1>1, <1>3, <3>2
      <4>. QED  BY <1>3, <3>2, <4>1 DEF Kept, SameMessage
    <3>. QED  BY <1>11, <3>1, <3>2
  <2>4. WireBefore'
    <3>. SUFFICES ASSUME NEW c \in Client, NEW m \in OnWire(c), NEW x \in Kept',
                         x.mode = "pair", log'[m].mode = "pair", log'[m].to = x.to
                  PROVE  m < x.id
      BY <2>1 DEF WireBefore
    <3>1. m \in 1..Len(log) /\ log'[m] = log[m]
      BY <1>4, <1>5
    <3>2. CASE x \in Kept
      BY <3>1, <3>2 DEF UnmixedInv, InTurn, WireBefore
    <3>. QED  BY <1>6, <2>3, <3>1, <3>2
  <2>. QED  BY <1>7, <1>8, <1>10, <1>12, <2>2, <2>4 DEF InTurn
<1>14. CASE ~UNCHANGED wire
  <2>. DEFINE T == Targets(n)
  <2>1. /\ T # {} /\ T \in SUBSET Client /\ UNCHANGED inbox
        /\ wire' = [c \in Client |-> IF c \in T THEN Append(wire[c], NewId) ELSE wire[c]]
    BY <1>3, <1>11, <1>14 DEF Targets
  <2>2. ASSUME NEW x \in Kept, x.mode = "pair", n.mode = "pair", x.to = n.to  PROVE FALSE
    <3>1. n.to \in Address /\ LiveOwner(n.to)
      BY <1>3, <2>1, <2>2 DEF Targets, LiveOwner
    <3>2. x \in inbox[n.to]
      BY <2>2 DEF Kept, UnmixedInv, QueueInv, RegistrationInv, Routed
    <3>. QED  BY <2>2, <3>1, <3>2 DEF UnmixedInv, OwnerServed
  <2>. HIDE DEF T
  <2>3. Fifo'
    <3>1. \A c \in Client : \A m \in OnWire(c) : log'[m] = log[m] /\ m < NewId
      BY <1>4, <1>5, <1>6
    <3>. QED  BY <1>1, <1>6, <2>1, <3>1, WireAppend DEF UnmixedInv, InTurn
  <2>4. \A c \in Client : OnWire(c)' = IF c \in T THEN OnWire(c) \cup {NewId} ELSE OnWire(c)
    BY <1>1, <1>6, <2>1, AppendOnWire
  <2>5. WireBefore'
    <3>. SUFFICES ASSUME NEW c \in Client, NEW m \in OnWire(c)', NEW x \in Kept,
                         x.mode = "pair", log'[m].mode = "pair", log'[m].to = x.to
                  PROVE  m < x.id
      BY <2>1 DEF WireBefore, Kept
    <3>1. CASE m = NewId
      BY <1>4, <2>2, <3>1
    <3>2. CASE m \in OnWire(c)
      <4>1. log'[m] = log[m]
        BY <1>4, <1>5, <3>2
      <4>. QED  BY <3>2, <4>1 DEF UnmixedInv, InTurn, WireBefore
    <3>. QED  BY <2>4, <3>1, <3>2
  <2>. QED  BY <1>7, <1>8, <1>10, <1>12, <2>3, <2>5 DEF InTurn
<1>. QED  BY <1>13, <1>14

\* UnmixedInv holds at first.
LEMMA UnmixedInit == ASSUME Init PROVE UnmixedInv
<1>1. FateInv /\ QueueInv
  BY FateInit, QueueInit
<1>2. batch = {} /\ acked = {} /\ mixPool = {} /\ jittered = {} /\ \A r \in Recipient : inbox[r] = {}
  BY DEF Init
<1>3. \A c \in Client : wire[c] = <<>> /\ OnWire(c) = {}
  BY DEF Init, OnWire
<1>4. LoopFits /\ Promised
  BY <1>2, FS_EmptySet DEF LoopFits, BatchOfOne, BatchFits, Promised, AckedIsKept
<1>5. ListInOrder /\ BatchInOrder /\ ListBeforeBatch /\ BatchClear
  BY <1>2 DEF ListInOrder, BatchInOrder, ListBeforeBatch, BatchClear
<1>6. WireBefore /\ Fifo
  BY <1>3 DEF WireBefore, Fifo
<1>7. OwnerServed
  <2>1. \A a \in Address : inbox[a] = {}
    BY <1>2 DEF Recipient
  <2>. QED  BY <1>2, <2>1 DEF OwnerServed
<1>. QED  BY <1>1, <1>2, <1>4, <1>5, <1>6, <1>7 DEF UnmixedInv, InTurn

\* A message that is resolved is kept for a live owner only if it was never a pair one.
LEMMA OwnerServedResolve ==
  ASSUME UnmixedInv, NEW item \in Item, DeliverMixed(item), UNCHANGED <<conn, online>>,
         (item.directTo # None /\ item.to \in Address /\ item.mode = "pair") => ~LiveOwner(item.to),
         batch' \subseteq batch
  PROVE  OwnerServed'
<1>1. \A a \in Address : a \in Recipient /\ LiveOwner(a)' = LiveOwner(a)
  BY DEF Recipient, LiveOwner, IsAlive
<1>2. RegistrationInv /\ OwnerServed
  BY DEF UnmixedInv, QueueInv
<1>3. ASSUME NEW a \in Address, LiveOwner(a), NEW it \in inbox'[a]  PROVE it.mode # "pair"
  <2>1. CASE it \in inbox[a]
    BY <1>2, <1>3, <2>1 DEF OwnerServed
  <2>2. CASE it \notin inbox[a]
    <3>1. /\ item.to = a /\ it.mode = item.mode
          /\ it.mode = "pair" => (item.directTo # None \/ ~LiveOwner(a))
      BY <1>1, <1>2, <1>3, <2>2, DeliverMixedQueues
    <3>. QED  BY <1>3, <3>1
  <2>. QED  BY <2>1, <2>2
<1>4. \A it \in batch' : (it.directTo # None /\ it.to \in Address /\ it.mode = "pair") => ~LiveOwner(it.to)'
  BY <1>1, <1>2 DEF OwnerServed
<1>. QED  BY <1>1, <1>3, <1>4 DEF OwnerServed

\* OwnerServed is preserved when nothing is resolved: a list may be taken, and become
\* the batch, but nobody comes to own an address with mail.
LEMMA OwnerServedTaken ==
  ASSUME UnmixedInv,
         \A a \in Address : LiveOwner(a)' => (LiveOwner(a) \/ inbox'[a] = {}),
         \A a \in Address : inbox'[a] \subseteq inbox[a],
         \A it \in batch' : (it.directTo # None /\ it.to \in Address /\ it.mode = "pair") =>
           ~LiveOwner(it.to)'
  PROVE  OwnerServed'
<1>1. OwnerServed
  BY DEF UnmixedInv
<1>2. \A a \in Address : LiveOwner(a)' => \A it \in inbox'[a] : it.mode # "pair"
  BY <1>1 DEF OwnerServed
<1>. QED  BY <1>2 DEF OwnerServed

\* OwnerServed is preserved by every step, without a mix window.
LEMMA OwnerServedNext ==
  ASSUME MixOff, UnmixedInv, [Next]_vars
  PROVE  OwnerServed'
<1>1. /\ RegistrationInv /\ TypeInv /\ OwnerServed /\ Accepted /\ Routed
      /\ mixPool = {} /\ jittered = {}
  BY DEF UnmixedInv, QueueInv, RegistrationInv
<1>2. \A a \in Address : a \in Recipient
  BY DEF Recipient
<1>3. CASE Connections
  <2>1. PICK c \in Client : Connect(c) \/ Closing(c) \/ DropClient(c)
    BY <1>3 DEF Connections
  <2>2. batch = {} /\ UNCHANGED <<inbox, batch>>
    BY <2>1 DEF Connect, Closing, DropClient, Idle, mailVars
  <2>3. \A a \in Address : LiveOwner(a)' => LiveOwner(a)
    <3>1. \A a \in Address : online[a] # None => online[a] \in Client /\ conn[online[a]] # "none"
      BY <1>1 DEF Accepted, TypeInv, TypeOK
    <3>2. CASE Connect(c) \/ Closing(c)
      BY <1>1, <3>1, <3>2 DEF Connect, Closing, LiveOwner, IsAlive, TypeInv, TypeOK
    <3>3. CASE DropClient(c)
      BY <1>1, <3>1, <3>3 DEF DropClient, LiveOwner, IsAlive, TypeInv, TypeOK
    <3>. QED  BY <2>1, <3>2, <3>3
  <2>. QED  BY <2>2, <2>3, OwnerServedTaken
<1>4. CASE Registrations
  <2>1. PICK c \in Client, a \in Address :
          Publish(c, a) \/ PublishInvalid(c, a) \/ PublishRefused(c, a) \/ PublishRegistered(c, a)
    BY <1>4 DEF Registrations
  <2>2. CASE Publish(c, a) \/ PublishInvalid(c, a) \/ PublishRefused(c, a)
    <3>1. UNCHANGED <<conn, online, inbox, batch>>
      BY <2>2 DEF Publish, PublishInvalid, PublishRefused, mailVars
    <3>. QED  BY <1>1, <3>1 DEF OwnerServed, LiveOwner, IsAlive
  <2>3. CASE PublishRegistered(c, a)
    <3>1. /\ UNCHANGED conn /\ batch' = inbox[a]
          /\ inbox' = [inbox EXCEPT ![a] = {}]
          /\ \A b \in Address \ {a} : online'[b] = online[b] \/ online'[b] = None
      BY <1>1, <2>3, MixOff DEF PublishRegistered, TakeInbox, EnqueueBacklog, Release, TypeInv, TypeOK
    <3>2. inbox'[a] = {} /\ \A b \in Address \ {a} : inbox'[b] = inbox[b]
      BY <1>1, <1>2, <3>1 DEF TypeInv, TypeOK
    <3>3. \A b \in Address \ {a} : LiveOwner(b)' => LiveOwner(b)
      BY <3>1 DEF LiveOwner, IsAlive
    <3>4. \A it \in batch' : it.directTo = None
      BY <1>1, <1>2, <3>1 DEF Routed
    <3>. QED  BY <3>2, <3>3, <3>4, OwnerServedTaken
  <2>. QED  BY <2>1, <2>2, <2>3
<1>5. CASE \E c \in Client, g \in Subscribable : Subscribe(c, g)
  <2>1. PICK c \in Client, g \in Subscribable : Subscribe(c, g)
    BY <1>5
  <2>2. g \in Recipient
    BY RelayAssumption
  <2>3. /\ UNCHANGED <<conn, online>> /\ batch' = Directed(inbox[g], c)
        /\ inbox' = [inbox EXCEPT ![g] = {}]
    BY <2>1, MixOff DEF Subscribe, TakeInbox, EnqueueBacklog
  <2>4. \A b \in Address : inbox'[b] \subseteq inbox[b]
    BY <1>1, <1>2, <2>3 DEF TypeInv, TypeOK
  <2>5. \A b \in Address : LiveOwner(b)' = LiveOwner(b)
    BY <2>3 DEF LiveOwner, IsAlive
  <2>6. inbox[g] \in SUBSET Item /\ \A x \in inbox[g] : x.to = g
    BY <1>1, <2>2 DEF TypeInv, TypeOK, Routed
  <2>7. \A it \in batch' : \E x \in inbox[g] : it.to = g /\ it.mode = x.mode
    BY <2>3, <2>6, DirectedItems DEF Directed, SameMessage
  <2>8. \A it \in batch' : (it.to \in Address /\ it.mode = "pair") => ~LiveOwner(it.to)
    BY <1>1, <2>7 DEF OwnerServed
  <2>. QED  BY <2>4, <2>5, <2>8, OwnerServedTaken
<1>6. CASE \E t \in Traffic : SendCover(t) \/ SendMixed(t) \/ SendUnmixed(t)
  <2>1. PICK t \in Traffic : SendCover(t) \/ SendUnmixed(t)
    BY <1>6, MixOff DEF SendMixed
  <2>2. CASE SendCover(t)
    <3>1. UNCHANGED <<conn, online, inbox, batch>>
      BY <2>2 DEF SendCover, connVars, mailVars
    <3>. QED  BY <1>1, <3>1 DEF OwnerServed, LiveOwner, IsAlive
  <2>3. CASE SendUnmixed(t)
    <3>1. Accept(t) /\ DeliverMixed(NewItem(t)) /\ UNCHANGED <<conn, online, batch>>
      BY <2>3 DEF SendUnmixed, Told, connVars
    <3>2. NewItem(t) \in Item /\ NewItem(t).directTo = None
      BY <1>1, <3>1, AcceptType DEF NewItem
    <3>. QED  BY <3>1, <3>2, OwnerServedResolve
  <2>. QED  BY <2>1, <2>2, <2>3
<1>7. CASE Deliveries
  <2>1. PICK item \in batch : DeliverNext(item)
    <3>1. ~mixTimer
      BY <1>1 DEF RegistrationInv, WindowArmed
    <3>. QED
      BY <1>1, <1>7, <3>1, MixOff DEF Deliveries, FlushMixBatch, DelayNext, Delayed
  <2>2. /\ item \in Item /\ DeliverMixed(item) /\ UNCHANGED <<conn, online>> /\ batch' \subseteq batch
    BY <1>1, <2>1 DEF DeliverNext, connVars, TypeInv, TypeOK
  <2>3. (item.directTo # None /\ item.to \in Address /\ item.mode = "pair") => ~LiveOwner(item.to)
    BY <1>1 DEF OwnerServed
  <2>. QED  BY <2>2, <2>3, OwnerServedResolve
<1>8. CASE Tick \/ Sweep \/ UNCHANGED vars
  <2>1. /\ UNCHANGED <<conn, online, batch>>
        /\ \A a \in Address : inbox'[a] \subseteq inbox[a]
    BY <1>2, <1>8 DEF Tick, Sweep, vars, connVars, mailVars
  <2>2. \A a \in Address : LiveOwner(a)' = LiveOwner(a)
    BY <2>1 DEF LiveOwner, IsAlive
  <2>. QED  BY <1>1, <2>1, <2>2 DEF OwnerServed
<1>. QED  BY <1>3, <1>4, <1>5, <1>6, <1>7, <1>8 DEF Next, Submissions

\* UnmixedInv is preserved by every step, without a mix window.
LEMMA UnmixedNext ==
  ASSUME MixOff, UnmixedInv, [Next]_vars
  PROVE  UnmixedInv'
<1>1. FateInv' /\ QueueInv'
  BY FateNext, QueueNext DEF UnmixedInv
<1>2. (LoopFits /\ Promised /\ InTurn)'
  BY UnmixedSteps, UnmixedQuiet, UnmixedLoop, UnmixedSend, UnmixedSweep, UnmixedCatchUp
<1>3. mixPool' = {} /\ jittered' = {}
  BY UnmixedSteps
<1>4. OwnerServed'
  BY OwnerServedNext
<1>. QED  BY <1>1, <1>2, <1>3, <1>4 DEF UnmixedInv

\* UnmixedInv holds in every reachable state, without a mix window.
LEMMA UnmixedCorrect == ASSUME MixOff PROVE Spec => []UnmixedInv
<1>1. Init => UnmixedInv
  BY UnmixedInit
<1>2. UnmixedInv /\ [Next]_vars => UnmixedInv'
  BY UnmixedNext
<1>. QED  BY <1>1, <1>2, PTL DEF Spec

\* With mixing off, what the relay keeps for absent recipients is bounded, and yet
\* nothing whose sender was told `sent' is given up for want of room: not at its
\* submission, nor when a catch-up puts it back.
THEOREM AckedFitsAlways == ASSUME MixOff PROVE Spec => []AckedFits
<1>1. UnmixedInv => AckedFits
  BY DEF UnmixedInv, QueueInv, Promised, AckedFits
<1>. QED  BY <1>1, UnmixedCorrect, PTL

\* With mixing off, the pair messages for one address reach a connection in the
\* order in which the relay accepted them, whatever waited in a list meanwhile.
THEOREM FifoAlways == ASSUME MixOff PROVE Spec => []Fifo
<1>1. UnmixedInv => Fifo
  BY DEF UnmixedInv, InTurn
<1>. QED  BY <1>1, UnmixedCorrect, PTL

=============================================================================
