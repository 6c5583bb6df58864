----------------------------- MODULE RelayProofs -----------------------------
(***************************************************************************)
(* Proofs about Relay, for every set of connections, addresses, groups and *)
(* messages and every value of the limits.                                 *)
(***************************************************************************)
EXTENDS Relay, FiniteSetTheorems, WellFoundedInduction, TLAPS

------------------------------------------------------------------------------
(* Greatest and least elements of sets of naturals, by minimality on the     *)
(* well-foundedness of < over Nat.                                           *)

\* A set of naturals that is not empty has a least element.
LEMMA LeastNat ==
  ASSUME NEW T \in SUBSET Nat, T # {}
  PROVE  \E x \in T : \A y \in T : x <= y
<1>1. PICK x \in T : \A y \in T : ~(<<y, x>> \in OpToRel(<, Nat))
  BY NatLessThanWellFounded, WFMin
<1>2. \A y \in T : ~(y < x)
  BY <1>1 DEF OpToRel
<1>. QED  BY <1>2

\* A finite set of naturals is bounded.
LEMMA FiniteBounded ==
  ASSUME NEW S \in SUBSET Nat, IsFiniteSet(S)
  PROVE  \E n \in Nat : \A x \in S : x <= n
<1>. DEFINE Bounded(X) == \E n \in Nat : \A x \in X : x <= n
            Bad == {k \in Nat : \E X \in SUBSET Nat :
                      IsFiniteSet(X) /\ Cardinality(X) = k /\ ~Bounded(X)}
<1>1. Bad = {}
  <2>. SUFFICES ASSUME Bad # {} PROVE FALSE
    OBVIOUS
  <2>1. PICK k \in Bad : \A j \in Bad : k <= j
    BY LeastNat
  <2>2. PICK X \in SUBSET Nat : IsFiniteSet(X) /\ Cardinality(X) = k /\ ~Bounded(X)
    BY <2>1
  <2>3. PICK x \in X : TRUE
    BY <2>2
  <2>4. IsFiniteSet(X \ {x}) /\ Cardinality(X \ {x}) = k - 1
    BY <2>2, <2>3, FS_RemoveElement
  <2>5. k - 1 \in Nat
    BY <2>4, FS_CardinalityType
  <2>6. Bounded(X \ {x})
    BY <2>1, <2>4, <2>5
  <2>7. PICK n \in Nat : \A y \in X \ {x} : y <= n
    BY <2>6
  <2>8. \A y \in X : y <= n + x
    BY <2>2, <2>3, <2>7
  <2>9. n + x \in Nat
    BY <2>2, <2>3
  <2>. QED  BY <2>2, <2>8, <2>9
<1>2. Bounded(S)
  <2>1. Cardinality(S) \in Nat
    BY FS_CardinalityType
  <2>. QED  BY <1>1, <2>1
<1>. QED  BY <1>2

\* Max is the greatest element of a finite set of naturals.
LEMMA MaxNat ==
  ASSUME NEW S \in SUBSET Nat, IsFiniteSet(S), S # {}
  PROVE  Max(S) \in S /\ \A x \in S : x <= Max(S)
<1>. DEFINE Above == {n \in Nat : \A x \in S : x <= n}
<1>1. PICK n \in Above : \A m \in Above : n <= m
  BY FiniteBounded, LeastNat
<1>2. n \in S
  <2>. SUFFICES ASSUME n \notin S PROVE FALSE
    OBVIOUS
  <2>1. PICK x \in S : TRUE
    OBVIOUS
  <2>2. \A y \in S : y <= n - 1
    BY <1>1
  <2>3. n - 1 \in Above
    BY <2>1, <2>2, <1>1
  <2>. QED  BY <1>1, <2>3
<1>. QED  BY <1>1, <1>2 DEF Max

------------------------------------------------------------------------------
(* Type correctness.                                                         *)

\* Only finitely many messages wait for a recipient, so the list has a last
\* place and a length.
FiniteInbox == \A r \in Recipient : IsFiniteSet(inbox[r])

TypeInv == TypeOK /\ FiniteInbox

\* The entry a message becomes when it is queued behind the others.
LEMMA NextPosType ==
  ASSUME TypeInv, NEW r \in Recipient
  PROVE  NextPos(r) \in Nat
<1>. DEFINE P == {it.pos : it \in inbox[r]}
<1>1. P \in SUBSET Nat
  BY DEF TypeInv, TypeOK, Item
<1>2. IsFiniteSet(P)
  <2>. DEFINE f == [it \in inbox[r] |-> it.pos]
  <2>1. f \in Surjection(inbox[r], P)
    BY DEF Surjection
  <2>2. IsFiniteSet(inbox[r])
    BY DEF TypeInv, FiniteInbox
  <2>. QED  BY <2>1, <2>2, FS_Surjection
<1>3. CASE inbox[r] = {}
  BY <1>3 DEF NextPos
<1>4. CASE inbox[r] # {}
  <2>1. P # {}
    BY <1>4
  <2>2. Max(P) \in Nat
    BY <1>1, <1>2, <2>1, MaxNat
  <2>. QED  BY <1>4, <2>2 DEF NextPos
<1>. QED  BY <1>3, <1>4

\* Resolving a message keeps the types of what it changes.
LEMMA DeliverMixedType ==
  ASSUME TypeInv, NEW item \in Item, DeliverMixed(item)
  PROVE  /\ inbox' \in [Recipient -> SUBSET Item]
         /\ \A r \in Recipient : IsFiniteSet(inbox'[r])
         /\ lost' \in SUBSET (Nat \X Why)
         /\ wire' \in [Client -> Seq(Nat)]
<1>0. /\ item.id \in Nat /\ item.to \in Recipient
      /\ inbox \in [Recipient -> SUBSET Item]
      /\ lost \in SUBSET (Nat \X Why)
      /\ wire \in [Client -> Seq(Nat)]
      /\ \A r \in Recipient : IsFiniteSet(inbox[r])
  BY DEF TypeInv, TypeOK, FiniteInbox, Item
<1>1. \A why \in Why : Lose(item.id, why) => lost' \in SUBSET (Nat \X Why)
  BY <1>0 DEF Lose
<1>2. CASE Expired(item.ts) /\ Lose(item.id, "expired") /\ UNCHANGED <<inbox, wire>>
  BY <1>0, <1>1, <1>2 DEF Why
<1>3. CASE /\ wire' = [c \in Client |-> IF c \in Targets(item)
                                  THEN Append(wire[c], item.id) ELSE wire[c]]
           /\ UNCHANGED <<inbox, lost>>
  <2>1. \A c \in Client : Append(wire[c], item.id) \in Seq(Nat) /\ wire[c] \in Seq(Nat)
    BY <1>0
  <2>2. wire' \in [Client -> Seq(Nat)]
    BY <1>3, <2>1
  <2>. QED  BY <1>0, <1>3, <2>2
<1>4. CASE QueueMessage(item) /\ UNCHANGED wire
  <2>1. CASE \E why \in Refusal(item.to) : Lose(item.id, why) /\ UNCHANGED inbox
    <3>1. Refusal(item.to) \subseteq Why
      BY DEF Refusal, Why
    <3>. QED  BY <1>0, <1>1, <1>4, <2>1, <3>1
  <2>2. CASE /\ inbox' = [inbox EXCEPT ![item.to] = @ \cup
                   {[item EXCEPT !.pos = NextPos(item.to), !.directTo = None]}]
             /\ UNCHANGED lost
    <3>. DEFINE entry == [item EXCEPT !.pos = NextPos(item.to), !.directTo = None]
    <3>1. entry \in Item
      BY <1>0, NextPosType DEF Item
    <3>2. IsFiniteSet(inbox[item.to] \cup {entry})
      BY <1>0, FS_AddElement
    <3>3. inbox'[item.to] = inbox[item.to] \cup {entry}
      BY <1>0, <2>2
    <3>4. \A r \in Recipient \ {item.to} : inbox'[r] = inbox[r]
      BY <1>0, <2>2
    <3>5. inbox' \in [Recipient -> SUBSET Item]
      BY <1>0, <2>2, <3>1
    <3>. QED  BY <1>0, <1>4, <2>2, <3>2, <3>3, <3>4, <3>5
  <2>. QED  BY <1>4, <2>1, <2>2 DEF QueueMessage
<1>. QED  BY <1>2, <1>3, <1>4 DEF DeliverMixed

\* So does putting messages into the pool, or handing over a backlog.
LEMMA EnqueueBacklogType ==
  ASSUME TypeInv, NEW items \in SUBSET Item, EnqueueBacklog(items)
  PROVE  /\ mixPool' \in SUBSET Item
         /\ mixTimer' \in BOOLEAN
         /\ batch' \in SUBSET Item
<1>1. CASE MixOff
  BY <1>1 DEF EnqueueBacklog, TypeInv, TypeOK
<1>2. CASE ~MixOff
  <2>1. {[it EXCEPT !.pos = 0] : it \in items} \in SUBSET Item
    BY DEF Item
  <2>. QED  BY <1>2, <2>1 DEF EnqueueBacklog, Pool, TypeInv, TypeOK
<1>. QED  BY <1>1, <1>2

SameMessage(x, y) ==
  x.id = y.id /\ x.to = y.to /\ x.mode = y.mode /\ x.ts = y.ts

\* What enters the mix window is the backlog, message by message.
LEMMA EnqueueBacklogItems ==
  ASSUME NEW items \in SUBSET Item, EnqueueBacklog(items)
  PROVE  \A it \in mixPool' \cup batch' :
           \/ it \in mixPool \cup batch
           \/ \E x \in items : SameMessage(it, x) /\ it.directTo = x.directTo
<1>1. CASE MixOff
  BY <1>1 DEF EnqueueBacklog, SameMessage
<1>2. CASE ~MixOff
  <2>1. mixPool' = mixPool \cup {[it EXCEPT !.pos = 0] : it \in items} /\ batch' = batch
    BY <1>2 DEF EnqueueBacklog, Pool
  <2>2. \A x \in Item : LET e == [x EXCEPT !.pos = 0]
                        IN SameMessage(e, x) /\ e.directTo = x.directTo
    BY DEF Item, SameMessage
  <2>. SUFFICES ASSUME NEW it \in mixPool' \cup batch', it \notin mixPool \cup batch
                PROVE  \E x \in items : SameMessage(it, x) /\ it.directTo = x.directTo
    OBVIOUS
  <2>3. PICK x \in items : it = [x EXCEPT !.pos = 0]
    BY <2>1
  <2>4. SameMessage(it, x) /\ it.directTo = x.directTo
    BY <2>2, <2>3
  <2>. QED  BY <2>4
<1>. QED  BY <1>1, <1>2

\* A subscriber's catch-up is its group's backlog, meant for it.
LEMMA DirectedItems ==
  ASSUME NEW c \in Client, NEW S \in SUBSET Item
  PROVE  \A x \in {[it EXCEPT !.directTo = c] : it \in S} :
           /\ x \in Item /\ x.directTo = c
           /\ \E it \in S : SameMessage(x, it)
<1>1. \A it \in Item : LET e == [it EXCEPT !.directTo = c]
                      IN e \in Item /\ e.directTo = c /\ SameMessage(e, it)
  BY DEF Item, SameMessage
<1>. QED  BY <1>1

\* Each callback keeps the types.
LEMMA TypeInvInit == Init => TypeInv
<1>. SUFFICES ASSUME Init PROVE TypeInv
  OBVIOUS
<1>1. FiniteInbox
  <2>1. \A r \in Recipient : inbox[r] = {}
    BY DEF Init
  <2>. QED  BY <2>1, FS_EmptySet DEF FiniteInbox
<1>2. wire \in [Client -> Seq(Nat)] /\ awaiting \in Seq(Client \X Address)
  BY DEF Init
<1>3. inbox \in [Recipient -> SUBSET Item]
  BY DEF Init
<1>4. log \in Seq([to : Recipient, mode : Mode, ts : Nat])
  BY DEF Init
<1>5. acked \in SUBSET Nat /\ taken \in SUBSET Nat /\ lost \in SUBSET (Nat \X Why) /\ now \in Nat
  BY DEF Init
<1>6. /\ conn \in [Client -> ConnState]
      /\ pk \in [Client -> Address \cup {None}]
      /\ online \in [Address -> Client \cup {None}]
      /\ groups \in [Recipient -> SUBSET Client]
      /\ directory \in [Address -> Client \cup {None}]
  BY DEF Init, ConnState
<1>7. /\ mixPool \in SUBSET Item
      /\ mixTimer \in BOOLEAN
      /\ batch \in SUBSET Item
      /\ jittered \in SUBSET Item
  BY DEF Init
<1>. QED  BY <1>1, <1>2, <1>3, <1>4, <1>5, <1>6, <1>7 DEF TypeInv, TypeOK

\* TypeInv is preserved by connecting, closing and dropping.
LEMMA TypeInvConnections ==
  ASSUME TypeInv, Connections
  PROVE  TypeInv'
<1>. PICK c \in Client : Connect(c) \/ Closing(c) \/ DropClient(c)
  BY DEF Connections
<1>1. CASE Connect(c) \/ Closing(c)
  BY <1>1 DEF Connect, Closing, TypeInv, TypeOK, FiniteInbox, ConnState, mailVars, fateVars
<1>2. CASE DropClient(c)
  BY <1>2 DEF DropClient, Unsubscribed, TypeInv, TypeOK, FiniteInbox, ConnState, mailVars, fateVars
<1>. QED  BY <1>1, <1>2

\* TypeInv is preserved by registrations.
LEMMA TypeInvRegistrations ==
  ASSUME TypeInv, Registrations
  PROVE  TypeInv'
<1>. PICK c \in Client, a \in Address :
       Publish(c, a) \/ PublishInvalid(c, a) \/ PublishRefused(c, a) \/ PublishRegistered(c, a)
  BY DEF Registrations
<1>1. CASE Publish(c, a)
  BY <1>1 DEF Publish, TypeInv, TypeOK, FiniteInbox, mailVars, fateVars
<1>2. Resuming(c, a) => awaiting' \in Seq(Client \X Address)
  BY DEF Resuming, TypeInv, TypeOK
<1>3. CASE PublishInvalid(c, a)
  BY <1>2, <1>3 DEF PublishInvalid, TypeInv, TypeOK, FiniteInbox, mailVars, fateVars
<1>4. CASE PublishRefused(c, a)
  BY <1>2, <1>4 DEF PublishRefused, TypeInv, TypeOK, FiniteInbox, mailVars, fateVars
<1>5. CASE PublishRegistered(c, a)
  <2>1. a \in Recipient /\ inbox[a] \in SUBSET Item
    BY DEF Recipient, TypeInv, TypeOK
  <2>2. /\ mixPool' \in SUBSET Item
        /\ mixTimer' \in BOOLEAN
        /\ batch' \in SUBSET Item
    BY <1>5, <2>1, EnqueueBacklogType DEF PublishRegistered, TakeInbox
  <2>3. /\ inbox' \in [Recipient -> SUBSET Item]
        /\ \A r \in Recipient : inbox'[r] = inbox[r] \/ inbox'[r] = {}
    BY <1>5, <2>1 DEF PublishRegistered, TakeInbox, TypeInv, TypeOK
  <2>4. FiniteInbox'
    BY <2>3, FS_EmptySet DEF TypeInv, FiniteInbox
  <2>5. Release(c, a) \in [Address -> Client \cup {None}]
    BY DEF Release, TypeInv, TypeOK
  <2>6. /\ online' \in [Address -> Client \cup {None}]
        /\ directory' \in [Address -> Client \cup {None}]
        /\ pk' \in [Client -> Address \cup {None}]
    BY <1>5, <2>5 DEF PublishRegistered, TakeInbox, TypeInv, TypeOK
  <2>. QED
    BY <1>2, <1>5, <2>2, <2>3, <2>4, <2>6 DEF PublishRegistered, TakeInbox, TypeInv, TypeOK, fateVars
<1>. QED  BY <1>1, <1>3, <1>4, <1>5

\* An accepted submission adds an item of its type to the log.
LEMMA AcceptType ==
  ASSUME TypeInv, NEW t \in Traffic, Accept(t)
  PROVE  /\ log' \in Seq([to : Recipient, mode : Mode, ts : Nat])
         /\ NewId \in Nat
         /\ NewItem(t) \in Item
         /\ acked \cup {NewId} \in SUBSET Nat
<1>1. t \in [to : Recipient, mode : Mode]
  BY RelayAssumption
<1>2. [to |-> t.to, mode |-> t.mode, ts |-> now] \in [to : Recipient, mode : Mode, ts : Nat]
  BY <1>1 DEF TypeInv, TypeOK
<1>3. NewId \in Nat
  BY DEF NewId, TypeInv, TypeOK
<1>. QED  BY <1>1, <1>2, <1>3 DEF Accept, NewItem, Item, TypeInv, TypeOK

\* TypeInv is preserved by submissions.
LEMMA TypeInvSubmissions ==
  ASSUME TypeInv, Submissions
  PROVE  TypeInv'
<1>1. CASE \E c \in Client, g \in Subscribable : Subscribe(c, g)
  <2>. PICK c \in Client, g \in Subscribable : Subscribe(c, g)
    BY <1>1
  <2>. DEFINE items == {[it EXCEPT !.directTo = c] : it \in inbox[g]}
  <2>1. g \in Recipient /\ items \in SUBSET Item
    <3>1. g \in Recipient /\ inbox[g] \in SUBSET Item
      BY RelayAssumption DEF TypeInv, TypeOK
    <3>2. \A it \in Item : [it EXCEPT !.directTo = c] \in Item
      BY DEF Item
    <3>. QED  BY <3>1, <3>2
  <2>2. /\ mixPool' \in SUBSET Item
        /\ mixTimer' \in BOOLEAN
        /\ batch' \in SUBSET Item
    BY <2>1, EnqueueBacklogType DEF Subscribe, Directed, TakeInbox
  <2>3. /\ inbox' \in [Recipient -> SUBSET Item]
        /\ \A r \in Recipient : inbox'[r] = inbox[r] \/ inbox'[r] = {}
    BY <2>1 DEF Subscribe, TakeInbox, TypeInv, TypeOK
  <2>4. FiniteInbox'
    BY <2>3, FS_EmptySet DEF TypeInv, FiniteInbox
  <2>5. taken' \in SUBSET Nat
    <3>1. \A it \in inbox[g] : it.id \in Nat
      BY <2>1 DEF TypeInv, TypeOK, Item
    <3>. QED  BY <3>1 DEF Subscribe, TypeInv, TypeOK
  <2>. QED
    BY <2>1, <2>2, <2>3, <2>4, <2>5 DEF Subscribe, TakeInbox, TypeInv, TypeOK
<1>2. CASE \E t \in Traffic : SendCover(t)
  BY <1>2, AcceptType
     DEF SendCover, TypeInv, TypeOK, FiniteInbox, connVars, mailVars, fateVars
<1>3. CASE \E t \in Traffic : SendMixed(t)
  <2>. PICK t \in Traffic : SendMixed(t)
    BY <1>3
  <2>1. Accept(t)
    BY DEF SendMixed
  <2>2. mixPool' \in SUBSET Item /\ mixTimer' \in BOOLEAN /\ batch' = batch
    BY <2>1, AcceptType DEF SendMixed, Pool, TypeInv, TypeOK
  <2>. QED
    BY <2>1, <2>2, AcceptType
       DEF SendMixed, TypeInv, TypeOK, FiniteInbox, connVars, fateVars
<1>4. CASE \E t \in Traffic : SendUnmixed(t)
  <2>. PICK t \in Traffic : SendUnmixed(t)
    BY <1>4
  <2>1. Accept(t) /\ DeliverMixed(NewItem(t))
    BY DEF SendUnmixed, Told
  <2>2. acked' \in SUBSET Nat
    BY <2>1, AcceptType DEF SendUnmixed, Told, TypeInv, TypeOK
  <2>3. /\ inbox' \in [Recipient -> SUBSET Item]
        /\ \A r \in Recipient : IsFiniteSet(inbox'[r])
        /\ lost' \in SUBSET (Nat \X Why)
        /\ wire' \in [Client -> Seq(Nat)]
    BY <2>1, AcceptType, DeliverMixedType
  <2>. QED
    BY <2>1, <2>2, <2>3, AcceptType
       DEF SendUnmixed, Told, TypeInv, TypeOK, FiniteInbox, connVars
<1>. QED  BY <1>1, <1>2, <1>3, <1>4 DEF Submissions

\* TypeInv is preserved by deliveries.
LEMMA TypeInvDeliveries ==
  ASSUME TypeInv, Deliveries
  PROVE  TypeInv'
<1>1. CASE FlushMixBatch
  BY <1>1 DEF FlushMixBatch, TypeInv, TypeOK, FiniteInbox, connVars, fateVars
<1>2. ASSUME NEW item \in batch, DeliverNext(item)
      PROVE  TypeInv'
  <2>1. item \in Item
    BY DEF TypeInv, TypeOK
  <2>. QED
    BY <1>2, <2>1, DeliverMixedType
       DEF DeliverNext, TypeInv, TypeOK, FiniteInbox, connVars
<1>3. ASSUME NEW item \in batch, DelayNext(item)
      PROVE  TypeInv'
  BY <1>3 DEF DelayNext, TypeInv, TypeOK, FiniteInbox, connVars, fateVars
<1>4. ASSUME NEW item \in jittered, JitterFires(item)
      PROVE  TypeInv'
  <2>1. item \in Item
    BY DEF TypeInv, TypeOK
  <2>. QED
    BY <1>4, <2>1, DeliverMixedType
       DEF JitterFires, TypeInv, TypeOK, FiniteInbox, connVars
<1>. QED  BY <1>1, <1>2, <1>3, <1>4 DEF Deliveries

\* TypeInv is preserved by the clock and the sweep.
LEMMA TypeInvClock ==
  ASSUME TypeInv, Tick \/ Sweep
  PROVE  TypeInv'
<1>1. CASE Tick
  BY <1>1 DEF Tick, TypeInv, TypeOK, FiniteInbox, connVars, mailVars, fateVars
<1>2. CASE Sweep
  <2>1. \A r \in Recipient : inbox[r] \in SUBSET Item /\ IsFiniteSet(inbox[r])
    BY DEF TypeInv, TypeOK, FiniteInbox
  <2>2. /\ inbox' \in [Recipient -> SUBSET Item]
        /\ \A r \in Recipient : inbox'[r] \in SUBSET inbox[r]
    BY <1>2, <2>1 DEF Sweep
  <2>3. FiniteInbox'
    BY <2>1, <2>2, FS_Subset DEF FiniteInbox
  <2>4. lost' \in SUBSET (Nat \X Why)
    <3>1. \A it \in UNION {inbox[r] : r \in Recipient} : it.id \in Nat
      BY <2>1 DEF Item
    <3>. QED  BY <1>2, <3>1 DEF Sweep, TypeInv, TypeOK, Why
  <2>. QED  BY <1>2, <2>2, <2>3, <2>4 DEF Sweep, TypeInv, TypeOK, connVars
<1>. QED  BY <1>1, <1>2

\* TypeInv is preserved by every step.
LEMMA TypeInvNext ==
  ASSUME TypeInv, [Next]_vars
  PROVE  TypeInv'
<1>1. CASE Next
  BY <1>1, TypeInvConnections, TypeInvRegistrations, TypeInvSubmissions,
     TypeInvDeliveries, TypeInvClock DEF Next
<1>2. CASE UNCHANGED vars
  BY <1>2 DEF vars, connVars, mailVars, fateVars, TypeInv, TypeOK, FiniteInbox
<1>. QED  BY <1>1, <1>2

\* Every reachable state of the relay is well typed, for every instance.
THEOREM TypeCorrect == Spec => []TypeOK
<1>1. Spec => []TypeInv
  BY TypeInvInit, TypeInvNext, PTL DEF Spec
<1>2. TypeInv => TypeOK
  BY DEF TypeInv
<1>. QED  BY <1>1, <1>2, PTL

------------------------------------------------------------------------------
(* Registrations and the messages that wait for them.                        *)

\* A connection is open before any of its requests is handled, and every entry
\* it leaves behind is therefore of a connection that was accepted once.
Accepted ==
  /\ \A a \in Address : online[a] # None => conn[online[a]] # "none"
  /\ \A i \in 1..Len(awaiting) : conn[awaiting[i][1]] # "none"

InFlight == mixPool \cup batch \cup jittered

\* A message waits in the list of its own recipient, without a connection to go
\* to; only a subscription's catch-up is meant for one connection, which subscribes to
\* that id until it is gone, and has taken the message if the id is an address.
Routed ==
  /\ \A r \in Recipient : \A it \in inbox[r] : it.to = r /\ it.directTo = None
  /\ \A it \in InFlight : it.directTo # None =>
       /\ conn[it.directTo] # "gone" => it.directTo \in groups[it.to]
       /\ it.to \in Address => it.id \in taken

\* What the safety of registrations rests on.  NoMailStranded alone is not
\* inductive: a message could be queued for the wrong recipient, or a connection
\* come to life under an address it never registered.
RegistrationInv ==
  /\ TypeInv
  /\ OnlineMatchesPk
  /\ NoGoneSubscriber
  /\ WindowArmed
  /\ NoMailStranded
  /\ Accepted
  /\ Routed

\* RegistrationInv holds at first.
LEMMA RegistrationInit == Init => RegistrationInv
<1>. SUFFICES ASSUME Init PROVE RegistrationInv
  OBVIOUS
<1>1. TypeInv
  BY TypeInvInit
<1>2. OnlineMatchesPk /\ NoGoneSubscriber /\ WindowArmed
  BY DEF Init, OnlineMatchesPk, NoGoneSubscriber, WindowArmed
<1>3. NoMailStranded
  BY DEF Init, NoMailStranded, LiveOwner, IsAlive
<1>4. Accepted
  BY DEF Init, Accepted
<1>5. Routed
  BY DEF Init, Routed, InFlight
<1>. QED  BY <1>1, <1>2, <1>3, <1>4, <1>5 DEF RegistrationInv

\* RegistrationInv is preserved by connecting, closing and dropping.
LEMMA RegistrationConnections ==
  ASSUME RegistrationInv, Connections
  PROVE  RegistrationInv'
<1>. PICK c \in Client : Connect(c) \/ Closing(c) \/ DropClient(c)
  BY DEF Connections
<1>0. TypeInv'
  BY TypeInvConnections DEF RegistrationInv
<1>1. CASE Connect(c) \/ Closing(c)
  <2>1. /\ UNCHANGED <<pk, online, groups, awaiting, inbox, mixPool, mixTimer, batch, jittered, taken>>
        /\ \A d \in Client : conn'[d] = conn[d] \/ d = c
        /\ conn'[c] \in {"open", "closing"}
        /\ conn'[c] = "open" => conn[c] = "none"
        /\ conn[c] # "gone"
    BY <1>1 DEF Connect, Closing, mailVars, fateVars, RegistrationInv, TypeInv, TypeOK
  <2>2. OnlineMatchesPk' /\ NoGoneSubscriber' /\ WindowArmed'
    BY <2>1 DEF RegistrationInv, OnlineMatchesPk, NoGoneSubscriber, WindowArmed, TypeInv, TypeOK
  <2>3. \A a \in Address : LiveOwner(a)' => LiveOwner(a)
    BY <2>1 DEF LiveOwner, IsAlive, RegistrationInv, Accepted, TypeInv, TypeOK
  <2>4. NoMailStranded'
    BY <2>1, <2>3 DEF NoMailStranded, RegistrationInv
  <2>5. Accepted'
    <3>1. \A i \in 1..Len(awaiting) : awaiting[i][1] \in Client
      BY DEF RegistrationInv, TypeInv, TypeOK
    <3>2. \A a \in Address : online[a] # None => online[a] \in Client
      BY DEF RegistrationInv, TypeInv, TypeOK
    <3>. QED  BY <2>1, <3>1, <3>2 DEF Accepted, RegistrationInv
  <2>6. Routed'
    <3>1. \A it \in InFlight : it.directTo # None => it.directTo \in Client
      BY DEF InFlight, Item, RegistrationInv, TypeInv, TypeOK
    <3>. QED  BY <2>1, <3>1 DEF Routed, InFlight, RegistrationInv
  <2>. QED  BY <1>0, <2>2, <2>4, <2>5, <2>6 DEF RegistrationInv
<1>2. CASE DropClient(c)
  <2>1. /\ UNCHANGED <<pk, awaiting, inbox, mixPool, mixTimer, batch, jittered, taken>>
        /\ conn' = [conn EXCEPT ![c] = "gone"]
        /\ \A a \in Address : online'[a] = online[a] \/ online'[a] = None
        /\ \A r \in Recipient : groups'[r] = groups[r] \ {c}
    BY <1>2 DEF DropClient, Unsubscribed, mailVars, fateVars
  <2>2. OnlineMatchesPk' /\ WindowArmed'
    BY <2>1 DEF RegistrationInv, OnlineMatchesPk, WindowArmed
  <2>3. NoGoneSubscriber'
    BY <2>1 DEF RegistrationInv, NoGoneSubscriber, TypeInv, TypeOK
  <2>4. \A a \in Address : LiveOwner(a)' => LiveOwner(a)
    BY <2>1 DEF LiveOwner, IsAlive, RegistrationInv, TypeInv, TypeOK
  <2>5. NoMailStranded'
    BY <2>1, <2>4 DEF NoMailStranded, RegistrationInv
  <2>6. Accepted'
    BY <2>1 DEF Accepted, RegistrationInv, TypeInv, TypeOK
  <2>7. Routed'
    BY <2>1 DEF Routed, InFlight, RegistrationInv, TypeInv, TypeOK, Item
  <2>. QED  BY <1>0, <2>2, <2>3, <2>5, <2>6, <2>7 DEF RegistrationInv
<1>. QED  BY <1>1, <1>2

\* RegistrationInv is preserved by registrations.
LEMMA RegistrationRegistrations ==
  ASSUME RegistrationInv, Registrations
  PROVE  RegistrationInv'
<1>. PICK c \in Client, a \in Address :
       Publish(c, a) \/ PublishInvalid(c, a) \/ PublishRefused(c, a) \/ PublishRegistered(c, a)
  BY DEF Registrations
<1>0. TypeInv'
  BY TypeInvRegistrations DEF RegistrationInv
<1>1. CASE Publish(c, a)
  <2>1. UNCHANGED <<conn, pk, online, groups, inbox, mixPool, mixTimer, batch, jittered, taken>>
    BY <1>1 DEF Publish, mailVars, fateVars
  <2>2. Accepted'
    <3>1. conn[c] # "none"
      BY <1>1 DEF Publish, CanSpeak
    <3>2. \A i \in 1..Len(awaiting') :
            awaiting'[i] = <<c, a>> \/ (i \in 1..Len(awaiting) /\ awaiting'[i] = awaiting[i])
      <4>1. awaiting \in Seq(Client \X Address) /\ awaiting' = Append(awaiting, <<c, a>>)
        BY <1>1 DEF Publish, RegistrationInv, TypeInv, TypeOK
      <4>. QED  BY <4>1
    <3>. QED  BY <2>1, <3>1, <3>2 DEF Accepted, RegistrationInv
  <2>. QED
    BY <1>0, <2>1, <2>2 DEF RegistrationInv, OnlineMatchesPk, NoGoneSubscriber, WindowArmed,
       NoMailStranded, LiveOwner, IsAlive, Routed, InFlight
<1>2. ASSUME Resuming(c, a)
      PROVE  /\ conn[c] # "none"
             /\ \A i \in 1..Len(awaiting') : conn[awaiting'[i][1]] # "none"
  <2>1. awaiting # <<>> /\ awaiting[1] = <<c, a>> /\ Len(awaiting) >= 1
    BY <1>2 DEF Resuming, RegistrationInv, TypeInv, TypeOK
  <2>2. \A i \in 1..Len(awaiting') : i + 1 \in 1..Len(awaiting) /\ awaiting'[i] = awaiting[i + 1]
    BY <1>2, <2>1 DEF Resuming, RegistrationInv, TypeInv, TypeOK
  <2>. QED  BY <2>1, <2>2 DEF Accepted, RegistrationInv
<1>3. CASE PublishInvalid(c, a) \/ PublishRefused(c, a)
  <2>1. /\ Resuming(c, a)
        /\ UNCHANGED <<conn, pk, online, groups, inbox, mixPool, mixTimer, batch, jittered, taken>>
    BY <1>3 DEF PublishInvalid, PublishRefused, mailVars, fateVars
  <2>2. Accepted'
    BY <1>2, <2>1 DEF Accepted, RegistrationInv
  <2>. QED
    BY <1>0, <2>1, <2>2 DEF RegistrationInv, OnlineMatchesPk, NoGoneSubscriber, WindowArmed,
       NoMailStranded, LiveOwner, IsAlive, Routed, InFlight
<1>4. CASE PublishRegistered(c, a)
  <2>1. /\ Resuming(c, a)
        /\ UNCHANGED <<conn, groups, jittered, taken>>
        /\ pk' = [pk EXCEPT ![c] = a]
        /\ online'[a] = c
        /\ \A b \in Address \ {a} :
             online'[b] = IF b = pk[c] /\ online[b] = c THEN None ELSE online[b]
        /\ a \in Recipient
        /\ inbox'[a] = {}
        /\ \A r \in Recipient \ {a} : inbox'[r] = inbox[r]
    BY <1>4 DEF PublishRegistered, TakeInbox, Release, Recipient, fateVars, RegistrationInv, TypeInv, TypeOK
  <2>2. OnlineMatchesPk'
    <3>1. \A d \in Client : pk'[d] = IF d = c THEN a ELSE pk[d]
      BY <2>1 DEF RegistrationInv, TypeInv, TypeOK
    <3>2. online'[a] # None => pk'[online'[a]] = a
      BY <2>1, <3>1
    <3>3. ASSUME NEW b \in Address \ {a}, online'[b] # None  PROVE pk'[online'[b]] = b
      <4>1. online'[b] = online[b] /\ online[b] \in Client /\ ~(b = pk[c] /\ online[b] = c)
        BY <2>1, <3>3 DEF RegistrationInv, TypeInv, TypeOK
      <4>2. pk[online[b]] = b
        BY <4>1, <3>3 DEF RegistrationInv, OnlineMatchesPk
      <4>. QED  BY <3>1, <4>1, <4>2
    <3>. QED  BY <3>2, <3>3 DEF OnlineMatchesPk
  <2>3. NoGoneSubscriber'
    BY <2>1 DEF RegistrationInv, NoGoneSubscriber
  <2>4. WindowArmed'
    BY <1>4 DEF PublishRegistered, TakeInbox, EnqueueBacklog, Pool, RegistrationInv, WindowArmed, TypeInv, TypeOK
  <2>5. NoMailStranded'
    <3>1. \A b \in Address : b \in Recipient
      BY DEF Recipient
    <3>2. \A b \in Address \ {a} : LiveOwner(b)' => LiveOwner(b)
      BY <2>1 DEF LiveOwner, IsAlive
    <3>. QED  BY <2>1, <3>1, <3>2 DEF NoMailStranded, RegistrationInv
  <2>6. Accepted'
    BY <1>2, <2>1 DEF Accepted, RegistrationInv
  <2>7. Routed'
    <3>1. \A it \in inbox[a] : it.directTo = None
      BY <2>1 DEF Routed, RegistrationInv
    <3>2. inbox[a] \in SUBSET Item /\ EnqueueBacklog(inbox[a])
      BY <1>4, <2>1 DEF PublishRegistered, TakeInbox, RegistrationInv, TypeInv, TypeOK
    <3>3. \A it \in InFlight' : it \in InFlight \/ it.directTo = None
      BY <2>1, <3>1, <3>2, EnqueueBacklogItems DEF InFlight
    <3>. QED  BY <2>1, <3>3 DEF Routed, RegistrationInv
  <2>. QED  BY <1>0, <2>2, <2>3, <2>4, <2>5, <2>6, <2>7 DEF RegistrationInv
<1>. QED  BY <1>1, <1>3, <1>4

\* Resolving a message queues it only for a recipient nobody is live for, or because
\* the subscriber it was meant for is gone.
LEMMA DeliverMixedQueues ==
  ASSUME RegistrationInv, NEW item \in Item, DeliverMixed(item)
  PROVE  \A r \in Recipient : \A it \in inbox'[r] :
           \/ it \in inbox[r]
           \/ /\ it.to = r /\ item.to = r /\ it.directTo = None
              /\ it.id = item.id /\ it.mode = item.mode
              /\ (r \in Address /\ it.mode = "pair") => (item.directTo # None \/ ~LiveOwner(r))
<1>1. CASE UNCHANGED inbox
  BY <1>1
<1>2. CASE Targets(item) = {} /\ QueueMessage(item) /\ ~UNCHANGED inbox
  <2>. DEFINE entry == [item EXCEPT !.pos = NextPos(item.to), !.directTo = None]
  <2>1. /\ entry.to = item.to /\ entry.mode = item.mode /\ entry.directTo = None /\ entry.id = item.id
        /\ item.to \in Recipient
    BY DEF Item
  <2>2. inbox' = [inbox EXCEPT ![item.to] = @ \cup {entry}]
    BY <1>2 DEF QueueMessage
  <2>3. \A r \in Recipient : \A it \in inbox'[r] : it \in inbox[r] \/ (r = item.to /\ it = entry)
    BY <2>1, <2>2 DEF RegistrationInv, TypeInv, TypeOK
  <2>4. (item.to \in Address /\ item.mode = "pair") => (item.directTo # None \/ ~LiveOwner(item.to))
    <3>. SUFFICES ASSUME item.to \in Address, item.mode = "pair", LiveOwner(item.to),
                         item.directTo = None
                  PROVE  FALSE
      OBVIOUS
    <3>1. online[item.to] \in Client
      <4>1. online[item.to] \in Client \cup {None}
        BY DEF RegistrationInv, TypeInv, TypeOK
      <4>. QED  BY <4>1 DEF LiveOwner, IsAlive
    <3>2. online[item.to] \in Targets(item)
      BY <3>1 DEF Targets, LiveOwner
    <3>. QED  BY <1>2, <3>2
  <2>. QED  BY <2>1, <2>3, <2>4
<1>. QED  BY <1>1, <1>2 DEF DeliverMixed

\* So what is queued for the address of a live owner was taken by a subscription.
LEMMA DeliverMixedRouted ==
  ASSUME RegistrationInv, NEW item \in Item, DeliverMixed(item),
         (item.directTo # None /\ item.to \in Address) => item.id \in taken
  PROVE  \A r \in Recipient : \A it \in inbox'[r] :
           \/ it \in inbox[r]
           \/ /\ it.to = r /\ it.directTo = None
              /\ (r \in Address /\ it.mode = "pair") => (it.id \in taken \/ ~LiveOwner(r))
<1>. SUFFICES ASSUME NEW r \in Recipient, NEW it \in inbox'[r], it \notin inbox[r]
              PROVE  /\ it.to = r /\ it.directTo = None
                     /\ (r \in Address /\ it.mode = "pair") => (it.id \in taken \/ ~LiveOwner(r))
  OBVIOUS
<1>1. /\ it.to = r /\ item.to = r /\ it.directTo = None
      /\ it.id = item.id /\ it.mode = item.mode
      /\ (r \in Address /\ it.mode = "pair") => (item.directTo # None \/ ~LiveOwner(r))
  BY DeliverMixedQueues
<1>. QED  BY <1>1

\* RegistrationInv is preserved by submissions.
LEMMA RegistrationSubmissions ==
  ASSUME RegistrationInv, Submissions
  PROVE  RegistrationInv'
<1>0. TypeInv'
  BY TypeInvSubmissions DEF RegistrationInv
<1>1. CASE \E c \in Client, g \in Subscribable : Subscribe(c, g)
  <2>. PICK c \in Client, g \in Subscribable : Subscribe(c, g)
    BY <1>1
  <2>1. /\ UNCHANGED <<conn, pk, online, awaiting, jittered>>
        /\ conn[c] # "gone"
        /\ groups' = [groups EXCEPT ![g] = @ \cup {c}]
        /\ g \in Recipient
        /\ inbox'[g] = {}
        /\ \A r \in Recipient \ {g} : inbox'[r] = inbox[r]
        /\ taken \subseteq taken'
        /\ g \in Address => \A it \in inbox[g] : it.id \in taken'
    BY RelayAssumption DEF Subscribe, TakeInbox, CanSpeak, RegistrationInv, TypeInv, TypeOK
  <2>2. OnlineMatchesPk'
    BY <2>1 DEF RegistrationInv, OnlineMatchesPk
  <2>3. NoGoneSubscriber'
    BY <2>1 DEF RegistrationInv, NoGoneSubscriber, TypeInv, TypeOK
  <2>4. WindowArmed'
    BY DEF Subscribe, TakeInbox, EnqueueBacklog, Directed, Pool, RegistrationInv, WindowArmed, TypeInv, TypeOK
  <2>5. NoMailStranded'
    <3>1. \A b \in Address : b \in Recipient
      BY DEF Recipient
    <3>. QED  BY <2>1, <3>1 DEF NoMailStranded, RegistrationInv, LiveOwner, IsAlive
  <2>6. Accepted'
    BY <2>1 DEF Accepted, RegistrationInv
  <2>7. Routed'
    <3>. DEFINE items == {[it EXCEPT !.directTo = c] : it \in inbox[g]}
    <3>1. \A it \in inbox[g] : it \in Item /\ it.to = g
      BY <2>1 DEF Routed, RegistrationInv, TypeInv, TypeOK
    <3>2. \A it \in items : /\ it \in Item /\ it.to = g /\ it.directTo = c
                            /\ g \in Address => it.id \in taken'
      BY <2>1, <3>1, DirectedItems DEF SameMessage
    <3>3. EnqueueBacklog(items)
      BY DEF Subscribe, Directed, TakeInbox
    <3>4. \A it \in InFlight' : \/ it \in InFlight
                               \/ /\ it.to = g /\ it.directTo = c
                                  /\ g \in Address => it.id \in taken'
      BY <2>1, <3>2, <3>3, EnqueueBacklogItems DEF InFlight, SameMessage
    <3>5. \A h \in Recipient : groups[h] \subseteq groups'[h]
      BY <2>1 DEF RegistrationInv, TypeInv, TypeOK
    <3>6. c \in groups'[g]
      BY <2>1 DEF RegistrationInv, TypeInv, TypeOK
    <3>7. \A it \in InFlight : it.to \in Recipient
      BY DEF InFlight, RegistrationInv, TypeInv, TypeOK, Item
    <3>. QED  BY <2>1, <3>4, <3>5, <3>6, <3>7 DEF Routed, RegistrationInv
  <2>. QED  BY <1>0, <2>2, <2>3, <2>4, <2>5, <2>6, <2>7 DEF RegistrationInv
<1>2. CASE \E t \in Traffic : SendCover(t)
  BY <1>0, <1>2 DEF SendCover, connVars, mailVars, fateVars, RegistrationInv, OnlineMatchesPk,
     NoGoneSubscriber, WindowArmed, NoMailStranded, LiveOwner, IsAlive, Accepted, Routed, InFlight
<1>3. CASE \E t \in Traffic : SendMixed(t)
  <2>. PICK t \in Traffic : SendMixed(t)
    BY <1>3
  <2>1. UNCHANGED <<conn, pk, online, groups, awaiting, inbox, batch, jittered, taken>>
    BY DEF SendMixed, Pool, connVars, fateVars
  <2>2. WindowArmed'
    BY DEF SendMixed, Pool, RegistrationInv, WindowArmed, TypeInv, TypeOK
  <2>3. Routed'
    <3>1. NewItem(t).directTo = None
      BY DEF NewItem
    <3>2. \A it \in InFlight' : it \in InFlight \/ it.directTo = None
      BY <2>1, <3>1 DEF SendMixed, Pool, InFlight
    <3>. QED  BY <2>1, <3>2 DEF Routed, RegistrationInv
  <2>. QED
    BY <1>0, <2>1, <2>2, <2>3 DEF RegistrationInv, OnlineMatchesPk, NoGoneSubscriber,
       NoMailStranded, LiveOwner, IsAlive, Accepted
<1>4. CASE \E t \in Traffic : SendUnmixed(t)
  <2>. PICK t \in Traffic : SendUnmixed(t)
    BY <1>4
  <2>1. /\ Accept(t) /\ DeliverMixed(NewItem(t))
        /\ UNCHANGED <<conn, pk, online, groups, awaiting, mixPool, mixTimer, batch, jittered, taken>>
    BY DEF SendUnmixed, Told, connVars
  <2>2. NewItem(t) \in Item /\ NewItem(t).directTo = None
    BY <2>1, AcceptType DEF RegistrationInv, NewItem
  <2>3. \A r \in Recipient : \A it \in inbox'[r] :
           \/ it \in inbox[r]
           \/ /\ it.to = r /\ it.directTo = None
              /\ (r \in Address /\ it.mode = "pair") => (it.id \in taken \/ ~LiveOwner(r))
    BY <2>1, <2>2, DeliverMixedRouted
  <2>4. NoMailStranded'
    <3>1. \A b \in Address : b \in Recipient
      BY DEF Recipient
    <3>2. \A b \in Address : LiveOwner(b)' = LiveOwner(b)
      BY <2>1 DEF LiveOwner, IsAlive
    <3>3. \A b \in Address : \A it \in inbox'[b] : it.mode = "pair" =>
            (it \in inbox[b] \/ it.id \in taken \/ ~LiveOwner(b))
      BY <2>3, <3>1
    <3>. QED  BY <2>1, <3>2, <3>3 DEF NoMailStranded, RegistrationInv
  <2>5. Routed'
    BY <2>1, <2>3 DEF Routed, InFlight, RegistrationInv
  <2>. QED
    BY <1>0, <2>1, <2>4, <2>5 DEF RegistrationInv, OnlineMatchesPk, NoGoneSubscriber,
       WindowArmed, Accepted
<1>. QED  BY <1>1, <1>2, <1>3, <1>4 DEF Submissions

\* RegistrationInv is preserved by deliveries.
LEMMA RegistrationDeliveries ==
  ASSUME RegistrationInv, Deliveries
  PROVE  RegistrationInv'
<1>0. TypeInv'
  BY TypeInvDeliveries DEF RegistrationInv
<1>1. CASE FlushMixBatch
  <2>1. /\ UNCHANGED <<conn, pk, online, groups, awaiting, inbox, jittered, taken>>
        /\ InFlight' \subseteq InFlight
        /\ mixTimer' = FALSE /\ mixPool' = {}
    BY <1>1 DEF FlushMixBatch, InFlight, connVars, fateVars
  <2>2. Routed'
    BY <2>1 DEF Routed, RegistrationInv
  <2>. QED
    BY <1>0, <2>1, <2>2 DEF RegistrationInv, OnlineMatchesPk, NoGoneSubscriber, WindowArmed,
       NoMailStranded, LiveOwner, IsAlive, Accepted
<1>2. ASSUME NEW item \in InFlight, DeliverMixed(item),
             UNCHANGED <<conn, pk, online, groups, awaiting, mixPool, mixTimer, taken>>,
             InFlight' \subseteq InFlight
      PROVE  RegistrationInv'
  <2>1. item \in Item /\ ((item.directTo # None /\ item.to \in Address) => item.id \in taken)
    BY DEF InFlight, RegistrationInv, TypeInv, TypeOK, Routed
  <2>2. \A r \in Recipient : \A it \in inbox'[r] :
           \/ it \in inbox[r]
           \/ /\ it.to = r /\ it.directTo = None
              /\ (r \in Address /\ it.mode = "pair") => (it.id \in taken \/ ~LiveOwner(r))
    BY <1>2, <2>1, DeliverMixedRouted
  <2>3. NoMailStranded'
    <3>1. \A b \in Address : b \in Recipient
      BY DEF Recipient
    <3>2. \A b \in Address : LiveOwner(b)' = LiveOwner(b)
      BY <1>2 DEF LiveOwner, IsAlive
    <3>3. \A b \in Address : \A it \in inbox'[b] : it.mode = "pair" =>
            (it \in inbox[b] \/ it.id \in taken \/ ~LiveOwner(b))
      BY <2>2, <3>1
    <3>. QED  BY <1>2, <3>2, <3>3 DEF NoMailStranded, RegistrationInv
  <2>4. Routed'
    BY <1>2, <2>2 DEF Routed, RegistrationInv
  <2>. QED
    BY <1>0, <1>2, <2>3, <2>4 DEF RegistrationInv, OnlineMatchesPk, NoGoneSubscriber,
       WindowArmed, Accepted
<1>3. ASSUME NEW item \in batch, DeliverNext(item)
      PROVE  RegistrationInv'
  BY <1>2, <1>3 DEF DeliverNext, InFlight, connVars
<1>4. ASSUME NEW item \in batch, DelayNext(item)
      PROVE  RegistrationInv'
  <2>1. /\ UNCHANGED <<conn, pk, online, groups, awaiting, inbox, mixPool, mixTimer, taken>>
        /\ InFlight' \subseteq InFlight
    BY <1>4 DEF DelayNext, InFlight, connVars, fateVars
  <2>2. Routed'
    BY <2>1 DEF Routed, RegistrationInv
  <2>. QED
    BY <1>0, <2>1, <2>2 DEF RegistrationInv, OnlineMatchesPk, NoGoneSubscriber, WindowArmed,
       NoMailStranded, LiveOwner, IsAlive, Accepted
<1>5. ASSUME NEW item \in jittered, JitterFires(item)
      PROVE  RegistrationInv'
  BY <1>2, <1>5 DEF JitterFires, InFlight, connVars
<1>. QED  BY <1>1, <1>3, <1>4, <1>5 DEF Deliveries

\* RegistrationInv is preserved by the clock and the sweep.
LEMMA RegistrationClock ==
  ASSUME RegistrationInv, Tick \/ Sweep
  PROVE  RegistrationInv'
<1>0. TypeInv'
  BY TypeInvClock DEF RegistrationInv
<1>1. /\ UNCHANGED <<conn, pk, online, groups, awaiting, mixPool, mixTimer, batch, jittered, taken>>
      /\ \A r \in Recipient : inbox'[r] \subseteq inbox[r]
  BY DEF Tick, Sweep, connVars, mailVars, fateVars
<1>2. NoMailStranded'
  <2>1. \A b \in Address : b \in Recipient
    BY DEF Recipient
  <2>2. \A b \in Address : LiveOwner(b)' = LiveOwner(b)
    BY <1>1 DEF LiveOwner, IsAlive
  <2>. QED  BY <1>1, <2>1, <2>2 DEF NoMailStranded, RegistrationInv
<1>3. Routed'
  BY <1>1 DEF Routed, InFlight, RegistrationInv
<1>. QED
  BY <1>0, <1>1, <1>2, <1>3 DEF RegistrationInv, OnlineMatchesPk, NoGoneSubscriber,
     WindowArmed, Accepted

\* RegistrationInv is preserved by every step.
LEMMA RegistrationNext ==
  ASSUME RegistrationInv, [Next]_vars
  PROVE  RegistrationInv'
<1>1. CASE Next
  BY <1>1, RegistrationConnections, RegistrationRegistrations, RegistrationSubmissions,
     RegistrationDeliveries, RegistrationClock DEF Next
<1>2. CASE UNCHANGED vars
  <2>1. TypeInv'
    BY <1>2, TypeInvNext DEF RegistrationInv
  <2>. QED
    BY <1>2, <2>1 DEF vars, connVars, mailVars, fateVars, RegistrationInv, OnlineMatchesPk,
       NoGoneSubscriber, WindowArmed, NoMailStranded, LiveOwner, IsAlive, Accepted, Routed,
       InFlight
<1>. QED  BY <1>1, <1>2

\* RegistrationInv holds in every reachable state.
LEMMA RegistrationCorrect == Spec => []RegistrationInv
BY RegistrationInit, RegistrationNext, PTL DEF Spec

\* The online map and client.pk agree in every reachable state.
THEOREM OnlineMatchesPkAlways == Spec => []OnlineMatchesPk
<1>1. RegistrationInv => OnlineMatchesPk
  BY DEF RegistrationInv
<1>. QED  BY <1>1, RegistrationCorrect, PTL

\* No pair message waits in the inbox of an address whose owner is connected, unless
\* a subscription to that very address once took it, however registrations, closes,
\* flushes and catch-ups interleave and whatever ids are subscribed to.
THEOREM NoMailStrandedAlways == Spec => []NoMailStranded
<1>1. RegistrationInv => NoMailStranded
  BY DEF RegistrationInv
<1>. QED  BY <1>1, RegistrationCorrect, PTL

\* The timer of the mix window is armed exactly while the pool is not empty.
THEOREM WindowArmedAlways == Spec => []WindowArmed
<1>1. RegistrationInv => WindowArmed
  BY DEF RegistrationInv
<1>. QED  BY <1>1, RegistrationCorrect, PTL

\* No fan-out set, of a group or an address, holds a connection whose close handler
\* has run.
THEOREM NoGoneSubscriberAlways == Spec => []NoGoneSubscriber
<1>1. RegistrationInv => NoGoneSubscriber
  BY DEF RegistrationInv
<1>. QED  BY <1>1, RegistrationCorrect, PTL

\* A live connection keeps its address until it registers another one: not even
\* a registration that resumes late, or one that is refused, takes it.
THEOREM LiveOwnerKeptAlways == Spec => LiveOwnerKept
<1>. DEFINE Kept == \A a \in Address :
              (LiveOwner(a) /\ online'[a] # online[a]) => pk'[online[a]] # a
<1>1. ASSUME RegistrationInv, [Next]_vars
      PROVE  Kept
  <2>1. CASE UNCHANGED online
    BY <2>1
  <2>2. ASSUME NEW c \in Client, DropClient(c)
        PROVE  Kept
    <3>1. conn[c] # "open" /\ \A a \in Address : online[a] # c => online'[a] = online[a]
      BY <2>2 DEF DropClient, Unsubscribed
    <3>. QED  BY <3>1 DEF LiveOwner, IsAlive
  <2>3. ASSUME NEW c \in Client, NEW b \in Address, PublishRegistered(c, b)
        PROVE  Kept
    <3>. SUFFICES ASSUME NEW a \in Address, LiveOwner(a), online'[a] # online[a]
                  PROVE  pk'[online[a]] # a
      OBVIOUS
    <3>1. /\ ~HeldByAnother(c, b)
          /\ pk' = [pk EXCEPT ![c] = b]
          /\ online'[b] = c
          /\ a # b => online'[a] = IF a = pk[c] /\ online[a] = c THEN None ELSE online[a]
      BY <2>3 DEF PublishRegistered, TakeInbox, Release, RegistrationInv, TypeInv, TypeOK
    <3>2. a # b
      BY <3>1 DEF HeldByAnother, LiveOwner
    <3>3. online[a] = c /\ pk'[c] = b
      BY <1>1, <3>1, <3>2 DEF RegistrationInv, TypeInv, TypeOK
    <3>. QED  BY <3>2, <3>3
  <2>4. CASE Connections
    <3>1. ASSUME NEW c \in Client, Connect(c) \/ Closing(c)
          PROVE  UNCHANGED online
      BY <3>1 DEF Connect, Closing
    <3>. QED  BY <2>1, <2>2, <2>4, <3>1 DEF Connections
  <2>5. CASE Registrations
    <3>1. ASSUME NEW c \in Client, NEW a \in Address,
                 Publish(c, a) \/ PublishInvalid(c, a) \/ PublishRefused(c, a)
          PROVE  UNCHANGED online
      BY <3>1 DEF Publish, PublishInvalid, PublishRefused
    <3>. QED  BY <2>1, <2>3, <2>5, <3>1 DEF Registrations
  <2>6. CASE Submissions \/ Deliveries \/ Tick \/ Sweep \/ UNCHANGED vars
    <3>1. UNCHANGED online
      BY <2>6 DEF Submissions, Subscribe, SendCover, SendMixed, SendUnmixed, Deliveries,
         FlushMixBatch, DeliverNext, DelayNext, JitterFires, Tick, Sweep, connVars, vars
    <3>. QED  BY <2>1, <3>1
  <2>. QED  BY <1>1, <2>4, <2>5, <2>6 DEF Next
<1>2. RegistrationInv /\ [Next]_vars => [Kept]_vars
  BY <1>1
<1>. QED  BY <1>2, RegistrationCorrect, PTL DEF Spec, LiveOwnerKept

=============================================================================
