----------------------------- MODULE HostProofs -----------------------------
(***************************************************************************)
(* Proofs about the parts of a host, as MCHost puts them side by side: the *)
(* directory's lookups (Directory), the files of the command line          *)
(* (Keyfile), the launchers and links (Launch), the tools (Assets, Staged, *)
(* AgsCli, Scan), for every value of the constants.                        *)
(***************************************************************************)
EXTENDS MCHost, SequenceTheorems, FiniteSetTheorems, TLAPS

IsSeq(x) == \E S : x \in Seq(S)

\* Append adds one element at the end and keeps the others.
LEMMA AppendSeq ==
  ASSUME NEW x, IsSeq(x), NEW e
  PROVE  /\ IsSeq(Append(x, e)) /\ Append(x, e) # <<>>
         /\ Len(x) \in Nat /\ Len(Append(x, e)) = Len(x) + 1
         /\ Append(x, e)[Len(x) + 1] = e
         /\ \A i \in 1..Len(x) : Append(x, e)[i] = x[i]
<1>1. PICK S : x \in Seq(S)
  BY DEF IsSeq
<1>. DEFINE T == S \cup {e}
<1>2. x \in Seq(T) /\ e \in T
  BY <1>1, SeqMonotonic
<1>. HIDE DEF T
<1>3. Append(x, e) \in Seq(T) /\ Len(x) \in Nat /\ Len(Append(x, e)) = Len(x) + 1
  BY <1>2, AppendProperties, LenProperties
<1>4. Append(x, e) # <<>>
  BY <1>3, EmptySeq
<1>. QED  BY <1>2, <1>3, <1>4, AppendProperties DEF IsSeq

\* The head is the first element, and the tail has the others, one place on.
LEMMA TailSeq ==
  ASSUME NEW x, IsSeq(x), x # <<>>
  PROVE  /\ Len(x) \in Nat \ {0} /\ Head(x) = x[1]
         /\ IsSeq(Tail(x)) /\ Len(Tail(x)) = Len(x) - 1
         /\ \A i \in 1..Len(Tail(x)) : i + 1 \in 1..Len(x) /\ Tail(x)[i] = x[i + 1]
<1>1. PICK S : x \in Seq(S)
  BY DEF IsSeq
<1>2. Len(x) \in Nat /\ Len(x) # 0
  BY <1>1, LenProperties, EmptySeq
<1>3. Tail(x) \in Seq(S) /\ Len(Tail(x)) = Len(x) - 1 /\ \A i \in 1..Len(Tail(x)) : Tail(x)[i] = x[i + 1]
  BY <1>1, <1>2, HeadTailProperties
<1>4. Head(x) = x[1]
  BY <1>1
<1>5. \A i \in 1..Len(Tail(x)) : i + 1 \in 1..Len(x)
  BY <1>2, <1>3
<1>. QED  BY <1>2, <1>3, <1>4, <1>5 DEF IsSeq

------------------------------------------------------------------------------
(* One lookup at a time.                                                     *)

\* The answers that bring a shard.
Shards == {i \in 1..Len(answers) : answers[i].type = "directory-shard"}

\* The lookup l is the one that waits, and request i is for its shard.
Wants(l, i) ==
  /\ waiting = {l} /\ l.target \in Peer /\ requests[i].shard = ShardOf[l.target]
  /\ l.published => l.target \in Published

\* Or answer i is.
Brings(l, i) == waiting = {l} /\ (l.published => \E e \in answers[i].entries : e.address = l.target)

\* A published pool is never again none at all.
PoolsInv == \A p \in Published : directory[p] \subseteq {p} \X Ids[p]

\* While no answer was altered or mixed up with another's, at most one request for
\* a shard or answer to it is on its way, and it is the waiting lookup's.
Straight ==
  /\ \A i, j \in Fetches : i = j
  /\ \A i, j \in Shards : i = j
  /\ Fetches = {} \/ Shards = {}
  /\ \A i \in 1..Len(answers) : answers[i].type \in {"error", "directory-shard"}
  /\ \A i \in Fetches : \E l \in waiting : Wants(l, i)
  /\ \A i \in Shards : \E l \in waiting : Brings(l, i)

\* In the CLI a lookup waits as long as it has the slot.
Waits == client = "cli" => waiting = IF slot = None \/ slot.target = Mistyped THEN {} ELSE {slot}

Types ==
  /\ IsSeq(requests) /\ IsSeq(answers) /\ DOMAIN directory = Peer
  /\ lookups \in Nat /\ {tampered, crossed} \subseteq BOOLEAN /\ client \in {"cli", "page"}

IInv ==
  /\ Types /\ PoolsInv /\ Waits
  /\ (~tampered /\ ~crossed) => Straight
  /\ LookupsHold

------------------------------------------------------------------------------
(* The actions, one by one.                                                  *)

\* Who published stays published, and pools keep to their owners' prekeys.
LEMMA PublishKeeps ==
  ASSUME Types, PoolsInv, NEW p \in Peer, Publish(p)
  PROVE  Published \subseteq Published' /\ PoolsInv' /\ Types'
<1>1. DOMAIN directory = Peer /\ None \notin Peer
  BY DirectoryAssumption DEF Types
<1>2. \A q \in Peer : q # p => directory'[q] = directory[q]
  BY <1>1 DEF Publish
<1>3. directory'[p] \subseteq {p} \X Ids[p] /\ DOMAIN directory' = Peer
  <2>1. CASE directory' = [directory EXCEPT ![p] = {p} \X Ids[p]]
    BY <1>1, <2>1
  <2>2. ASSUME NEW k \in directory[p], p \in Published, directory' = [directory EXCEPT ![p] = @ \ {k}]
        PROVE  directory'[p] \subseteq {p} \X Ids[p] /\ DOMAIN directory' = Peer
    BY <1>1, <2>2 DEF PoolsInv
  <2>. QED  BY <2>1, <2>2 DEF Publish
<1>4. directory'[p] # Unpublished
  <2>1. <<None, 0>> \notin {p} \X Ids[p]
    BY <1>1
  <2>. QED  BY <1>3, <2>1 DEF Unpublished
<1>5. Published \subseteq Published'
  BY <1>2, <1>4 DEF Published
<1>6. PoolsInv'
  BY <1>2, <1>3 DEF PoolsInv, Published
<1>7. Types'
  BY <1>3 DEF Types, Publish
<1>. QED  BY <1>5, <1>6, <1>7

\* So does the rest: what waits for a shard of who published goes on to.
LEMMA PublishInv ==
  ASSUME IInv, NEW p \in Peer, Publish(p)
  PROVE  IInv'
<1>1. Published \subseteq Published' /\ PoolsInv' /\ Types'
  BY PublishKeeps DEF IInv
<1>2. UNCHANGED <<client, requests, answers, slot, waiting, recipient, ended, tampered, crossed>>
  BY DEF Publish, clientVars
<1>3. Waits' /\ LookupsHold'
  BY <1>2 DEF IInv, Waits, LookupsHold, TalksToAsked, SlotFreed, FailsForCause, Fetches
<1>4. Straight => Straight'
  BY <1>1, <1>2 DEF Straight, Wants, Brings, Fetches, Shards
<1>. QED  BY <1>1, <1>2, <1>3, <1>4 DEF IInv

\* A shard is served whole or not at all.
LEMMA AnswerWhole ==
  ASSUME NEW s
  PROVE  \/ Answer(s).type = "error"
         \/ /\ Answer(s).type = "directory-shard"
            /\ \A p \in Published : ShardOf[p] = s => \E e \in Answer(s).entries : e.address = p
<1>. DEFINE Whole == [type |-> "directory-shard", shard |-> s, entries |-> {Entry(p) : p \in Shard(s)}]
<1>1. Answer(s) = Error \/ Answer(s) = Whole
  BY DEF Answer
<1>2. \A p \in Published : ShardOf[p] = s => \E e \in Whole.entries : e.address = p
  <2>1. SUFFICES ASSUME NEW p \in Published, ShardOf[p] = s
                 PROVE  Entry(p) \in Whole.entries /\ Entry(p).address = p
    OBVIOUS
  <2>2. p \in Shard(s)
    BY <2>1 DEF Shard
  <2>3. Whole.entries = {Entry(q) : q \in Shard(s)}
    OBVIOUS
  <2>. QED  BY <2>2, <2>3 DEF Entry
<1>. QED  BY <1>1, <1>2 DEF Error

\* An answer was altered: only that there is one stays.
LEMMA TamperInv ==
  ASSUME IInv, Tamper
  PROVE  IInv'
<1>1. PICK a : answers' = <<a>> \o Tail(answers) /\ answers # <<>>
  BY DEF Tamper
<1>2. IsSeq(answers)
  BY DEF IInv, Types
<1>3. PICK S : Tail(answers) \in Seq(S)
  BY <1>1, <1>2, TailSeq DEF IsSeq
<1>. DEFINE T == S \cup {a}
<1>4. Tail(answers) \in Seq(T) /\ a \in T
  BY <1>3, SeqMonotonic
<1>. HIDE DEF T
<1>5. answers' \in Seq(T) /\ answers' # <<>>
  <2>1. <<a>> \in Seq(T) /\ Len(<<a>>) = 1
    BY <1>4
  <2>2. answers' \in Seq(T) /\ Len(answers') = 1 + Len(Tail(answers))
    BY <1>1, <1>4, <2>1, ConcatProperties
  <2>. QED  BY <1>4, <2>2, LenProperties, EmptySeq
<1>6. tampered' = TRUE /\ UNCHANGED <<client, directory, requests, slot, waiting, recipient, ended, lookups, crossed>>
  BY DEF Tamper, clientVars
<1>7. Types' /\ PoolsInv' /\ Waits'
  BY <1>5, <1>6 DEF IInv, Types, IsSeq, PoolsInv, Published, Waits
<1>8. LookupsHold'
  BY <1>5, <1>6 DEF IInv, LookupsHold, TalksToAsked, SlotFreed, FailsForCause, Fetches
<1>. QED  BY <1>6, <1>7, <1>8 DEF IInv

\* Whom the client talks to, and how the lookups ended, do not change.
LEMMA HandleInv ==
  ASSUME IInv, Handle
  PROVE  IInv'
<1>. DEFINE r == requests[1]
<1>1. /\ requests # <<>> /\ requests' = Tail(requests) /\ Head(requests) = r
      /\ Len(requests) \in Nat \ {0} /\ IsSeq(requests') /\ Len(requests') = Len(requests) - 1
      /\ \A i \in 1..Len(requests') : i + 1 \in 1..Len(requests) /\ requests'[i] = requests[i + 1]
  BY TailSeq DEF Handle, IInv, Types
<1>2. UNCHANGED <<client, directory, slot, waiting, recipient, ended, lookups, tampered, crossed>>
  BY DEF Handle, clientVars
<1>3. /\ IsSeq(answers) /\ Len(answers) \in Nat
      /\ \A e : /\ IsSeq(Append(answers, e)) /\ Append(answers, e) # <<>>
                /\ Len(Append(answers, e)) = Len(answers) + 1
                /\ Append(answers, e)[Len(answers) + 1] = e
                /\ \A i \in 1..Len(answers) : Append(answers, e)[i] = answers[i]
  BY AppendSeq DEF IInv, Types
<1>4. \A i \in Fetches' : i + 1 \in Fetches
  BY <1>1 DEF Fetches
<1>5. IsSeq(answers') /\ (answers' = answers \/ answers' # <<>>)
  BY <1>3 DEF Handle
<1>6. Types' /\ PoolsInv' /\ Waits'
  BY <1>1, <1>2, <1>5 DEF IInv, Types, PoolsInv, Published, Waits
<1>7. Fetches # {} => Fetches' # {} \/ answers' # <<>>
  <2>1. CASE r.type = "fetch-shard"
    BY <1>1, <1>3, <2>1 DEF Handle
  <2>2. ASSUME r.type # "fetch-shard", NEW i \in Fetches
        PROVE  i - 1 \in Fetches'
    BY <1>1, <2>2 DEF Fetches
  <2>. QED  BY <2>1, <2>2
<1>8. LookupsHold'
  BY <1>2, <1>5, <1>7 DEF IInv, LookupsHold, TalksToAsked, SlotFreed, FailsForCause
<1>9. ASSUME Straight
      PROVE  Straight'
  <2>1. CASE r.type = "fetch-shard"
    <3>1. 1 \in Fetches /\ Fetches = {1} /\ Shards = {} /\ Fetches' = {}
      BY <1>1, <1>4, <1>9, <2>1 DEF Straight, Fetches
    <3>2. PICK l \in waiting : Wants(l, 1)
      BY <1>9, <3>1 DEF Straight
    <3>3. PICK a : a = Answer(r.shard) /\ answers' = Append(answers, a)
      BY <1>1, <2>1 DEF Handle
    <3>4. \A i \in 1..Len(answers) : answers'[i] = answers[i] /\ answers[i].type # "directory-shard"
      BY <1>3, <3>1, <3>3 DEF Shards
    <3>5. Len(answers') = Len(answers) + 1 /\ answers'[Len(answers) + 1] = a
      BY <1>3, <3>3
    <3>6. Shards' \subseteq {Len(answers) + 1}
      BY <1>3, <3>4, <3>5 DEF Shards
    <3>7. \/ a.type = "error"
          \/ /\ a.type = "directory-shard"
             /\ \A p \in Published : ShardOf[p] = r.shard => \E e \in a.entries : e.address = p
      <4>. PICK s : s = r.shard
        OBVIOUS
      <4>. QED  BY <3>3, AnswerWhole
    <3>8. waiting = {l} /\ (a.type = "directory-shard" /\ l.published => \E e \in a.entries : e.address = l.target)
      BY <3>2, <3>7 DEF Wants
    <3>9. \A i \in Shards' : \E m \in waiting' : Brings(m, i)'
      <4>1. SUFFICES ASSUME NEW i \in Shards'
                     PROVE  Brings(l, i)'
        BY <1>2
      <4>2. i = Len(answers) + 1 /\ answers'[i] = a /\ a.type = "directory-shard"
        BY <3>5, <3>6, <4>1 DEF Shards
      <4>. QED  BY <1>2, <3>8, <4>2 DEF Brings
    <3>10. \A i \in 1..Len(answers') : answers'[i].type \in {"error", "directory-shard"}
      BY <1>3, <1>9, <3>4, <3>5, <3>7 DEF Straight
    <3>. QED  BY <1>2, <3>1, <3>6, <3>9, <3>10 DEF Straight
  <2>2. CASE r.type # "fetch-shard"
    <3>1. \A i \in Fetches' : \E m \in waiting' : Wants(m, i)'
      BY <1>1, <1>2, <1>4, <1>9 DEF Straight, Wants, Fetches, Published
    <3>2. \A i, j \in Fetches' : i = j
      <4>1. SUFFICES ASSUME NEW i \in Fetches', NEW j \in Fetches'
                     PROVE  i = j
        OBVIOUS
      <4>2. i + 1 = j + 1 /\ i \in Int /\ j \in Int
        BY <1>4, <1>9, <4>1 DEF Straight, Fetches
      <4>. QED  BY <4>2
    <3>3. Fetches' # {} => Fetches # {}
      BY <1>4
    <3>4. /\ Shards' = Shards /\ \A i \in Shards : answers'[i] = answers[i]
          /\ \A i \in 1..Len(answers') : answers'[i].type \in {"error", "directory-shard"}
      <4>1. CASE answers' = Append(answers, Error)
        <5>1. Error.type = "error"
          BY DEF Error
        <5>. QED  BY <1>3, <1>9, <4>1, <5>1 DEF Shards, Straight
      <4>2. CASE answers' = answers
        BY <1>9, <4>2 DEF Shards, Straight
      <4>. QED  BY <1>1, <2>2, <4>1, <4>2 DEF Handle
    <3>5. \A i \in Shards' : \E m \in waiting' : Brings(m, i)'
      BY <1>2, <1>9, <3>4 DEF Straight, Brings
    <3>. QED  BY <1>9, <3>1, <3>2, <3>3, <3>4, <3>5 DEF Straight
  <2>. QED  BY <2>1, <2>2
<1>. QED  BY <1>2, <1>6, <1>8, <1>9 DEF IInv

\* A lookup that takes the slot is the only one that waits, or the answers may be
\* mixed up.
LEMMA AskInv ==
  ASSUME IInv, NEW t \in Peer \cup {Mistyped}, Ask(t)
  PROVE  IInv'
<1>. DEFINE r == [type |-> "fetch-shard", shard |-> ShardOf[t]]
<1>1. PICK l : l = Lookup(t)
  OBVIOUS
<1>2. UNCHANGED <<client, directory, answers, recipient, sends, tampered>> /\ lookups' = lookups + 1
  BY DEF Ask
<1>3. l.target = t /\ (l.published <=> t \in Published) /\ l # None
  <2>1. l \in Lookups
    BY <1>1 DEF Lookup, Lookups, IInv, Types
  <2>. QED  BY <1>1, <2>1, DirectoryAssumption DEF Lookup
<1>4. /\ IsSeq(requests) /\ Len(requests) \in Nat /\ IsSeq(Append(requests, r))
      /\ Len(Append(requests, r)) = Len(requests) + 1 /\ Append(requests, r)[Len(requests) + 1] = r
      /\ \A i \in 1..Len(requests) : Append(requests, r)[i] = requests[i]
  BY AppendSeq DEF IInv, Types
<1>5. \/ Busy /\ Ends(l, "in-progress") /\ UNCHANGED <<requests, slot, waiting, crossed>>
      \/ ~Busy /\ t = Mistyped /\ slot' = l /\ Ends(l, "no-address") /\ UNCHANGED <<requests, waiting, crossed>>
      \/ /\ ~Busy /\ t # Mistyped /\ slot' = l /\ waiting' = waiting \cup {l}
         /\ requests' = Append(requests, r)
         /\ crossed' = (crossed \/ (client = "page" /\ waiting # {}))
         /\ UNCHANGED ended
  BY <1>1 DEF Ask
<1>6. Types' /\ PoolsInv'
  <2>1. IsSeq(requests') /\ crossed' \in BOOLEAN
    BY <1>4, <1>5 DEF IInv, Types
  <2>. QED  BY <1>2, <2>1 DEF IInv, Types, PoolsInv, Published
<1>7. Waits'
  BY <1>2, <1>3, <1>5 DEF IInv, Waits, Busy
<1>8. ended \subseteq ended' /\ \A e \in ended' \ ended : e.how # "not-registered"
  <2>1. CASE UNCHANGED ended
    BY <2>1
  <2>2. CASE Ends(l, "in-progress") \/ Ends(l, "no-address")
    <3>1. PICK h \in {"in-progress", "no-address"} : ended' = ended \cup {[lookup |-> l, how |-> h]}
      BY <2>2 DEF Ends
    <3>2. \A e \in ended' \ ended : e = [lookup |-> l, how |-> h]
      BY <3>1
    <3>3. [lookup |-> l, how |-> h].how = h
      OBVIOUS
    <3>4. h # "not-registered"
      BY <3>1
    <3>5. ended \subseteq ended'
      BY <3>1
    <3>. QED  BY <3>2, <3>3, <3>4, <3>5
  <2>. QED  BY <1>5, <2>1, <2>2
<1>9. crossed => crossed'
  BY <1>5 DEF IInv, Types
<1>10. TalksToAsked' /\ FailsForCause'
  BY <1>2, <1>8, <1>9 DEF IInv, LookupsHold, TalksToAsked, FailsForCause
<1>11. SlotFreed'
  <2>1. CASE UNCHANGED <<requests, slot, waiting>>
    BY <1>2, <2>1 DEF IInv, LookupsHold, SlotFreed, Fetches
  <2>2. CASE slot' = l /\ t = Mistyped
    BY <1>3, <2>2 DEF SlotFreed
  <2>3. CASE ~Busy /\ t # Mistyped /\ slot' = l /\ requests' = Append(requests, r)
    <3>1. Len(requests) + 1 \in Fetches'
      BY <1>4, <2>3 DEF Fetches
    <3>2. client' = "cli" => waiting' = {slot'}
      BY <1>3, <1>7, <2>3 DEF Waits
    <3>. QED  BY <3>1, <3>2 DEF SlotFreed
  <2>. QED  BY <1>5, <2>1, <2>2, <2>3
<1>12. ASSUME ~tampered', ~crossed'
       PROVE  Straight'
  <2>1. Straight
    BY <1>2, <1>9, <1>12 DEF IInv
  <2>2. CASE UNCHANGED <<requests, waiting>>
    BY <1>2, <2>1, <2>2 DEF Straight, Fetches, Shards, Wants, Brings, Published
  <2>3. CASE /\ ~Busy /\ t # Mistyped /\ waiting' = waiting \cup {l} /\ requests' = Append(requests, r)
             /\ crossed' = (crossed \/ (client = "page" /\ waiting # {}))
    <3>1. waiting = {}
      <4>1. CASE client = "page"
        BY <1>12, <2>3, <4>1 DEF IInv, Types
      <4>2. CASE client = "cli"
        BY <2>3, <4>2 DEF IInv, Waits, Busy
      <4>. QED  BY <4>1, <4>2 DEF IInv, Types
    <3>2. Fetches = {} /\ Shards = {} /\ Shards' = {}
      BY <1>2, <2>1, <3>1 DEF Straight, Shards
    <3>3. Fetches' = {Len(requests) + 1} /\ requests'[Len(requests) + 1] = r
      BY <1>4, <2>3, <3>2 DEF Fetches
    <3>4. waiting' = {l} /\ \A i \in Fetches' : Wants(l, i)'
      BY <1>2, <1>3, <2>3, <3>1, <3>3 DEF Wants, Published
    <3>. QED  BY <1>2, <2>1, <3>2, <3>3, <3>4 DEF Straight
  <2>. QED  BY <1>5, <2>2, <2>3
<1>. QED  BY <1>6, <1>7, <1>10, <1>11, <1>12 DEF IInv, LookupsHold

\* A lookup that ends as resolved leads to the owner of the address it was for, and
\* one that ends as not registered found no entry.
LEMMA ResolveTells ==
  ASSUME NEW entries, NEW t
  PROVE  LET r == resolveFromShard(entries, t) IN
         /\ r.how = "resolved" =>
              /\ r.recipient.address = t /\ r.recipient.owner = t
              /\ r.recipient.otk[1] \in {None, r.recipient.owner}
         /\ r.how = "not-registered" => \A e \in entries : e.address # t
<1>. DEFINE found == {e \in entries : e.address = t}
            e == CHOOSE e \in found : TRUE
            otk == selectOneTimePrekey(e.pool, Hash[t])
            R(how, who) == [how |-> how, recipient |-> who]
<1>1. PICK b, k, n : b = e.bundle /\ k = otk /\ n = Nobody
  OBVIOUS
<1>2. PICK r : r = resolveFromShard(entries, t)
  OBVIOUS
<1>3. \/ found = {} /\ r = R("not-registered", n)
      \/ r = R("tampered", n)
      \/ r = R("foreign-prekey", n)
      \/ b = t /\ k[1] \in {None, b} /\ r = R("resolved", [address |-> t, owner |-> b, otk |-> k])
  BY <1>1, <1>2 DEF resolveFromShard, Derives
<1>4. found = {} => \A f \in entries : f.address # t
  OBVIOUS
<1>5. \A h, w : R(h, w).how = h /\ R(h, w).recipient = w
  OBVIOUS
<1>6. LET w == [address |-> t, owner |-> b, otk |-> k] IN w.address = t /\ w.owner = b /\ w.otk = k
  OBVIOUS
<1>. HIDE DEF found, e, otk, R
<1>7. r.how = "not-registered" => found = {}
  BY <1>3, <1>5
<1>8. r.how = "resolved" => b = t /\ k[1] \in {None, b} /\ r.recipient = [address |-> t, owner |-> b, otk |-> k]
  BY <1>3, <1>5
<1>. QED  BY <1>2, <1>4, <1>6, <1>7, <1>8

\* A shard that answers a lookup is the lookup's own, unless answers were altered or
\* mixed up; an error with more behind it mixes them up.
LEMMA ReceiveInv ==
  ASSUME IInv, Receive
  PROVE  IInv'
<1>. DEFINE a == answers[1]
<1>1. /\ answers # <<>> /\ answers' = Tail(answers) /\ Head(answers) = a
      /\ Len(answers) \in Nat \ {0} /\ IsSeq(answers') /\ Len(answers') = Len(answers) - 1
      /\ \A i \in 1..Len(answers') : i + 1 \in 1..Len(answers) /\ answers'[i] = answers[i + 1]
  BY TailSeq DEF Receive, IInv, Types
<1>2. UNCHANGED <<client, directory, requests, lookups, sends, tampered>>
  BY DEF Receive
<1>3. crossed' <=> (crossed \/ (a.type = "error" /\ (requests # <<>> \/ Tail(answers) # <<>>)))
  BY <1>1 DEF Receive, IInv, Types
<1>4. Types' /\ PoolsInv'
  <2>1. crossed' \in BOOLEAN
    BY DEF Receive, IInv, Types
  <2>2. Types'
    BY <1>1, <1>2, <2>1 DEF IInv, Types
  <2>3. PoolsInv'
    BY <1>2 DEF IInv, PoolsInv, Published
  <2>. QED  BY <2>2, <2>3
<1>5. \/ slot = None /\ UNCHANGED <<slot, waiting, recipient, ended>>
      \/ /\ slot # None /\ a.type = "error" /\ slot' = AfterError /\ UNCHANGED recipient
         /\ client = "cli" => waiting' = waiting \ {slot}
         /\ Ends(slot, "error") \/ UNCHANGED ended
      \/ /\ slot # None /\ a.type # "error" /\ slot' = None /\ waiting' = waiting \ {slot}
         /\ \/ UNCHANGED <<recipient, ended>>
            \/ /\ slot \in waiting
               /\ \E r : /\ r = resolveFromShard(a.entries, slot.target) /\ Ends(slot, r.how)
                        /\ recipient' = IF r.how = "resolved" THEN r.recipient ELSE recipient
  BY <1>1 DEF Receive, clientVars
<1>6. Waits' /\ SlotFreed'
  <2>1. client = "cli" => slot' = None /\ waiting' = waiting \ {slot}
    <3>1. CASE slot = None
      BY <1>5, <3>1 DEF IInv, Waits
    <3>2. CASE slot # None
      BY <1>5, <3>2 DEF AfterError
    <3>. QED  BY <3>1, <3>2
  <2>2. client = "cli" => waiting' = {}
    BY <2>1 DEF IInv, Waits
  <2>. QED  BY <1>2, <2>1, <2>2 DEF Waits, SlotFreed
<1>7. ended \subseteq ended'
  BY <1>5 DEF Ends
<1>8. TalksToAsked'
  <2>1. CASE UNCHANGED recipient
    BY <1>7, <2>1 DEF IInv, LookupsHold, TalksToAsked
  <2>2. CASE recipient' # recipient
    <3>1. PICK r : /\ r = resolveFromShard(a.entries, slot.target) /\ r.how = "resolved"
                   /\ Ends(slot, r.how) /\ recipient' = r.recipient
      BY <1>5, <2>2
    <3>2. PICK es, t : es = a.entries /\ t = slot.target
      OBVIOUS
    <3>0. r = resolveFromShard(es, t)
      BY <3>1, <3>2
    <3>3. r.recipient.address = t /\ r.recipient.owner = t /\ r.recipient.otk[1] \in {None, r.recipient.owner}
      <4>1. r.how = "resolved"
        BY <3>1
      <4>. HIDE DEF a
      <4>. QED  BY <3>0, <4>1, ResolveTells
    <3>4. \E e \in ended' : e.how = "resolved" /\ e.lookup.target = t
      <4>. DEFINE e == [lookup |-> slot, how |-> "resolved"]
      <4>1. e \in ended'
        BY <3>1 DEF Ends
      <4>2. e.how = "resolved" /\ e.lookup.target = t
        BY <3>2
      <4>. QED  BY <4>1, <4>2
    <3>. QED  BY <3>1, <3>3, <3>4 DEF TalksToAsked
  <2>. QED  BY <2>1, <2>2
<1>9. FailsForCause'
  <2>0. SUFFICES ASSUME NEW e \in ended', e.how = "not-registered", e.lookup.published, ~(tampered' \/ crossed')
                 PROVE  FALSE
    BY DEF FailsForCause
  <2>a. ~tampered /\ ~crossed
    BY <1>2, <1>3, <2>0
  <2>1. e \in ended' \ ended /\ e.how = "not-registered" /\ e.lookup.published /\ Straight
    BY <2>0, <2>a DEF IInv, LookupsHold, FailsForCause
  <2>2. PICK h : ended' = ended \cup {[lookup |-> slot, how |-> h]} /\ e = [lookup |-> slot, how |-> h]
    BY <1>5, <2>1 DEF Ends
  <2>3. h = "not-registered" /\ slot.published
    BY <2>1, <2>2
  <2>4. /\ a.type # "error" /\ slot \in waiting
        /\ \E r : r = resolveFromShard(a.entries, slot.target) /\ r.how = "not-registered"
    <3>1. ASSUME NEW g, Ends(slot, g)
          PROVE  g = "not-registered"
      <4>1. e = [lookup |-> slot, how |-> g]
        BY <2>1, <3>1 DEF Ends
      <4>. QED  BY <2>1, <4>1
    <3>. QED  BY <1>5, <2>1, <3>1
  <2>5. \A f \in a.entries : f.address # slot.target
    <3>1. PICK es, t : es = a.entries /\ t = slot.target
      OBVIOUS
    <3>2. PICK r : r = resolveFromShard(es, t) /\ r.how = "not-registered"
      BY <2>4, <3>1
    <3>3. \A f \in es : f.address # t
      BY <3>2, ResolveTells
    <3>. QED  BY <3>1, <3>3
  <2>6. 1 \in Shards
    BY <1>1, <2>1, <2>4 DEF Straight, Shards
  <2>7. \E l \in waiting : Brings(l, 1)
    BY <2>1, <2>6 DEF Straight
  <2>. QED  BY <2>3, <2>4, <2>5, <2>7 DEF Brings
<1>10. ASSUME ~tampered', ~crossed'
       PROVE  Straight'
  <2>1. ~tampered /\ ~crossed
    BY <1>2, <1>3, <1>10
  <2>2. Straight
    BY <2>1 DEF IInv
  <2>3. CASE a.type = "error"
    <3>1. requests' = <<>> /\ answers' = <<>>
      BY <1>1, <1>2, <1>3, <1>10, <2>3
    <3>. QED  BY <3>1 DEF Straight, Fetches, Shards
  <2>4. CASE a.type = "directory-shard"
    <3>1. 1 \in Shards
      BY <1>1, <2>4 DEF Shards
    <3>2. Fetches = {} /\ \A i \in Shards : i = 1
      BY <2>2, <3>1 DEF Straight
    <3>3. Shards' = {}
      <4>1. \A i \in Shards' : i + 1 \in Shards /\ i \in Nat \ {0}
        BY <1>1 DEF Shards
      <4>. QED  BY <3>2, <4>1
    <3>4. Fetches' = {}
      BY <1>2, <3>2 DEF Fetches
    <3>5. \A i \in 1..Len(answers') : answers'[i].type \in {"error", "directory-shard"}
      BY <1>1, <2>2 DEF Straight
    <3>. QED  BY <3>3, <3>4, <3>5 DEF Straight
  <2>. QED  BY <1>1, <2>2, <2>3, <2>4 DEF Straight
<1>. QED  BY <1>4, <1>6, <1>8, <1>9, <1>10 DEF IInv, LookupsHold

\* A message takes its place behind the requests for shards.
LEMMA SendInv ==
  ASSUME IInv, Send
  PROVE  IInv'
<1>1. PICK env \in Envelopes : requests' = Append(requests, [type |-> "send", shard |-> 0, plausible |-> Plausible(env)])
  BY DEF Send
<1>2. PICK r : r.type = "send" /\ requests' = Append(requests, r)
  BY <1>1
<1>3. /\ IsSeq(requests) /\ Len(requests) \in Nat /\ IsSeq(requests')
      /\ Len(requests') = Len(requests) + 1 /\ requests'[Len(requests) + 1] = r
      /\ \A i \in 1..Len(requests) : requests'[i] = requests[i]
  BY <1>2, AppendSeq DEF IInv, Types
<1>4. UNCHANGED <<client, directory, answers, slot, waiting, recipient, ended, lookups, tampered, crossed>>
  BY DEF Send, clientVars
<1>5. Fetches' = Fetches /\ \A i \in Fetches : requests'[i] = requests[i]
  BY <1>2, <1>3 DEF Fetches
<1>6. Types' /\ PoolsInv' /\ Waits'
  BY <1>3, <1>4 DEF IInv, Types, PoolsInv, Published, Waits
<1>7. LookupsHold'
  BY <1>4, <1>5 DEF IInv, LookupsHold, TalksToAsked, SlotFreed, FailsForCause
<1>8. Straight => Straight'
  BY <1>4, <1>5 DEF Straight, Shards, Wants, Brings, Published
<1>. QED  BY <1>4, <1>6, <1>7, <1>8 DEF IInv

------------------------------------------------------------------------------

\* /to talks to the owner of the address it was asked for, whatever answer reached
\* it; in the CLI a lookup has the slot only while something that frees it is on its
\* way; and one that ends as not registered was made before the peer published,
\* unless an answer was altered or mixed up with another's.
THEOREM LookupsHoldAlways == Spec => []LookupsHold
<1>1. Init => IInv
  <2>1. IsSeq(<<>>)
    <3>. <<>> \in Seq({})
      OBVIOUS
    <3>. QED  BY DEF IsSeq
  <2>2. SUFFICES ASSUME Init PROVE IInv
    OBVIOUS
  <2>3. Types
    BY <2>1, <2>2 DEF Init, Types
  <2>4. PoolsInv /\ Waits
    BY <2>2 DEF Init, PoolsInv, Published, Waits
  <2>5. Straight
    BY <2>2 DEF Init, Straight, Fetches, Shards
  <2>6. LookupsHold
    BY <2>2 DEF Init, LookupsHold, TalksToAsked, SlotFreed, FailsForCause
  <2>. QED  BY <2>3, <2>4, <2>5, <2>6 DEF IInv
<1>2. IInv /\ [Next]_vars => IInv'
  <2>1. SUFFICES ASSUME IInv, [Next]_vars PROVE IInv'
    OBVIOUS
  <2>2. CASE UNCHANGED vars
    <3>1. UNCHANGED <<client, directory, requests, answers, slot, waiting, recipient, ended, lookups, tampered, crossed>>
      BY <2>2 DEF vars
    <3>2. Types' /\ PoolsInv' /\ Waits'
      BY <2>1, <3>1 DEF IInv, Types, PoolsInv, Published, Waits
    <3>3. Straight => Straight'
      BY <3>1 DEF Straight, Fetches, Shards, Wants, Brings, Published
    <3>4. LookupsHold'
      BY <2>1, <3>1 DEF IInv, LookupsHold, TalksToAsked, SlotFreed, FailsForCause, Fetches
    <3>. QED  BY <2>1, <3>1, <3>2, <3>3, <3>4 DEF IInv
  <2>3. CASE Next
    BY <2>1, <2>3, PublishInv, AskInv, HandleInv, TamperInv, SendInv, ReceiveInv DEF Next
  <2>. QED  BY <2>1, <2>2, <2>3
<1>3. IInv => LookupsHold
  BY DEF IInv
<1>. QED  BY <1>1, <1>2, <1>3, PTL DEF Spec

------------------------------------------------------------------------------
(* The keyfile.  The client of module Keyfile is called daily here.          *)

\* A process that has read the file.
Active(p) == proc[p].pc \notin {"start", "exited"}

Signed(pool)   == \A k \in pool : k[1] # 0
Known(ks)      == \A k \in ks : k[1] <= made
Newer(pool, k) == \A j \in pool : j[1] > k[1]
OpenOrReplaced(stored, ks) == \A k \in ks : k \in stored.pool \/ Newer(stored.pool, k)

\* Only a file that is absent, or was when it was torn, has no identity.
Identified ==
  /\ keyfile.kind = "absent" => keyfile.keys = Keyfile!NoKeys
  /\ keyfile.kind \notin {"absent", "torn"} => keyfile.keys.id # Keyfile!NoId

\* A process has an identity, sessions of its own if any, and a pool that is signed.
Loads == \A p \in Proc : Active(p) =>
  /\ proc[p].keys.id # Keyfile!NoId /\ proc[p].sessions \in {Keyfile!NoId, proc[p].keys.id}
  /\ Signed(proc[p].keys.pool)

\* Pools are counted when they are generated.
Counted ==
  /\ made \in 1..(MaxMade + 1) /\ Known(published) /\ Known(keyfile.keys.pool)
  /\ \A p \in Proc : Known(proc[p].keys.pool)

OneWriter == \A p, q \in Proc : Keyfile!Between(p) /\ Keyfile!Between(q) => p = q

\* All run under the identity of the file, or one of them is creating it.
OneIdentity == \A p \in Proc : Active(p) =>
  keyfile.keys.id = proc[p].keys.id \/ (keyfile.keys.id = Keyfile!NoId /\ Keyfile!Between(p))

\* What a command writes was missing in the file, and is newer than what the client
\* has and the relay offers.
WritesForCause == \A p \in Proc \ {daily} :
  /\ proc[p].pc = "write" => Keyfile!MustWrite
  /\ proc[p].pc = "writing" => keyfile.kind = "torn"
  /\ Keyfile!Between(p) => /\ \A k \in published : Newer(proc[p].keys.pool, k)
                           /\ Active(daily) => \A k \in proc[daily].keys.pool : Newer(proc[p].keys.pool, k)

\* What is offered opens, or its pool was replaced: in the file and with the client.
Offers ==
  /\ OpenOrReplaced(keyfile.keys, published)
  /\ Active(daily) => OpenOrReplaced(proc[daily].keys, published)
  /\ proc[daily].pc \in {"ready", "saving"} => OpenOrReplaced(keyfile.keys, proc[daily].keys.pool)

Always == Keyfile!TypeOK /\ Identified /\ Loads /\ Counted /\ Signed(published)
KInv == Always /\ (~overlap => OneWriter /\ OneIdentity /\ WritesForCause /\ Offers)

Steps == {"start", "write", "writing", "ready", "saving", "exited"}
ProcTypes == [pc : Steps, keys : Keyfile!Keys, sessions : 0..(MaxMade + 1)]

\* Going on changes where one process is.
LEMMA GoesOn ==
  ASSUME Keyfile!TypeOK, NEW p \in Proc, NEW step \in Steps, Keyfile!Goes(p, step)
  PROVE  /\ proc' \in [Proc -> ProcTypes] /\ proc'[p].pc = step
         /\ \A q \in Proc : proc'[q].keys = proc[q].keys /\ proc'[q].sessions = proc[q].sessions
         /\ \A q \in Proc : q # p => proc'[q] = proc[q]
  BY DEF Keyfile!TypeOK, Keyfile!Goes, Steps, ProcTypes

\* Identities and prekeys are numbered.
LEMMA KeyTypes ==
  ASSUME Keyfile!TypeOK, Counted
  PROVE  /\ \A k \in published : k[1] \in Nat
         /\ \A k \in keyfile.keys.pool : k[1] \in Nat
         /\ \A p \in Proc : \A k \in proc[p].keys.pool : k[1] \in Nat
         /\ keyfile.keys \in Keyfile!Keys /\ \A p \in Proc : proc[p].keys \in Keyfile!Keys
         /\ made \in Nat /\ MaxMade \in Nat /\ PoolSize \in Nat
  BY KeyfileAssumption DEF Keyfile!TypeOK, Keyfile!Keys, Counted

\* A pool that was just made is signed and newer than all others.
LEMMA FreshNewer ==
  ASSUME NEW n \in Nat, NEW k, k[1] \in Nat, k[1] <= n
  PROVE  /\ Signed(Keyfile!Fresh(n + 1)) /\ Newer(Keyfile!Fresh(n + 1), k)
         /\ \A j \in Keyfile!Fresh(n + 1) : j[1] = n + 1
  BY DEF Signed, Keyfile!Fresh, Newer

\* A step after which no process is elsewhere keeps what concerns the files.
LEMMA KeyTruncateInv ==
  ASSUME KInv, NEW p \in Proc, Keyfile!Truncate(p)
  PROVE  KInv'
<1>1. /\ proc' \in [Proc -> ProcTypes] /\ proc'[p].pc = "writing" /\ proc[p].pc = "write"
      /\ \A q \in Proc : proc'[q].keys = proc[q].keys /\ proc'[q].sessions = proc[q].sessions
      /\ \A q \in Proc : q # p => proc'[q] = proc[q]
  BY GoesOn DEF KInv, Always, Keyfile!Truncate, Steps
<1>2. keyfile' = [kind |-> "torn", keys |-> keyfile.keys] /\ UNCHANGED <<sessfile, published, made, opened, overlap>>
  BY DEF Keyfile!Truncate
<1>3. \A q \in Proc : (Active(q)' <=> Active(q)) /\ (Keyfile!Between(q)' <=> Keyfile!Between(q))
  BY <1>1 DEF Active, Keyfile!Between
<1>4. Keyfile!TypeOK'
  BY <1>1, <1>2 DEF KInv, Always, Keyfile!TypeOK, ProcTypes, Steps, Keyfile!Kinds
<1>5. Identified' /\ Loads' /\ Counted' /\ Signed(published)'
  BY <1>1, <1>2, <1>3 DEF KInv, Always, Identified, Loads, Counted, Signed, Known
<1>6. ASSUME ~overlap'
      PROVE  OneWriter' /\ OneIdentity' /\ WritesForCause' /\ Offers'
  <2>1. OneWriter /\ OneIdentity /\ WritesForCause /\ Offers
    BY <1>2, <1>6 DEF KInv
  <2>2. OneWriter' /\ OneIdentity'
    BY <1>1, <1>2, <1>3, <2>1 DEF OneWriter, OneIdentity
  <2>3. WritesForCause'
    <3>1. SUFFICES ASSUME NEW q \in Proc \ {daily}, Keyfile!Between(q)'
                   PROVE  /\ proc'[q].pc # "write" /\ keyfile'.kind = "torn"
                          /\ \A k \in published' : Newer(proc'[q].keys.pool, k)
                          /\ Active(daily)' => \A k \in proc'[daily].keys.pool : Newer(proc'[q].keys.pool, k)
      BY DEF WritesForCause, Keyfile!Between, Newer
    <3>2. q = p
      BY <1>1, <1>3, <2>1, <3>1 DEF OneWriter, Keyfile!Between
    <3>. QED  BY <1>1, <1>2, <1>3, <2>1, <3>1, <3>2, KeyfileAssumption DEF WritesForCause
  <2>4. Offers'
    BY <1>1, <1>2, <1>3, <2>1, KeyfileAssumption DEF Offers, OpenOrReplaced, Newer
  <2>. QED  BY <2>2, <2>3, <2>4
<1>. QED  BY <1>4, <1>5, <1>6 DEF KInv, Always

\* The file then holds what the process does, which is as new as all others.
LEMMA KeyFillInv ==
  ASSUME KInv, NEW p \in Proc, Keyfile!Fill(p)
  PROVE  KInv'
<1>1. /\ proc' \in [Proc -> ProcTypes] /\ proc'[p].pc = "ready" /\ proc[p].pc = "writing"
      /\ \A q \in Proc : proc'[q].keys = proc[q].keys /\ proc'[q].sessions = proc[q].sessions
      /\ \A q \in Proc : q # p => proc'[q] = proc[q]
  BY GoesOn DEF KInv, Always, Keyfile!Fill, Steps
<1>2. keyfile' = [kind |-> "v6", keys |-> proc[p].keys] /\ UNCHANGED <<sessfile, published, made, opened, overlap>>
  BY DEF Keyfile!Fill
<1>3. /\ \A q \in Proc : Active(q)' <=> Active(q)
      /\ \A q \in Proc : Keyfile!Between(q)' => Keyfile!Between(q) /\ q # p
      /\ Active(p) /\ Keyfile!Between(p) /\ proc[p].keys.id # Keyfile!NoId
  BY <1>1 DEF Active, Keyfile!Between, KInv, Always, Loads
<1>4. Keyfile!TypeOK'
  BY <1>1, <1>2, KeyTypes DEF KInv, Always, Keyfile!TypeOK, ProcTypes, Steps, Keyfile!Kinds
<1>5. Identified' /\ Loads' /\ Counted' /\ Signed(published)'
  BY <1>1, <1>2, <1>3 DEF KInv, Always, Identified, Loads, Counted, Signed, Known
<1>6. ASSUME ~overlap'
      PROVE  OneWriter' /\ OneIdentity' /\ WritesForCause' /\ Offers'
  <2>1. OneWriter /\ OneIdentity /\ WritesForCause /\ Offers
    BY <1>2, <1>6 DEF KInv
  <2>2. \A q \in Proc : ~Keyfile!Between(q)'
    BY <1>3, <2>1 DEF OneWriter
  <2>3. OneWriter' /\ WritesForCause'
    BY <2>2 DEF OneWriter, WritesForCause, Keyfile!Between
  <2>4. OneIdentity'
    <3>1. SUFFICES ASSUME NEW q \in Proc, Active(q)
                   PROVE  keyfile'.keys.id = proc[q].keys.id
      BY <1>1, <1>3 DEF OneIdentity
    <3>2. q # p => keyfile.keys.id = proc[q].keys.id
      BY <1>3, <2>1, <3>1 DEF OneWriter, OneIdentity
    <3>3. proc[q].keys.id # Keyfile!NoId
      BY <3>1 DEF KInv, Always, Loads
    <3>. QED  BY <1>2, <1>3, <2>1, <3>2, <3>3 DEF OneIdentity
  <2>5. Offers'
    <3>1. CASE p = daily
      BY <1>1, <1>2, <1>3, <2>1, <3>1 DEF Offers, OpenOrReplaced, Newer
    <3>2. CASE p # daily
      BY <1>1, <1>2, <1>3, <2>1, <3>2, KeyfileAssumption DEF Offers, WritesForCause, OpenOrReplaced, Newer, Active
    <3>. QED  BY <3>1, <3>2
  <2>. QED  BY <2>3, <2>4, <2>5
<1>. QED  BY <1>4, <1>5, <1>6 DEF KInv, Always

\* What the client has is signed and opens.
LEMMA KeyPublishInv ==
  ASSUME KInv, Keyfile!Publish
  PROVE  KInv'
<1>1. /\ proc[daily].pc = "ready" /\ published' = proc[daily].keys.pool
      /\ UNCHANGED <<keyfile, sessfile, proc, made, opened, overlap>>
  BY DEF Keyfile!Publish
<1>2. Active(daily) /\ proc[daily].keys \in Keyfile!Keys
  BY <1>1, KeyTypes, KeyfileAssumption DEF Active, KInv, Always
<1>3. Keyfile!TypeOK'
  BY <1>1, <1>2 DEF KInv, Always, Keyfile!TypeOK, Keyfile!Keys
<1>4. Identified' /\ Loads' /\ Counted' /\ Signed(published)'
  BY <1>1, <1>2, KeyfileAssumption DEF KInv, Always, Identified, Loads, Counted, Active, Known, Signed
<1>5. ASSUME ~overlap'
      PROVE  OneWriter' /\ OneIdentity' /\ WritesForCause' /\ Offers'
  <2>1. OneWriter /\ OneIdentity /\ WritesForCause /\ Offers
    BY <1>1, <1>5 DEF KInv
  <2>2. OneWriter' /\ OneIdentity'
    BY <1>1, <2>1 DEF OneWriter, OneIdentity, Keyfile!Between, Active
  <2>3. WritesForCause'
    BY <1>1, <1>2, <2>1 DEF WritesForCause, Keyfile!Between, Active, Newer, Keyfile!MustWrite, Keyfile!Created, Keyfile!Unpublishable
  <2>4. Offers'
    BY <1>1, <1>2, <2>1 DEF Offers, OpenOrReplaced, Newer, Active
  <2>. QED  BY <2>2, <2>3, <2>4
<1>. QED  BY <1>3, <1>4, <1>5 DEF KInv, Always

\* A prekey that is used is offered no more, and leaves the pool.
LEMMA KeyBurnInv ==
  ASSUME KInv, NEW k \in published, Keyfile!Burn(k)
  PROVE  KInv'
<1>1. /\ proc[daily].pc = "ready" /\ published' = published \ {k} /\ UNCHANGED <<keyfile, sessfile, made>>
      /\ overlap' = (overlap \/ \E q \in Proc \ {daily} : Keyfile!Between(q))
  BY DEF Keyfile!Burn
<1>2. Active(daily) /\ daily \in Proc /\ proc[daily] \in ProcTypes /\ proc \in [Proc -> ProcTypes]
  BY <1>1, KeyfileAssumption DEF Active, KInv, Always, Keyfile!TypeOK, ProcTypes, Steps
<1>3. /\ proc'[daily].pc = "write" /\ proc'[daily].keys.id = proc[daily].keys.id
      /\ proc'[daily].keys.pool = proc[daily].keys.pool \ {k}
      /\ proc'[daily].sessions = proc[daily].keys.id
      /\ proc' \in [Proc -> ProcTypes]
      /\ \A q \in Proc : q # daily => proc'[q] = proc[q]
  BY <1>2 DEF Keyfile!Burn, ProcTypes, Steps, Keyfile!Keys
<1>4. \A q \in Proc : (Active(q)' <=> Active(q)) /\ (q # daily => (Keyfile!Between(q)' <=> Keyfile!Between(q)))
  BY <1>1, <1>3 DEF Active, Keyfile!Between
<1>5. Keyfile!TypeOK'
  BY <1>1, <1>3 DEF KInv, Always, Keyfile!TypeOK, ProcTypes, Steps
<1>6. Identified' /\ Counted' /\ Signed(published)'
  BY <1>1, <1>2, <1>3 DEF KInv, Always, Identified, Counted, Signed, Known
<1>7. Loads'
  BY <1>2, <1>3, <1>4 DEF KInv, Always, Loads, Signed
<1>8. ASSUME ~overlap'
      PROVE  OneWriter' /\ OneIdentity' /\ WritesForCause' /\ Offers'
  <2>1. OneWriter /\ OneIdentity /\ WritesForCause /\ Offers /\ \A q \in Proc \ {daily} : ~Keyfile!Between(q)
    BY <1>1, <1>8 DEF KInv
  <2>2. OneWriter' /\ WritesForCause'
    BY <1>4, <2>1 DEF OneWriter, WritesForCause, Keyfile!Between
  <2>3. ~Keyfile!Between(daily)
    BY <1>1 DEF Keyfile!Between
  <2>4. OneIdentity'
    BY <1>1, <1>2, <1>3, <1>4, <2>1, <2>3 DEF OneIdentity
  <2>5. Offers'
    BY <1>1, <1>2, <1>3, <2>1 DEF Offers, OpenOrReplaced, Newer
  <2>. QED  BY <2>2, <2>4, <2>5
<1>. QED  BY <1>5, <1>6, <1>7, <1>8 DEF KInv, Always

\* The session file is no part of the rest.
LEMMA KeySaveInv ==
  ASSUME KInv, Keyfile!SaveSessions
  PROVE  KInv'
<1>1. PICK step \in {"ready", "saving"} : proc[daily].pc \in {"ready", "saving"} /\ Keyfile!Goes(daily, step)
  BY DEF Keyfile!SaveSessions
<1>2. /\ proc' \in [Proc -> ProcTypes] /\ proc'[daily].pc \in {"ready", "saving"}
      /\ \A q \in Proc : proc'[q].keys = proc[q].keys /\ proc'[q].sessions = proc[q].sessions
      /\ \A q \in Proc : q # daily => proc'[q] = proc[q]
  BY <1>1, GoesOn, KeyfileAssumption DEF KInv, Always, Steps
<1>3. UNCHANGED <<keyfile, published, made, opened, overlap>>
  BY DEF Keyfile!SaveSessions
<1>4. \A q \in Proc : (Active(q)' <=> Active(q)) /\ (Keyfile!Between(q)' <=> Keyfile!Between(q))
  BY <1>1, <1>2 DEF Active, Keyfile!Between
<1>5. sessfile' \in 0..(MaxMade + 1) \cup {Keyfile!Torn}
  <2>1. proc[daily].sessions \in 0..(MaxMade + 1)
    BY KeyfileAssumption DEF KInv, Always, Keyfile!TypeOK
  <2>. QED  BY <2>1 DEF Keyfile!SaveSessions
<1>6. Keyfile!TypeOK'
  BY <1>2, <1>3, <1>5 DEF KInv, Always, Keyfile!TypeOK, ProcTypes, Steps
<1>7. Identified' /\ Loads' /\ Counted' /\ Signed(published)'
  BY <1>2, <1>3, <1>4 DEF KInv, Always, Identified, Loads, Counted, Signed, Known
<1>8. ASSUME ~overlap'
      PROVE  OneWriter' /\ OneIdentity' /\ WritesForCause' /\ Offers'
  <2>1. OneWriter /\ OneIdentity /\ WritesForCause /\ Offers
    BY <1>3, <1>8 DEF KInv
  <2>2. OneWriter' /\ OneIdentity'
    BY <1>2, <1>3, <1>4, <2>1 DEF OneWriter, OneIdentity
  <2>3. WritesForCause'
    BY <1>2, <1>3, <1>4, <2>1, KeyfileAssumption DEF WritesForCause, Newer, Keyfile!MustWrite, Keyfile!Created, Keyfile!Unpublishable
  <2>4. Offers'
    BY <1>1, <1>2, <1>3, <1>4, <2>1, KeyfileAssumption DEF Offers, OpenOrReplaced, Newer
  <2>. QED  BY <2>2, <2>3, <2>4
<1>. QED  BY <1>6, <1>7, <1>8 DEF KInv, Always

\* A process that ends leaves the files as they are.
LEMMA KeyStopInv ==
  ASSUME KInv, NEW p \in Proc, Keyfile!Stop(p)
  PROVE  KInv'
<1>1. /\ proc' = [proc EXCEPT ![p] = Keyfile!Down] /\ UNCHANGED <<keyfile, sessfile, published, made, opened, overlap>>
  BY DEF Keyfile!Stop
<1>2. proc \in [Proc -> ProcTypes] /\ Keyfile!Down \in ProcTypes
  <2>1. Keyfile!Down \in ProcTypes
    BY KeyfileAssumption DEF Keyfile!Down, Keyfile!NoKeys, Keyfile!NoId, ProcTypes, Steps, Keyfile!Keys
  <2>. QED  BY <2>1 DEF KInv, Always, Keyfile!TypeOK, ProcTypes, Steps
<1>3. /\ proc' \in [Proc -> ProcTypes] /\ proc'[p].pc = "start" /\ proc'[p].keys.pool = {}
      /\ \A q \in Proc : q # p => proc'[q] = proc[q]
  BY <1>1, <1>2 DEF Keyfile!Down, Keyfile!NoKeys
<1>4. /\ \A q \in Proc : (Active(q)' => Active(q) /\ q # p) /\ (Keyfile!Between(q)' => Keyfile!Between(q) /\ q # p)
      /\ \A q \in Proc : q # p => (Keyfile!Between(q)' <=> Keyfile!Between(q))
  BY <1>3 DEF Active, Keyfile!Between
<1>5. Keyfile!TypeOK'
  BY <1>1, <1>3 DEF KInv, Always, Keyfile!TypeOK, ProcTypes, Steps
<1>6. Identified' /\ Loads' /\ Counted' /\ Signed(published)'
  BY <1>1, <1>3, <1>4 DEF KInv, Always, Identified, Loads, Counted, Signed, Known
<1>7. ASSUME ~overlap'
      PROVE  OneWriter' /\ OneIdentity' /\ WritesForCause' /\ Offers'
  <2>1. OneWriter /\ OneIdentity /\ WritesForCause /\ Offers
    BY <1>1, <1>7 DEF KInv
  <2>2. OneWriter' /\ OneIdentity'
    BY <1>1, <1>3, <1>4, <2>1 DEF OneWriter, OneIdentity
  <2>3. WritesForCause'
    <3>1. SUFFICES ASSUME NEW q \in Proc \ {daily}, Keyfile!Between(q)'
                   PROVE  /\ proc'[q].pc = "write" => Keyfile!MustWrite'
                          /\ proc'[q].pc = "writing" => keyfile'.kind = "torn"
                          /\ \A k \in published' : Newer(proc'[q].keys.pool, k)
                          /\ Active(daily)' => \A k \in proc'[daily].keys.pool : Newer(proc'[q].keys.pool, k)
      BY DEF WritesForCause, Keyfile!Between, Newer
    <3>2. q # p /\ proc'[q] = proc[q] /\ Keyfile!Between(q)
      BY <1>3, <1>4, <3>1
    <3>3. Keyfile!MustWrite' <=> Keyfile!MustWrite
      BY <1>1 DEF Keyfile!MustWrite, Keyfile!Created, Keyfile!Unpublishable
    <3>4. Active(daily)' => Active(daily) /\ proc'[daily] = proc[daily]
      BY <1>3, <1>4, KeyfileAssumption
    <3>. QED  BY <1>1, <2>1, <3>1, <3>2, <3>3, <3>4 DEF WritesForCause
  <2>4. Offers'
    <3>1. CASE p = daily
      BY <1>1, <1>3, <1>4, <2>1, <3>1 DEF Offers, OpenOrReplaced, Newer
    <3>2. CASE p # daily
      <4>1. proc'[daily] = proc[daily] /\ (Active(daily)' => Active(daily))
        BY <1>3, <1>4, <3>2, KeyfileAssumption
      <4>. QED  BY <1>1, <2>1, <4>1 DEF Offers, OpenOrReplaced, Newer
    <3>. QED  BY <3>1, <3>2
  <2>. QED  BY <2>2, <2>3, <2>4
<1>. QED  BY <1>5, <1>6, <1>7 DEF KInv, Always

\* A process finds what was stored, and is to write what is newer than all others, or
\* ends.
LEMMA KeyStartInv ==
  ASSUME KInv, NEW p \in Proc, Keyfile!Start(p)
  PROVE  KInv'
<1>1. /\ proc[p].pc = "start" /\ UNCHANGED <<keyfile, sessfile, published, opened>>
      /\ proc \in [Proc -> ProcTypes] /\ Keyfile!TypeOK /\ Counted
  BY DEF Keyfile!Start, KInv, Always, Keyfile!TypeOK, ProcTypes, Steps
<1>2. Keyfile!MustWrite' <=> Keyfile!MustWrite
  BY <1>1 DEF Keyfile!MustWrite, Keyfile!Created, Keyfile!Unpublishable
<1>3. CASE Keyfile!Unreadable /\ ~Keyfile!Created
  <2>1. /\ proc' \in [Proc -> ProcTypes] /\ proc'[p].pc = "exited" /\ UNCHANGED <<made, overlap>>
        /\ \A q \in Proc : proc'[q].keys = proc[q].keys /\ proc'[q].sessions = proc[q].sessions
        /\ \A q \in Proc : q # p => proc'[q] = proc[q]
    <3>1. Keyfile!Goes(p, "exited") /\ UNCHANGED <<made, overlap>>
      BY <1>3 DEF Keyfile!Start
    <3>. QED  BY <1>1, <3>1, GoesOn DEF Steps
  <2>2. \A q \in Proc : (Active(q)' <=> Active(q)) /\ (Keyfile!Between(q)' <=> Keyfile!Between(q)) /\ (proc'[q].pc \in {"ready", "saving"} => proc[q].pc \in {"ready", "saving"})
    BY <1>1, <2>1 DEF Active, Keyfile!Between
  <2>3. Keyfile!TypeOK'
    BY <1>1, <2>1 DEF Keyfile!TypeOK, ProcTypes, Steps
  <2>4. Identified' /\ Loads' /\ Counted' /\ Signed(published)'
    BY <1>1, <2>1, <2>2 DEF KInv, Always, Identified, Loads, Counted, Signed, Known
  <2>5. ASSUME ~overlap'
        PROVE  OneWriter' /\ OneIdentity' /\ WritesForCause' /\ Offers'
    <3>1. OneWriter /\ OneIdentity /\ WritesForCause /\ Offers
      BY <2>1, <2>5 DEF KInv
    <3>2. OneWriter' /\ OneIdentity'
      BY <1>1, <2>1, <2>2, <3>1 DEF OneWriter, OneIdentity
    <3>3. WritesForCause'
      <4>1. \A q \in Proc : proc'[q].pc \in {"write", "writing"} => proc'[q].pc = proc[q].pc
        BY <2>1
      <4>. QED  BY <1>1, <1>2, <2>1, <2>2, <3>1, <4>1, KeyfileAssumption DEF WritesForCause, Newer
    <3>4. Offers'
      BY <1>1, <2>1, <2>2, <3>1, KeyfileAssumption DEF Offers, OpenOrReplaced, Newer
    <3>. QED  BY <3>2, <3>3, <3>4
  <2>. QED  BY <2>3, <2>4, <2>5 DEF KInv, Always
<1>4. ASSUME ~(Keyfile!Unreadable /\ ~Keyfile!Created)
      PROVE  /\ Keyfile!Loaded # Keyfile!NoId /\ (Keyfile!Created => Keyfile!Loaded = made + 1 /\ keyfile.keys = Keyfile!NoKeys)
             /\ ~Keyfile!Created => Keyfile!Loaded = keyfile.keys.id /\ keyfile.kind # "torn"
  <2>1. CASE Keyfile!Created
    BY <1>1, <2>1, KeyTypes DEF Keyfile!Loaded, Keyfile!NoId, Keyfile!Created, KInv, Always, Identified
  <2>2. CASE ~Keyfile!Created
    BY <1>4, <2>2 DEF Keyfile!Loaded, Keyfile!Unreadable, Keyfile!Created, KInv, Always, Identified
  <2>. QED  BY <2>1, <2>2
<1>5. PICK id : id = Keyfile!Loaded
  OBVIOUS
<1>6. PICK old : old = Keyfile!Restored(id)
  OBVIOUS
<1>7. old \in {Keyfile!NoId, id}
  BY <1>6 DEF Keyfile!Restored
<1>8. ASSUME ~(Keyfile!Unreadable /\ ~Keyfile!Created), Keyfile!MustWrite
      PROVE  KInv'
  <2>. DEFINE x == [pc |-> "write", sessions |-> old, keys |-> [id |-> id, pool |-> Keyfile!Fresh(made + 1)]]
  <2>1. /\ made <= MaxMade /\ made' = made + 1 /\ proc' = [proc EXCEPT ![p] = x]
        /\ overlap' = (overlap \/ \E q \in Proc \ {p} : Keyfile!Between(q))
    BY <1>5, <1>6, <1>8 DEF Keyfile!Start
  <2>2. id \in 0..(MaxMade + 1) /\ id # Keyfile!NoId /\ old \in 0..(MaxMade + 1)
    <3>1. keyfile.keys.id \in 0..(MaxMade + 1)
      BY <1>1, KeyTypes DEF Keyfile!Keys
    <3>2. id \in 0..(MaxMade + 1) /\ id # Keyfile!NoId
      BY <1>1, <1>4, <1>5, <1>8, <2>1, <3>1, KeyTypes DEF Keyfile!NoId
    <3>. QED  BY <1>1, <1>7, <3>2, KeyTypes DEF Keyfile!NoId
  <2>3. Keyfile!Fresh(made + 1) \subseteq (0..(MaxMade + 1)) \X (1..PoolSize)
    BY <1>1, <2>1, KeyTypes DEF Keyfile!Fresh
  <2>4. x \in ProcTypes
    BY <2>2, <2>3 DEF ProcTypes, Steps, Keyfile!Keys
  <2>5. /\ proc' \in [Proc -> ProcTypes] /\ proc'[p].pc = "write" /\ proc'[p].keys.pool = Keyfile!Fresh(made + 1)
        /\ proc'[p].keys.id = id /\ proc'[p].sessions = old
        /\ \A q \in Proc : q # p => proc'[q] = proc[q]
    BY <1>1, <2>1, <2>4
  <2>6. Active(p)' /\ Keyfile!Between(p)' /\ \A q \in Proc : q # p => (Active(q)' <=> Active(q)) /\ (Keyfile!Between(q)' <=> Keyfile!Between(q))
    BY <2>5 DEF Active, Keyfile!Between
  <2>7. \A k : k[1] \in Nat /\ k[1] <= made => Newer(Keyfile!Fresh(made + 1), k) /\ k[1] <= made'
    BY <1>1, <2>1, KeyTypes, FreshNewer
  <2>8. Signed(Keyfile!Fresh(made + 1)) /\ \A k \in Keyfile!Fresh(made + 1) : k[1] <= made'
    BY <1>1, <2>1, KeyTypes DEF Signed, Keyfile!Fresh
  <2>9. Keyfile!TypeOK'
    BY <1>1, <2>5 DEF Keyfile!TypeOK, ProcTypes, Steps
  <2>10. Counted'
    <3>1. made' \in 1..(MaxMade + 1)
      BY <1>1, <2>1, KeyTypes DEF Counted
    <3>2. ASSUME NEW q \in Proc, NEW k \in proc'[q].keys.pool
          PROVE  k[1] <= made'
      <4>1. CASE q = p
        BY <2>5, <2>8, <3>2, <4>1
      <4>2. CASE q # p
        BY <1>1, <2>5, <2>7, <3>2, <4>2, KeyTypes DEF Counted, Known
      <4>. QED  BY <4>1, <4>2
    <3>3. ASSUME NEW k \in published' \cup keyfile'.keys.pool
          PROVE  k[1] <= made'
      BY <1>1, <2>7, <3>3, KeyTypes DEF Counted, Known
    <3>. QED  BY <3>1, <3>2, <3>3 DEF Counted, Known
  <2>11. Identified' /\ Loads' /\ Signed(published)'
    BY <1>1, <1>7, <2>2, <2>5, <2>6, <2>8 DEF KInv, Always, Identified, Loads, Signed
  <2>12. ASSUME ~overlap'
         PROVE  OneWriter' /\ OneIdentity' /\ WritesForCause' /\ Offers'
    <3>1. OneWriter /\ OneIdentity /\ WritesForCause /\ Offers /\ \A q \in Proc : q # p => ~Keyfile!Between(q)
      BY <2>1, <2>12 DEF KInv
    <3>2. OneWriter'
      BY <2>6, <3>1 DEF OneWriter
    <3>3. OneIdentity'
      <4>1. keyfile.keys.id = id \/ keyfile.keys.id = Keyfile!NoId
        BY <1>4, <1>5, <1>8 DEF Keyfile!NoKeys
      <4>. QED  BY <1>1, <2>5, <2>6, <3>1, <4>1 DEF OneIdentity
    <3>4. WritesForCause'
      <4>1. SUFFICES ASSUME NEW q \in Proc \ {daily}, Keyfile!Between(q)'
                     PROVE  /\ proc'[q].pc = "write" /\ Keyfile!MustWrite'
                            /\ \A k \in published' : Newer(proc'[q].keys.pool, k)
                            /\ Active(daily)' => \A k \in proc'[daily].keys.pool : Newer(proc'[q].keys.pool, k)
        BY DEF WritesForCause, Keyfile!Between, Newer
      <4>2. q = p
        BY <2>6, <3>1, <4>1
      <4>3. \A k \in published \cup proc[daily].keys.pool : Newer(Keyfile!Fresh(made + 1), k)
        BY <1>1, <2>7, KeyTypes, KeyfileAssumption DEF Counted, Known
      <4>. QED  BY <1>1, <1>2, <1>8, <2>5, <4>1, <4>2, <4>3, KeyfileAssumption
    <3>5. Offers'
      <4>1. OpenOrReplaced(keyfile.keys, published)'
        BY <1>1, <3>1 DEF Offers, OpenOrReplaced, Newer
      <4>2. CASE p = daily
        <5>1. \A k \in published : Newer(proc'[daily].keys.pool, k)
          BY <1>1, <2>5, <2>7, <4>2, KeyTypes DEF Counted, Known
        <5>. QED  BY <1>1, <2>5, <4>1, <4>2, <5>1 DEF Offers, OpenOrReplaced, Newer
      <4>3. CASE p # daily
        BY <1>1, <2>5, <2>6, <3>1, <4>1, <4>3, KeyfileAssumption DEF Offers, OpenOrReplaced, Newer
      <4>. QED  BY <4>2, <4>3
    <3>. QED  BY <3>2, <3>3, <3>4, <3>5
  <2>. QED  BY <2>9, <2>10, <2>11, <2>12 DEF KInv, Always
<1>9. ASSUME ~(Keyfile!Unreadable /\ ~Keyfile!Created), ~Keyfile!MustWrite
      PROVE  KInv'
  <2>. DEFINE x == [pc |-> "ready", sessions |-> old, keys |-> [id |-> id, pool |-> keyfile.keys.pool]]
  <2>1. proc' = [proc EXCEPT ![p] = x] /\ UNCHANGED <<made, overlap>>
    BY <1>5, <1>6, <1>9 DEF Keyfile!Start
  <2>2. ~Keyfile!Created /\ id = keyfile.keys.id /\ id # Keyfile!NoId /\ keyfile.kind # "torn" /\ Signed(keyfile.keys.pool)
    BY <1>4, <1>5, <1>9 DEF Keyfile!MustWrite, Keyfile!Unpublishable, Signed
  <2>3. id \in 0..(MaxMade + 1) /\ old \in 0..(MaxMade + 1) /\ keyfile.keys \in Keyfile!Keys
    <3>1. keyfile.keys \in Keyfile!Keys /\ id \in 0..(MaxMade + 1)
      BY <1>1, <2>2, KeyTypes DEF Keyfile!Keys
    <3>. QED  BY <1>1, <1>7, <3>1, KeyTypes DEF Keyfile!NoId
  <2>4. x \in ProcTypes
    BY <2>3 DEF ProcTypes, Steps, Keyfile!Keys
  <2>5. /\ proc' \in [Proc -> ProcTypes] /\ proc'[p].pc = "ready" /\ proc'[p].keys.pool = keyfile.keys.pool
        /\ proc'[p].keys.id = id /\ proc'[p].sessions = old
        /\ \A q \in Proc : q # p => proc'[q] = proc[q]
    BY <1>1, <2>1, <2>4
  <2>6. /\ Active(p)' /\ ~Keyfile!Between(p)' /\ ~Keyfile!Between(p)
        /\ \A q \in Proc : q # p => (Active(q)' <=> Active(q)) /\ (Keyfile!Between(q)' <=> Keyfile!Between(q))
    BY <1>1, <2>5 DEF Active, Keyfile!Between
  <2>7. Keyfile!TypeOK'
    BY <1>1, <2>1, <2>5 DEF Keyfile!TypeOK, ProcTypes, Steps
  <2>8. Identified' /\ Loads' /\ Counted' /\ Signed(published)'
    BY <1>1, <1>7, <2>1, <2>2, <2>5, <2>6 DEF KInv, Always, Identified, Loads, Signed, Counted, Known
  <2>9. ASSUME ~overlap'
        PROVE  OneWriter' /\ OneIdentity' /\ WritesForCause' /\ Offers'
    <3>1. OneWriter /\ OneIdentity /\ WritesForCause /\ Offers
      BY <2>1, <2>9 DEF KInv
    <3>2. OneWriter' /\ OneIdentity'
      BY <1>1, <2>2, <2>5, <2>6, <3>1 DEF OneWriter, OneIdentity
    <3>3. WritesForCause'
      <4>1. SUFFICES ASSUME NEW q \in Proc \ {daily}, Keyfile!Between(q)'
                     PROVE  FALSE
        BY DEF WritesForCause, Keyfile!Between
      <4>2. q # p /\ Keyfile!Between(q)
        BY <2>6, <4>1
      <4>. QED  BY <1>9, <2>2, <3>1, <4>2 DEF WritesForCause, Keyfile!Between
    <3>4. Offers'
      <4>1. OpenOrReplaced(keyfile.keys, published)'
        BY <1>1, <3>1 DEF Offers, OpenOrReplaced, Newer
      <4>2. CASE p = daily
        BY <1>1, <2>5, <3>1, <4>1, <4>2 DEF Offers, OpenOrReplaced, Newer
      <4>3. CASE p # daily
        BY <1>1, <2>5, <2>6, <3>1, <4>1, <4>3, KeyfileAssumption DEF Offers, OpenOrReplaced, Newer
      <4>. QED  BY <4>2, <4>3
    <3>. QED  BY <3>2, <3>3, <3>4
  <2>. QED  BY <2>7, <2>8, <2>9 DEF KInv, Always
<1>. QED  BY <1>3, <1>8, <1>9

\* KInv is an invariant.
LEMMA KeysInductive ==
  /\ Keyfile!Init => KInv
  /\ KInv /\ [Keyfile!Next]_(Keyfile!vars) => KInv'
<1>1. ASSUME Keyfile!Init PROVE KInv
  <2>1. PICK form \in Keyfile!Kinds \ {"torn"}, gen \in {0, 1} :
          keyfile = [kind |-> form,
                     keys |-> IF form = "absent" THEN Keyfile!NoKeys
                              ELSE [id |-> 1, pool |-> IF form = "v6" THEN Keyfile!Fresh(gen) ELSE {}]]
    BY <1>1 DEF Keyfile!Init
  <2>2. /\ sessfile = Keyfile!NoId /\ proc = [p \in Proc |-> Keyfile!Down] /\ published = {} /\ made = 1
    BY <1>1 DEF Keyfile!Init
  <2>3. Keyfile!NoKeys \in Keyfile!Keys /\ [id |-> 1, pool |-> {}] \in Keyfile!Keys /\ [id |-> 1, pool |-> Keyfile!Fresh(gen)] \in Keyfile!Keys
    BY KeyfileAssumption DEF Keyfile!NoKeys, Keyfile!NoId, Keyfile!Keys, Keyfile!Fresh
  <2>4. keyfile.kind = form /\ keyfile.keys \in Keyfile!Keys
    BY <2>1, <2>3
  <2>5. \A p \in Proc : proc[p] = Keyfile!Down
    BY <2>2
  <2>6. Keyfile!Down.pc = "start" /\ Keyfile!Down.keys = Keyfile!NoKeys /\ Keyfile!NoKeys.pool = {} /\ Keyfile!Down \in ProcTypes
    BY <2>3, KeyfileAssumption DEF Keyfile!Down, Keyfile!NoKeys, Keyfile!NoId, ProcTypes, Steps
  <2>7. Keyfile!TypeOK
    <3>1. keyfile \in [kind : Keyfile!Kinds, keys : Keyfile!Keys]
      BY <2>1, <2>3
    <3>2. proc \in [Proc -> ProcTypes]
      BY <2>2, <2>6
    <3>. QED  BY <2>2, <3>1, <3>2, KeyfileAssumption DEF Keyfile!TypeOK, Keyfile!NoId, ProcTypes, Steps
  <2>8. Identified
    BY <2>1 DEF Identified, Keyfile!NoId
  <2>9. Known(keyfile.keys.pool)
    <3>1. CASE keyfile.keys.pool = {}
      BY <3>1 DEF Known
    <3>2. CASE keyfile.keys.pool = Keyfile!Fresh(gen)
      BY <2>2, <3>2 DEF Known, Keyfile!Fresh
    <3>. QED  BY <2>1, <3>1, <3>2 DEF Keyfile!NoKeys
  <2>10. Loads /\ Counted /\ Signed(published)
    BY <2>2, <2>5, <2>6, <2>9, KeyfileAssumption DEF Loads, Active, Counted, Known, Signed
  <2>11. OneWriter /\ OneIdentity /\ WritesForCause /\ Offers
    BY <2>2, <2>5, <2>6, KeyfileAssumption DEF OneWriter, OneIdentity, WritesForCause, Offers, Active, Keyfile!Between, OpenOrReplaced
  <2>. QED  BY <2>7, <2>8, <2>10, <2>11 DEF KInv, Always
<1>2. ASSUME KInv, [Keyfile!Next]_(Keyfile!vars) PROVE KInv'
  <2>1. CASE UNCHANGED Keyfile!vars
    <3>1. UNCHANGED <<keyfile, sessfile, proc, published, made, overlap>>
      BY <2>1 DEF Keyfile!vars
    <3>2. Keyfile!TypeOK' /\ Identified' /\ Loads' /\ Counted' /\ Signed(published)'
      BY <1>2, <3>1 DEF KInv, Always, Keyfile!TypeOK, Identified, Loads, Active, Counted, Known, Signed
    <3>3. OneWriter => OneWriter'
      BY <3>1 DEF OneWriter, Keyfile!Between
    <3>4. OneIdentity => OneIdentity'
      BY <3>1 DEF OneIdentity, Active, Keyfile!Between
    <3>5. WritesForCause => WritesForCause'
      BY <3>1 DEF WritesForCause, Active, Keyfile!Between, Newer, Keyfile!MustWrite, Keyfile!Created, Keyfile!Unpublishable
    <3>6. Offers => Offers'
      BY <3>1 DEF Offers, Active, OpenOrReplaced, Newer
    <3>. QED  BY <1>2, <3>1, <3>2, <3>3, <3>4, <3>5, <3>6 DEF KInv, Always
  <2>2. CASE Keyfile!Next
    <3>1. ASSUME NEW p \in Proc, Keyfile!Start(p) \/ Keyfile!Truncate(p) \/ Keyfile!Fill(p) \/ Keyfile!Stop(p)
          PROVE  KInv'
      BY <1>2, <3>1, KeyStartInv, KeyTruncateInv, KeyFillInv, KeyStopInv
    <3>2. ASSUME NEW k \in published, Keyfile!Burn(k)
          PROVE  KInv'
      BY <1>2, <3>2, KeyBurnInv
    <3>3. CASE Keyfile!Publish \/ Keyfile!SaveSessions
      BY <1>2, <3>3, KeyPublishInv, KeySaveInv
    <3>. QED  BY <2>2, <3>1, <3>2, <3>3 DEF Keyfile!Next
  <2>. QED  BY <1>2, <2>1, <2>2
<1>. QED  BY <1>1, <1>2

\* What the properties say of it.
LEMMA KInvTells ==
  ASSUME KInv
  PROVE  Keyfile!TypeOK /\ Keyfile!RunsAsStored /\ Keyfile!OfferedOpens
<1>1. Keyfile!RunsAsStored
  BY DEF KInv, Always, Loads, OneIdentity, Keyfile!RunsAsStored, Active, Keyfile!Between
<1>2. Keyfile!OfferedOpens
  BY KeyfileAssumption DEF KInv, Always, Signed, Offers, OpenOrReplaced, Newer, Keyfile!OfferedOpens, Active
<1>. QED  BY <1>1, <1>2 DEF KInv, Always

\* Only a process that creates the file gives it an identity.
LEMMA StepKeepsAddress ==
  ASSUME KInv, Keyfile!Next, keyfile.keys.id # Keyfile!NoId, ~overlap
  PROVE  keyfile'.keys.id = keyfile.keys.id
<1>1. ASSUME NEW p \in Proc, Keyfile!Fill(p)
      PROVE  keyfile'.keys.id = keyfile.keys.id
  <2>1. Active(p) /\ keyfile' = [kind |-> "v6", keys |-> proc[p].keys]
    BY <1>1 DEF Keyfile!Fill, Active
  <2>. QED  BY <1>1, <2>1 DEF KInv, OneIdentity
<1>2. ASSUME NEW p \in Proc, Keyfile!Truncate(p)
      PROVE  keyfile'.keys.id = keyfile.keys.id
  BY <1>2 DEF Keyfile!Truncate
<1>. QED  BY <1>1, <1>2 DEF Keyfile!Next, Keyfile!Start, Keyfile!Stop, Keyfile!Publish, Keyfile!Burn, Keyfile!SaveSessions

\* In MCHost's composition the keyfile takes its own steps or none.
LEMMA HostSteps ==
  /\ HostInit => Keyfile!Init /\ Init
  /\ [HostNext]_hostVars => [Keyfile!Next]_(Keyfile!vars) /\ [Next]_vars
<1>1. HostInit => Keyfile!Init /\ Init
  BY DEF HostInit
<1>2. ASSUME HostNext PROVE [Keyfile!Next]_(Keyfile!vars) /\ [Next]_vars
  <2>1. UNCHANGED keys => UNCHANGED Keyfile!vars
    BY DEF keys, Keyfile!vars
  <2>. QED  BY <1>2, <2>1 DEF HostNext
<1>3. ASSUME UNCHANGED hostVars PROVE UNCHANGED Keyfile!vars /\ UNCHANGED vars
  BY <1>3 DEF hostVars, keys, Keyfile!vars
<1>. QED  BY <1>1, <1>2, <1>3

\* Each process runs with the identity and the sessions the files hold, unless two
\* were writing at once; and what the relay offers is signed, and opens with the
\* client unless its whole pool was replaced since.
THEOREM KeysHoldAlways == HostSpec => []KeysHold
<1>1. HostInit => KInv
  BY HostSteps, KeysInductive
<1>2. KInv /\ [HostNext]_hostVars => KInv'
  BY HostSteps, KeysInductive
<1>3. KInv => KeysHold
  BY KInvTells DEF KeysHold
<1>. QED  BY <1>1, <1>2, <1>3, PTL DEF HostSpec

\* The keyfile never comes to hold another identity than it had, over migrations,
\* kills in the middle of a write and a command beside the client, unless two
\* processes were writing at once.
THEOREM AddressKeptAlways == HostSpec => Keyfile!AddressKept
<1>1. HostInit => KInv
  BY HostSteps, KeysInductive
<1>2. KInv /\ [HostNext]_hostVars => KInv'
  BY HostSteps, KeysInductive
<1>3. KInv /\ [HostNext]_hostVars =>
        [((keyfile.keys.id # Keyfile!NoId /\ ~overlap) => keyfile'.keys.id = keyfile.keys.id)]_(Keyfile!vars)
  BY HostSteps, StepKeepsAddress
<1>. QED  BY <1>1, <1>2, <1>3, PTL DEF HostSpec, Keyfile!AddressKept

---------------------------------------------------------------------------
(* The launchers and the link.                                              *)

\* The launcher's main flow that spawned what it needs.
Waiting == launcher \in {"wait-relay", "wait-ui", "open", "ready"}
Going(child) == child \in {"starting", "up", "gone"}

\* A local launcher waits for children it spawned; once it stops they are gone, and
\* nothing brings them back: it is past what spawns them.  Only a local one crashes,
\* with no browser open.
LaunchInv ==
  /\ relay \in {"off", "starting", "up", "gone"} /\ ui \in {"off", "starting", "up", "gone"}
  /\ (asked.launch = "local" /\ Waiting) => Going(relay) /\ Going(ui)
  /\ launcher = "probing" => asked.launch = "tor"
  /\ (down # "no" /\ launcher # "crashed") =>
       Waiting /\ ui \in {"off", "gone"} /\ (asked.launch = "local" => relay = "gone" /\ ui = "gone")
  /\ down = "gone" => browser # "proxied"
  /\ asked.launch = "tor" => browser # "direct"
  /\ launcher = "crashed" => asked.launch = "local" /\ down = "gone" /\ browser = "off"
  /\ (asked.launch = "local" /\ launcher # "ready") => browser = "off"

\* The link has the route that was allowed from the socket on, and the encryption
\* from the handshake on.
LinkInv ==
  /\ (link.stage \in {"handshake", "connected", "sending"} /\ link.route = "direct") => asked.noTor \/ asked.fallback
  /\ (link.stage \in {"connected", "sending"} /\ asked.tls) => link.encrypted /\ asked.pin = "right"

\* The launchers and their children leave the link alone.
LEMMA LaunchKeeps ==
  ASSUME LaunchInv, Launch!Next
  PROVE  LaunchInv'
<1>1. CASE Launch!Start
  BY <1>1 DEF Launch!Start, Launch!OthersUnchanged, LaunchInv, Waiting, Going
<1>2. CASE Launch!Probe \/ Launch!Wait \/ Launch!Open
  BY <1>2 DEF Launch!Probe, Launch!Wait, Launch!Open, Launch!OthersUnchanged, LaunchInv, Waiting, Going
<1>3. CASE Launch!RelayStarts \/ Launch!ServerStarts \/ Launch!ChildDies
  BY <1>3 DEF Launch!RelayStarts, Launch!ServerStarts, Launch!ChildDies, Launch!OthersUnchanged, LaunchInv, Waiting, Going
<1>4. CASE Launch!Shutdown
  BY <1>4 DEF Launch!Shutdown, Launch!Killed, Launch!OthersUnchanged, LaunchInv, Waiting, Going
<1>5. CASE Launch!Exit
  BY <1>5 DEF Launch!Exit, Launch!OthersUnchanged, LaunchInv, Waiting, Going
<1>6. CASE Launch!TorChanges \/ Launch!Dial \/ Launch!Socket \/ Launch!Handshake \/ Launch!FirstWrite \/ Launch!Closed
  <2>1. UNCHANGED <<asked, relay, ui, launcher, down, browser>>
    BY <1>6 DEF Launch!TorChanges, Launch!Dial, Launch!Socket, Launch!Handshake, Launch!FirstWrite, Launch!Closed,
                Launch!LinkOnly, Launch!OthersUnchanged
  <2>. QED  BY <2>1 DEF LaunchInv, Waiting, Going
<1>. QED  BY <1>1, <1>2, <1>3, <1>4, <1>5, <1>6 DEF Launch!Next

\* And the link goes on as it was asked for.
LEMMA LinkKeeps ==
  ASSUME LinkInv, Launch!Next
  PROVE  LinkInv'
<1>1. UNCHANGED asked
  BY DEF Launch!Next, Launch!Start, Launch!Probe, Launch!RelayStarts, Launch!ServerStarts, Launch!Wait, Launch!Open,
         Launch!Shutdown, Launch!Exit, Launch!ChildDies, Launch!TorChanges, Launch!Dial, Launch!Socket,
         Launch!Handshake, Launch!FirstWrite, Launch!Closed, Launch!LinkOnly, Launch!OthersUnchanged
<1>2. CASE UNCHANGED link
  BY <1>1, <1>2 DEF LinkInv
<1>3. CASE Launch!Dial
  BY <1>1, <1>3 DEF Launch!Dial, Launch!LinkTo, LinkInv
<1>4. CASE Launch!Socket
  BY <1>1, <1>4 DEF Launch!Socket, Launch!LinkTo, Launch!MayFallBack, LinkInv
<1>5. CASE Launch!Handshake
  BY <1>1, <1>5 DEF Launch!Handshake, Launch!LinkTo, LinkInv
<1>6. CASE Launch!FirstWrite \/ Launch!Closed
  BY <1>1, <1>6 DEF Launch!FirstWrite, Launch!Closed, Launch!LinkTo, LinkInv
<1>. QED  BY <1>2, <1>3, <1>4, <1>5, <1>6
          DEF Launch!Next, Launch!Start, Launch!Probe, Launch!RelayStarts, Launch!ServerStarts, Launch!Wait, Launch!Open,
              Launch!Shutdown, Launch!Exit, Launch!ChildDies, Launch!TorChanges

\* Whatever the relay and Tor do, the client writes on a direct path only where the
\* user gave up Tor or allowed it, and under RELAY_TLS=1 only after it saw the pinned
\* certificate; and a launcher that went through its shutdown leaves no child and no
\* Tor browser, as the one for Tor always does.
THEOREM LinksAsAskedAlways == HostSpec => []LinksAsAsked
<1>. DEFINE I == LaunchInv /\ LinkInv
<1>1. HostInit => I
  BY DEF HostInit, Launch!Init, LaunchInv, LinkInv, Waiting
<1>2. I /\ [HostNext]_hostVars => I'
  <2>1. SUFFICES ASSUME I, [HostNext]_hostVars PROVE I'
    OBVIOUS
  <2>2. CASE Launch!Next
    BY <2>1, <2>2, LaunchKeeps, LinkKeeps
  <2>3. CASE UNCHANGED launch
    <3>1. UNCHANGED <<asked, relay, ui, launcher, down, browser, link>>
      BY <2>3 DEF launch
    <3>. QED  BY <2>1, <3>1 DEF LaunchInv, LinkInv, Waiting, Going
  <2>. QED  BY <2>1, <2>2, <2>3 DEF HostNext, hostVars
<1>3. I => LinksAsAsked
  BY DEF LaunchInv, LinkInv, LinksAsAsked, Launch!LinkAsAsked, Launch!NothingLeft
<1>. HIDE DEF I
<1>. QED  BY <1>1, <1>2, <1>3, PTL DEF HostSpec

---------------------------------------------------------------------------
(* The tools: the fix of the ags command line, the verifier of what is staged.*)

\* The verifier's trees have the three paths, and a run of it has looked at some.
Blobs == {"none", "broken", "plain", "imports-module", "imports-package", "declares-package"}
StagedTypes ==
  /\ {head, index} \subseteq [Staged!Path -> Blobs]
  /\ check \in [mode : {"none", "staged", "all", "commit"}, todo : SUBSET Staged!Path,
                failed : BOOLEAN, disturbed : BOOLEAN]

\* A run over everything has failed if one of the files it is past does not hold, and
\* one of the hook that has not failed is past files that do.
StagedInv ==
  /\ StagedTypes
  /\ (check.mode = "all" /\ ~check.disturbed) =>
       /\ index = head
       /\ check.failed <=> \E p \in Staged!Path \ check.todo : ~Staged!Whole(p, head)
  /\ (check.mode = "staged" /\ ~check.disturbed /\ ~check.failed) =>
       \A p \in Staged!Path \ check.todo : index[p] = head[p] \/ Staged!Whole(p, index)

\* The postinstall hook goes straight to its patch.
AgsInv ==
  /\ dist \in AgsCli!Dist
  /\ command \in [cmd : {"none", "patch", "strict", "warn", "refresh"}, pc : {"idle", "heal", "capture", "load", "replay"}]
  /\ command.cmd = "patch" => command.pc = "heal"
  /\ AgsCli!ExitTellsState

\* The fix of the installed command line keeps it.
LEMMA AgsKeeps ==
  ASSUME AgsInv, AgsCli!Next
  PROVE  AgsInv'
<1>. USE DEF AgsInv
<1>1. CASE AgsCli!Install \/ AgsCli!ApiChanges
  BY <1>1 DEF AgsCli!Install, AgsCli!ApiChanges, AgsCli!ExitTellsState
<1>2. CASE AgsCli!Capture
  BY <1>2 DEF AgsCli!Capture, AgsCli!End, AgsCli!Goto, AgsCli!NoRun, AgsCli!ExitTellsState
<1>3. CASE AgsCli!Load
  BY <1>3 DEF AgsCli!Load, AgsCli!End, AgsCli!Goto, AgsCli!NoRun, AgsCli!ExitTellsState
<1>4. CASE AgsCli!Heal
  BY <1>4 DEF AgsCli!Heal, AgsCli!Patched, AgsCli!Dist, AgsCli!End, AgsCli!Goto, AgsCli!NoRun, AgsCli!ExitTellsState
<1>5. CASE AgsCli!Replay
  BY <1>5 DEF AgsCli!Replay, AgsCli!Holds, AgsCli!End, AgsCli!NoRun, AgsCli!ExitTellsState
<1>6. ASSUME NEW cmd \in {"patch", "strict", "warn", "refresh"}, AgsCli!Start(cmd) PROVE AgsInv'
  BY <1>6 DEF AgsCli!Start, AgsCli!ExitTellsState
<1>. QED  BY <1>1, <1>2, <1>3, <1>4, <1>5, <1>6 DEF AgsCli!Next

\* A path that is in neither tree passes.
LEMMA MissingPasses ==
  ASSUME StagedTypes, NEW p \in Staged!Path, head[p] = Staged!Missing
  PROVE  Staged!Whole(p, head)
BY DEF Staged!Whole, Staged!Passes

\* The verifier, and what is staged and committed beside it, keeps it; and a commit
\* the hook let through is one it had read.
LEMMA StagedKeeps ==
  ASSUME StagedInv, Staged!Next
  PROVE  /\ StagedInv'
         /\ (check.mode = "staged" /\ head' # head /\ ~check.disturbed) =>
              \A p \in Staged!Path : Staged!Whole(p, head)' \/ head'[p] = head[p]
<1>1. ASSUME NEW p \in Staged!Path, Staged!Edit(p)
      PROVE  StagedInv' /\ head' = head
  <2>1. UNCHANGED <<type, head, index, check>>
    BY <1>1 DEF Staged!Edit
  <2>. QED  BY <2>1 DEF StagedInv, StagedTypes, Staged!Whole, Staged!Passes, Staged!Resolves
<1>2. ASSUME NEW p \in Staged!Path, Staged!Stage(p)
      PROVE  StagedInv' /\ head' = head
  <2>a. PICK blob \in Staged!Blob(p) : index' = [index EXCEPT ![p] = blob]
    BY <1>2 DEF Staged!Stage
  <2>0. blob \in Blobs
    <3>1. Staged!Blob(p) \in {{"none", "broken", "plain", "imports-module", "imports-package"}, {"none", "plain"},
                              {"none", "broken", "plain", "declares-package"}}
      BY DEF Staged!Blob, Staged!Missing, Staged!Path
    <3>2. blob \in {"none", "broken", "plain", "imports-module", "imports-package", "declares-package"}
      BY <2>a, <3>1
    <3>. QED  BY <3>2 DEF Blobs
  <2>1. head' = head /\ index' \in [Staged!Path -> Blobs]
    BY <1>2, <2>a, <2>0 DEF Staged!Stage, StagedInv, StagedTypes
  <2>2. PICK b \in BOOLEAN : check' = [check EXCEPT !.disturbed = b] /\ b = (check.mode # "none")
    BY <1>2 DEF Staged!Stage
  <2>3. check'.mode \in {"all", "staged"} => check'.disturbed
    BY <2>2 DEF StagedInv, StagedTypes
  <2>4. StagedTypes'
    BY <2>1, <2>2 DEF StagedInv, StagedTypes
  <2>. QED  BY <2>1, <2>3, <2>4 DEF StagedInv
<1>3. ASSUME NEW p \in Staged!Path, Staged!CheckFile(p)
      PROVE  StagedInv' /\ head' = head
  <2>. DEFINE fails == ~Staged!Passes(p, Staged!ReadSource(p), index)
  <2>1. PICK b \in BOOLEAN : /\ check' = [check EXCEPT !.todo = @ \ {p}, !.failed = b]
                             /\ b = (check.failed \/ fails)
    BY <1>3 DEF Staged!CheckFile
  <2>2. p \in check.todo /\ UNCHANGED <<type, head, index>>
    BY <1>3 DEF Staged!CheckFile
  <2>3. check.mode = "all" /\ index = head => (fails <=> ~Staged!Whole(p, head))
    BY DEF Staged!ReadSource, Staged!Whole
  <2>4. check.mode = "staged" => (fails <=> ~Staged!Whole(p, index))
    BY DEF Staged!ReadSource, Staged!Whole
  <2>5. \A q \in Staged!Path : /\ Staged!Whole(q, head)' = Staged!Whole(q, head)
                               /\ Staged!Whole(q, index)' = Staged!Whole(q, index)
    BY <2>2 DEF Staged!Whole, Staged!Passes, Staged!Resolves
  <2>. HIDE DEF fails
  <2>6. /\ check'.mode = check.mode /\ check'.disturbed = check.disturbed
        /\ check'.failed = b /\ check'.todo = check.todo \ {p}
    BY <2>1 DEF StagedInv, StagedTypes
  <2>7. StagedTypes'
    BY <2>1, <2>2 DEF StagedInv, StagedTypes
  <2>8. Staged!Path \ check'.todo = (Staged!Path \ check.todo) \cup {p}
    BY <2>2, <2>6 DEF StagedInv, StagedTypes
  <2>. QED  BY <2>1, <2>2, <2>3, <2>4, <2>5, <2>6, <2>7, <2>8 DEF StagedInv
<1>4. CASE Staged!InstallHook
  <2>1. UNCHANGED <<type, head, index, check>>
    BY <1>4 DEF Staged!InstallHook
  <2>. QED  BY <2>1 DEF StagedInv, StagedTypes, Staged!Whole, Staged!Passes, Staged!Resolves
<1>5. CASE Staged!StartCommit
  <2>1. UNCHANGED <<type, head, index>> /\ check' = Staged!CheckInit("staged", Staged!Staged)
    BY <1>5 DEF Staged!StartCommit
  <2>2. \A p \in Staged!Path \ Staged!Staged : index[p] = head[p]
    BY DEF Staged!Staged
  <2>3. StagedTypes'
    BY <2>1 DEF StagedInv, StagedTypes, Staged!CheckInit, Staged!Staged
  <2>. QED  BY <2>1, <2>2, <2>3 DEF StagedInv, Staged!CheckInit
<1>6. CASE Staged!CommitUnverified
  <2>1. check.mode = "none" /\ check' = check /\ head' = index /\ index' = index
    BY <1>6 DEF Staged!CommitUnverified
  <2>. QED  BY <2>1 DEF StagedInv, StagedTypes
<1>7. CASE Staged!StartAll
  <2>1. /\ UNCHANGED <<type, head, index>> /\ index = head
        /\ check' = Staged!CheckInit("all", {p \in Staged!Path : index[p] # Staged!Missing})
    BY <1>7 DEF Staged!StartAll
  <2>2. \A p \in Staged!Path : index[p] = Staged!Missing => Staged!Whole(p, head)'
    BY <2>1, MissingPasses DEF StagedInv, Staged!Whole, Staged!Passes, Staged!Resolves
  <2>3. StagedTypes'
    BY <2>1 DEF StagedInv, StagedTypes, Staged!CheckInit
  <2>. QED  BY <2>1, <2>2, <2>3 DEF StagedInv, Staged!CheckInit
<1>8. CASE Staged!StartOfCommit
  <2>1. PICK files \in SUBSET Staged!Path : check' = Staged!CheckInit("commit", files)
    BY <1>8 DEF Staged!StartOfCommit
  <2>2. UNCHANGED <<head, index>>
    BY <1>8 DEF Staged!StartOfCommit
  <2>. QED  BY <2>1, <2>2 DEF StagedInv, StagedTypes, Staged!CheckInit
<1>9. CASE Staged!EndCheck
  <2>1. check.todo = {} /\ check' = Staged!NoCheck /\ UNCHANGED <<type, index>>
    BY <1>9 DEF Staged!EndCheck
  <2>2. head' = head \/ (check.mode = "staged" /\ ~check.failed /\ head' = index)
    BY <1>9 DEF Staged!EndCheck
  <2>3. StagedInv'
    BY <2>1, <2>2 DEF StagedInv, StagedTypes, Staged!NoCheck
  <2>4. ASSUME check.mode = "staged", head' # head, ~check.disturbed, NEW p \in Staged!Path
        PROVE  Staged!Whole(p, head)' \/ head'[p] = head[p]
    <3>1. index[p] = head[p] \/ Staged!Whole(p, index)
      BY <2>1, <2>2, <2>4 DEF StagedInv
    <3>. QED  BY <2>1, <2>2, <2>4, <3>1 DEF Staged!Whole, Staged!Passes, Staged!Resolves
  <2>. QED  BY <2>3, <2>4
<1>. QED  BY <1>1, <1>2, <1>3, <1>4, <1>5, <1>6, <1>7, <1>8, <1>9 DEF Staged!Next

---------------------------------------------------------------------------
(* The file trees and the web server.                                       *)

\* A tree of files as the disk, the manifest or a run of a tool has it.
Trees == UNION {[S -> Assets!Version] : S \in SUBSET File}

\* A tree is one of some files, and none is no tree.
LEMMA TreeIs ==
  /\ \A t \in Trees : DOMAIN t \subseteq File /\ t # NoTree /\ Assets!Files(t) = DOMAIN t
                      /\ \A f \in DOMAIN t : t[f] \in Assets!Version
  /\ Assets!Files(NoTree) = {} /\ Assets!Empty \in Trees /\ DOMAIN Assets!Empty = {}
  /\ Assets!Version \subseteq Nat /\ {0, 1} \subseteq Assets!Version /\ Assets!Archive \in File
<1>. USE AssetsAssumption
<1>1. \A t \in Trees : DOMAIN t \subseteq File /\ \A f \in DOMAIN t : t[f] \in Assets!Version
  BY DEF Trees
<1>2. \A t \in Trees : t # NoTree /\ Assets!Files(t) = DOMAIN t
  BY DEF Trees, Assets!Files, Assets!Version
<1>3. Assets!Files(NoTree) = {}
  BY DEF Assets!Files
<1>4. Assets!Empty \in [{} -> Assets!Version] /\ DOMAIN Assets!Empty = {}
  BY DEF Assets!Empty
<1>5. Assets!Version \subseteq Nat /\ {0, 1} \subseteq Assets!Version
  BY DEF Assets!Version
<1>6. Assets!Archive \in File
  BY DEF Assets!Archive
<1>7. {} \in SUBSET File
  OBVIOUS
<1>. QED  BY <1>1, <1>2, <1>3, <1>4, <1>5, <1>6, <1>7 DEF Trees

\* Put writes one file and leaves the others.
LEMMA PutIs ==
  ASSUME NEW t \in Trees \cup {NoTree}, NEW f \in File, NEW v \in Assets!Version
  PROVE  /\ Assets!Put(t, f, v) \in Trees
         /\ DOMAIN Assets!Put(t, f, v) = Assets!Files(t) \cup {f}
         /\ Assets!Put(t, f, v)[f] = v
         /\ \A g \in Assets!Files(t) \ {f} : Assets!Put(t, f, v)[g] = t[g]
<1>. DEFINE S == Assets!Files(t) \cup {f}
<1>1. S \in SUBSET File /\ \A g \in Assets!Files(t) : t[g] \in Assets!Version
  BY TreeIs
<1>2. Assets!Put(t, f, v) = [g \in S |-> IF g = f THEN v ELSE t[g]]
  BY DEF Assets!Put
<1>3. Assets!Put(t, f, v) \in [S -> Assets!Version]
  BY <1>1, <1>2
<1>. QED  BY <1>1, <1>2, <1>3 DEF Trees

\* A tree in which a file was put is a tree, with that file of that version.
LEMMA PutIn ==
  ASSUME NEW t \in Trees, NEW f \in File, NEW v \in Assets!Version
  PROVE  /\ Assets!Put(t, f, v) \in Trees
         /\ DOMAIN Assets!Put(t, f, v) = DOMAIN t \cup {f}
         /\ Assets!Put(t, f, v)[f] = v
         /\ \A g \in DOMAIN t \ {f} : Assets!Put(t, f, v)[g] = t[g]
<1>1. t \in Trees \cup {NoTree} /\ Assets!Files(t) = DOMAIN t
  BY TreeIs
<1>2. /\ Assets!Put(t, f, v) \in Trees
      /\ DOMAIN Assets!Put(t, f, v) = Assets!Files(t) \cup {f}
      /\ Assets!Put(t, f, v)[f] = v
      /\ \A g \in Assets!Files(t) \ {f} : Assets!Put(t, f, v)[g] = t[g]
  BY <1>1, PutIs
<1>. QED  BY <1>1, <1>2

\* Restrict keeps what it is told to.
LEMMA RestrictIs ==
  ASSUME NEW t \in Trees \cup {NoTree}, NEW S \in SUBSET Assets!Files(t)
  PROVE  /\ Assets!Restrict(t, S) \in Trees /\ DOMAIN Assets!Restrict(t, S) = S
         /\ \A g \in S : Assets!Restrict(t, S)[g] = t[g]
<1>1. S \in SUBSET File /\ \A g \in S : t[g] \in Assets!Version
  BY TreeIs
<1>2. Assets!Restrict(t, S) = [g \in S |-> t[g]]
  BY DEF Assets!Restrict
<1>3. Assets!Restrict(t, S) \in [S -> Assets!Version]
  BY <1>1, <1>2
<1>. QED  BY <1>1, <1>2, <1>3 DEF Trees

AssetTypes ==
  /\ kind \in Assets!Kind
  /\ {upstream, sourcePins, copied} \subseteq Trees /\ {out, pins} \subseteq Trees \cup {NoTree}
  /\ run \in [pc : {"idle", "read", "copy", "source", "swap", "pin"}, update : BOOLEAN, todo : SUBSET File,
              got : Trees, old : Trees \cup {NoTree}, file : File, sha : Trees, source : Trees, edited : BOOLEAN]
  /\ run.pc = "idle" => DOMAIN run.got = {} /\ DOMAIN run.sha = {}

\* What a file holds, or held before the swap under way.
Holds(f) == {v \in Assets!Version : Assets!Has(out, f, v) \/ (run.pc = "swap" /\ Assets!Has(run.old, f, v))}

\* What the server has cached, or is about to, is noted as the file's only while it
\* is; and a request has seen what its file held since it came.
CacheInv == cache \in [File -> [current : BOOLEAN, body : Assets!Version]]
            /\ \A f \in File : cache[f].current => Holds(f) \subseteq {cache[f].body}
Requests == [pc : {"free", "stat", "read", "store", "done"}, file : File, current : BOOLEAN,
             body : Assets!Version, since : SUBSET Assets!Version]
Sees(r) ==
  /\ (req[r].pc = "store" /\ req[r].current) => Holds(req[r].file) \subseteq {req[r].body}
  /\ (req[r].pc \in {"stat", "read", "store"} /\ req[r].file \in Assets!Files(out)) => out[req[r].file] \in req[r].since
  /\ req[r].pc \in {"store", "done"} => req[r].body \in req[r].since
ReqInv == req \in [Request -> Requests] /\ \A r \in Request : Sees(r)
ServeInv == (run.pc = "swap" => out = NoTree) /\ CacheInv /\ ReqInv

\* Whoever writes files clears their notes.
LEMMA WrittenKeeps ==
  ASSUME AssetTypes, ServeInv, NEW W, Assets!Written(W), out' \in Trees \cup {NoTree},
         run'.pc = "swap" => out' = NoTree,
         \A f \in File \ W : Holds(f)' \subseteq Holds(f)
  PROVE  ServeInv'
<1>1. CacheInv'
  <2>1. cache' = [f \in File |-> [cache[f] EXCEPT !.current = @ /\ f \notin W]]
    BY DEF Assets!Written
  <2>2. ASSUME NEW f \in File
        PROVE  /\ cache'[f] \in [current : BOOLEAN, body : Assets!Version]
               /\ cache'[f].current => Holds(f)' \subseteq {cache'[f].body}
    <3>1. PICK b \in BOOLEAN : cache'[f] = [cache[f] EXCEPT !.current = b] /\ b = (cache[f].current /\ f \notin W)
      BY <2>1, <2>2
    <3>2. cache[f] \in [current : BOOLEAN, body : Assets!Version]
      BY DEF ServeInv, CacheInv
    <3>3. cache'[f].current = b /\ cache'[f].body = cache[f].body /\ cache'[f] \in [current : BOOLEAN, body : Assets!Version]
      BY <3>1, <3>2
    <3>4. CASE b
      <4>1. cache[f].current /\ f \notin W
        BY <3>1, <3>4
      <4>. QED  BY <3>3, <4>1 DEF ServeInv, CacheInv
    <3>. QED  BY <3>3, <3>4
  <2>. QED  BY <2>1, <2>2 DEF CacheInv
<1>2. ReqInv'
  <2>. DEFINE New(r) == {out'[f] : f \in Assets!Files(out') \cap {req[r].file}}
  <2>1. req' = [r \in Request |-> IF req[r].pc \in {"free", "done"} THEN req[r] ELSE
                  [req[r] EXCEPT !.since = @ \cup New(r), !.current = @ /\ req[r].file \notin W]]
    BY DEF Assets!Written
  <2>2. \A r \in Request : New(r) \subseteq Assets!Version
    BY TreeIs
  <2>3. \A r \in Request : req[r].file \in Assets!Files(out') => out'[req[r].file] \in New(r)
    OBVIOUS
  <2>. HIDE DEF New
  <2>4. ASSUME NEW r \in Request
        PROVE  req'[r] \in Requests /\ Sees(r)'
    <3>1. req[r] \in Requests /\ Sees(r)
      BY DEF ServeInv, ReqInv
    <3>2. CASE req[r].pc \in {"free", "done"}
      <4>1. req'[r] = req[r]
        BY <2>1, <3>2
      <4>. QED  BY <3>1, <3>2, <4>1 DEF Sees
    <3>3. CASE req[r].pc \notin {"free", "done"}
      <4>1. req'[r] = [req[r] EXCEPT !.since = @ \cup New(r), !.current = @ /\ req[r].file \notin W]
        BY <2>1, <3>3
      <4>. DEFINE b == req[r].current /\ req[r].file \notin W
      <4>2. b \in BOOLEAN /\ (b => req[r].current /\ req[r].file \notin W)
        OBVIOUS
      <4>3. req'[r] = [req[r] EXCEPT !.since = @ \cup New(r), !.current = b]
        BY <4>1
      <4>. HIDE DEF b
      <4>4. /\ req'[r] \in Requests /\ req'[r].pc = req[r].pc /\ req'[r].file = req[r].file /\ req'[r].body = req[r].body
            /\ req'[r].current = b /\ req'[r].since = req[r].since \cup New(r)
        BY <2>2, <3>1, <4>2, <4>3 DEF Requests
      <4>5. (req[r].pc = "store" /\ b) => Holds(req[r].file)' \subseteq {req[r].body}
        <5>1. PICK f \in File : f = req[r].file /\ f = req'[r].file
          BY <3>1, <4>4 DEF Requests
        <5>2. Holds(f) = Holds(req[r].file) /\ Holds(f)' = Holds(req[r].file)'
          BY <5>1 DEF Holds, Assets!Has
        <5>3. (req[r].pc = "store" /\ b) => f \notin W /\ Holds(f) \subseteq {req[r].body}
          BY <3>1, <4>2, <5>1, <5>2 DEF Sees
        <5>. QED  BY <5>2, <5>3
      <4>6. Assets!Files(out)' = Assets!Files(out')
        BY DEF Assets!Files
      <4>. QED  BY <2>3, <3>1, <4>4, <4>5, <4>6 DEF Sees
    <3>. QED  BY <3>2, <3>3
  <2>. QED  BY <2>1, <2>4 DEF ReqInv
<1>. QED  BY <1>1, <1>2 DEF ServeInv

\* The copies of a source only get newer: the pins are of versions before what was
\* copied, and what was copied is of before what is there now.
CopyInv == kind \in {"vendor", "aegis"} =>
  /\ run.pc \in {"idle", "read", "copy", "source"}
  /\ \A f \in DOMAIN upstream : upstream[f] # 0
  /\ pins # NoTree => \A f \in DOMAIN pins : f \in DOMAIN copied /\ pins[f] # 0 /\ pins[f] <= copied[f]
  /\ \A f \in DOMAIN copied : f \in Assets!Files(out) /\ (out[f] = 0 \/ copied[f] <= out[f])
  /\ \A f \in DOMAIN copied \cap DOMAIN upstream : copied[f] <= upstream[f]
  /\ \A f \in Assets!Files(out) \cap DOMAIN upstream : out[f] <= upstream[f]
  /\ \A f \in DOMAIN run.got : Assets!Has(out, f, run.got[f]) /\ run.got[f] # 0

\* A run of vendor-aegis: the hash was read before the copy and the third read after
\* it, and as long as the source is left alone they are all the same.
Hashed(f) ==
  /\ run.sha[f] # 0
  /\ f \in DOMAIN upstream => run.sha[f] <= upstream[f]
  /\ (run.pc = "copy" /\ f = run.file) \/ (f \in DOMAIN run.got /\ run.sha[f] <= run.got[f])
  /\ ~run.edited =>
       /\ f \in DOMAIN upstream /\ upstream[f] = run.sha[f]
       /\ (run.pc \in {"copy", "source"} /\ f = run.file) \/ (f \in DOMAIN run.source /\ run.source[f] = run.sha[f])
RunInv == kind = "aegis" =>
  /\ run.pc = "copy" => run.file \in DOMAIN run.sha
  /\ \A f \in DOMAIN run.sha : Hashed(f)
  /\ (pins # NoTree /\ ~edited) => \A f \in DOMAIN pins : f \in DOMAIN sourcePins /\ sourcePins[f] = pins[f]

\* A staged set is verified against the pins, file by file.
StageInv == kind \in {"fonts", "age"} =>
  /\ run.pc \in {"idle", "read", "swap", "pin"}
  /\ run.pc = "swap" => run.todo = {}
  /\ (kind = "fonts" /\ ~run.update /\ run.pc # "pin") => \A f \in DOMAIN run.got : Assets!Has(pins, f, run.got[f])
  /\ kind = "age" =>
       /\ pins # NoTree /\ Assets!Archive \in DOMAIN pins
       /\ run.pc = "swap" => run.old = NoTree
       /\ run.pc # "idle" => DOMAIN run.got = File \ run.todo /\ (Assets!Archive \in run.todo => run.todo = File)
       /\ \A f \in DOMAIN run.got : run.got[f] = pins[Assets!Archive]

AssetsInv == AssetTypes /\ ServeInv /\ CopyInv /\ RunInv /\ StageInv

\* A file on the disk is left alone by what does not move it.
LEMMA HoldsSame ==
  ASSUME out' = out, run'.pc = "swap" => run.pc = "swap" /\ run'.old = run.old
  PROVE  \A f : Holds(f)' \subseteq Holds(f)
BY DEF Holds, Assets!Has

\* A run that ends, by itself or not, leaves nothing to keep.
LEMMA RunEnds ==
  ASSUME AssetsInv, UNCHANGED <<kind, upstream, pins, sourcePins, copied, edited, out>>,
         NEW W, Assets!Written(W), run' = Assets!Idle
  PROVE  AssetsInv'
<1>1. AssetTypes'
  BY TreeIs DEF AssetsInv, AssetTypes, Assets!Idle
<1>2. ServeInv'
  BY HoldsSame, WrittenKeeps DEF AssetsInv, AssetTypes, ServeInv, Assets!Idle
<1>3. CopyInv' /\ RunInv' /\ StageInv'
  BY TreeIs DEF AssetsInv, CopyInv, RunInv, Hashed, StageInv, Assets!Idle, Assets!Has
<1>. QED  BY <1>1, <1>2, <1>3 DEF AssetsInv

\* The world beside the tools.
LEMMA WorldKeeps ==
  ASSUME AssetsInv, Assets!World
  PROVE  AssetsInv'
<1>1. ASSUME NEW f \in File, Assets!Publish(f) PROVE AssetsInv'
  <2>1. /\ UNCHANGED <<kind, out, pins, sourcePins, copied, edited>> /\ Assets!Written({})
        /\ f \in DOMAIN upstream /\ upstream[f] < MaxVersion /\ upstream' = [upstream EXCEPT ![f] = @ + 1]
    BY <1>1 DEF Assets!Publish
  <2>. DEFINE b == run.pc # "idle"
  <2>2. b \in BOOLEAN /\ (~b => run.pc = "idle") /\ run' = [run EXCEPT !.edited = b]
    BY <1>1 DEF Assets!Publish
  <2>. HIDE DEF b
  <2>3. /\ run'.pc = run.pc /\ run'.update = run.update /\ run'.todo = run.todo /\ run'.got = run.got
        /\ run'.old = run.old /\ run'.file = run.file /\ run'.sha = run.sha /\ run'.source = run.source /\ run'.edited = b
    BY <2>2 DEF AssetsInv, AssetTypes
  <2>4. upstream' \in Trees /\ DOMAIN upstream' = DOMAIN upstream
        /\ \A g \in DOMAIN upstream : upstream[g] <= upstream'[g] /\ (upstream[g] # 0 => upstream'[g] # 0)
    <3>1. PICK S \in SUBSET File : upstream \in [S -> Assets!Version]
      BY DEF AssetsInv, AssetTypes, Trees
    <3>2. upstream'[f] = upstream[f] + 1 /\ upstream'[f] \in Assets!Version
      BY <2>1, <3>1, AssetsAssumption DEF Assets!Version
    <3>3. upstream' \in [S -> Assets!Version]
      BY <2>1, <3>1, <3>2
    <3>. QED  BY <2>1, <3>1, <3>2, <3>3, TreeIs DEF Trees, Assets!Version
  <2>5. AssetTypes'
    BY <2>1, <2>2, <2>3, <2>4 DEF AssetsInv, AssetTypes
  <2>6. ServeInv'
    BY <2>1, <2>3, HoldsSame, WrittenKeeps DEF AssetsInv, AssetTypes, ServeInv
  <2>7. CopyInv'
    BY <2>1, <2>3, <2>4, TreeIs DEF AssetsInv, AssetTypes, CopyInv, Assets!Has
  <2>8. RunInv'
    BY <2>1, <2>2, <2>3, <2>4, TreeIs DEF AssetsInv, AssetTypes, RunInv, Hashed
  <2>9. StageInv'
    BY <2>1, <2>3 DEF AssetsInv, StageInv, Assets!Has
  <2>. QED  BY <2>5, <2>6, <2>7, <2>8, <2>9 DEF AssetsInv
<1>2. ASSUME NEW f \in File, Assets!Withdraw(f) PROVE AssetsInv'
  <2>1. /\ UNCHANGED <<kind, out, pins, sourcePins, copied, edited>> /\ Assets!Written({})
        /\ upstream' = Assets!Restrict(upstream, DOMAIN upstream \ {f})
    BY <1>2 DEF Assets!Withdraw
  <2>. DEFINE b == run.pc # "idle"
  <2>2. b \in BOOLEAN /\ (~b => run.pc = "idle") /\ run' = [run EXCEPT !.edited = b]
    BY <1>2 DEF Assets!Withdraw
  <2>. HIDE DEF b
  <2>3. /\ run'.pc = run.pc /\ run'.update = run.update /\ run'.todo = run.todo /\ run'.got = run.got
        /\ run'.old = run.old /\ run'.file = run.file /\ run'.sha = run.sha /\ run'.source = run.source /\ run'.edited = b
    BY <2>2 DEF AssetsInv, AssetTypes
  <2>4. upstream' \in Trees /\ DOMAIN upstream' \subseteq DOMAIN upstream /\ \A g \in DOMAIN upstream' : upstream'[g] = upstream[g]
    BY <2>1, TreeIs, RestrictIs DEF AssetsInv, AssetTypes
  <2>5. AssetTypes'
    BY <2>1, <2>2, <2>3, <2>4 DEF AssetsInv, AssetTypes
  <2>6. ServeInv'
    BY <2>1, <2>3, HoldsSame, WrittenKeeps DEF AssetsInv, AssetTypes, ServeInv
  <2>7. CopyInv'
    BY <2>1, <2>3, <2>4 DEF AssetsInv, CopyInv, Assets!Has
  <2>8. RunInv'
    BY <2>1, <2>2, <2>3, <2>4 DEF AssetsInv, AssetTypes, RunInv, Hashed
  <2>9. StageInv'
    BY <2>1, <2>3 DEF AssetsInv, StageInv, Assets!Has
  <2>. QED  BY <2>5, <2>6, <2>7, <2>8, <2>9 DEF AssetsInv
<1>3. ASSUME NEW f \in File, Assets!Damage(f) PROVE AssetsInv'
  <2>1. /\ UNCHANGED <<kind, upstream, pins, sourcePins, copied, edited, run>> /\ Assets!Written({f})
        /\ f \in Assets!Files(out) /\ run.pc = "idle" /\ out' = [out EXCEPT ![f] = 0]
    BY <1>3 DEF Assets!Damage, Assets!RunOnly
  <2>2. /\ out \in Trees /\ out' \in Trees /\ Assets!Files(out') = Assets!Files(out) /\ out'[f] = 0
        /\ \A g \in Assets!Files(out) \ {f} : out'[g] = out[g]
    <3>1. out \in Trees
      BY <2>1, TreeIs DEF AssetsInv, AssetTypes
    <3>2. PICK S \in SUBSET File : out \in [S -> Assets!Version]
      BY <3>1 DEF Trees
    <3>3. out' \in [S -> Assets!Version]
      BY <2>1, <3>2, TreeIs
    <3>4. out' \in Trees
      BY <3>3 DEF Trees
    <3>. QED  BY <2>1, <3>1, <3>2, <3>3, <3>4, TreeIs
  <2>3. AssetTypes'
    BY <2>1, <2>2 DEF AssetsInv, AssetTypes
  <2>4. \A g \in File \ {f} : Holds(g)' \subseteq Holds(g)
    BY <2>1, <2>2 DEF Holds, Assets!Has
  <2>5. ServeInv'
    BY <2>1, <2>2, <2>4, WrittenKeeps DEF AssetsInv
  <2>6. CopyInv'
    <3>1. ASSUME NEW g \in Assets!Files(out), g \in DOMAIN upstream, CopyInv, kind \in {"vendor", "aegis"}
          PROVE  out'[g] <= upstream[g]
      <4>1. upstream[g] \in Nat
        BY <3>1, TreeIs DEF AssetsInv, AssetTypes
      <4>. QED  BY <2>1, <2>2, <3>1, <4>1 DEF CopyInv
    <3>2. \A g \in Assets!Files(out) : out'[g] = 0 \/ out'[g] = out[g]
      BY <2>2
    <3>3. DOMAIN run'.got = {}
      BY <2>1 DEF AssetsInv, AssetTypes
    <3>. QED  BY <2>1, <2>2, <3>1, <3>2, <3>3 DEF AssetsInv, CopyInv
  <2>7. RunInv' /\ StageInv'
    BY <2>1 DEF AssetsInv, RunInv, Hashed, StageInv, Assets!Has
  <2>. QED  BY <2>3, <2>5, <2>6, <2>7 DEF AssetsInv
<1>4. CASE Assets!Kill
  <2>1. UNCHANGED <<kind, upstream, pins, sourcePins, copied, edited, out>> /\ Assets!Written({}) /\ run' = Assets!Idle
    BY <1>4 DEF Assets!Kill, Assets!RunOnly
  <2>. QED  BY <2>1, RunEnds
<1>. QED  BY <1>1, <1>2, <1>3, <1>4 DEF Assets!World

\* A set of fonts or of binaries is staged whole and then put in its place.
LEMMA StageKeeps ==
  ASSUME AssetsInv, NEW f \in File, Assets!Stage(f)
  PROVE  AssetsInv' /\ out' = out
<1>. DEFINE v == IF kind = "age" /\ f # Assets!Archive THEN run.got[Assets!Archive]
                 ELSE IF f \in DOMAIN upstream THEN upstream[f] ELSE 0
<1>1. /\ UNCHANGED <<kind, upstream, pins, sourcePins, copied, edited, out>> /\ Assets!Written({})
      /\ run.pc = "read" /\ kind \in {"fonts", "age"} /\ f \in run.todo
      /\ kind = "age" => (f = Assets!Archive <=> Assets!Archive \in run.todo)
  <2>1. kind = "age" => (f = Assets!Archive <=> Assets!Archive \in run.todo)
    BY DEF Assets!Stage
  <2>2. run.pc = "read" /\ kind \in {"fonts", "age"} /\ f \in run.todo /\ out' = out /\ Assets!RunOnly({})
    BY DEF Assets!Stage
  <2>. QED  BY <2>1, <2>2 DEF Assets!RunOnly
<1>2. \/ v # 0 /\ Assets!Verified(f, v) /\ run' = [run EXCEPT !.todo = @ \ {f}, !.got = Assets!Put(@, f, v)]
      \/ run' = Assets!Idle
  BY DEF Assets!Stage
<1>3. kind = "age" => /\ DOMAIN run.got = File \ run.todo /\ (Assets!Archive \in run.todo => run.todo = File)
                      /\ \A g \in DOMAIN run.got : run.got[g] = pins[Assets!Archive]
  BY <1>1 DEF AssetsInv, StageInv
<1>4. /\ v \in Assets!Version
      /\ (kind = "age" /\ f # Assets!Archive) => v = pins[Assets!Archive]
  BY <1>1, <1>3, TreeIs DEF AssetsInv, AssetTypes
<1>. HIDE DEF v
<1>5. CASE run' = Assets!Idle
  BY <1>1, <1>5, RunEnds
<1>6. CASE v # 0 /\ Assets!Verified(f, v) /\ run' = [run EXCEPT !.todo = @ \ {f}, !.got = Assets!Put(@, f, v)]
  <2>1. /\ run'.pc = run.pc /\ run'.update = run.update /\ run'.todo = run.todo \ {f}
        /\ run'.got = Assets!Put(run.got, f, v) /\ run'.old = run.old
    BY <1>6 DEF AssetsInv, AssetTypes
  <2>2. /\ run'.got \in Trees /\ DOMAIN run'.got = DOMAIN run.got \cup {f} /\ run'.got[f] = v
        /\ \A g \in DOMAIN run.got \ {f} : run'.got[g] = run.got[g]
    <3>1. run.got \in Trees /\ Assets!Files(run.got) = DOMAIN run.got
      BY TreeIs DEF AssetsInv, AssetTypes
    <3>2. /\ Assets!Put(run.got, f, v) \in Trees
          /\ DOMAIN Assets!Put(run.got, f, v) = Assets!Files(run.got) \cup {f}
          /\ Assets!Put(run.got, f, v)[f] = v
          /\ \A g \in Assets!Files(run.got) \ {f} : Assets!Put(run.got, f, v)[g] = run.got[g]
      BY <1>4, <3>1, PutIs
    <3>. QED  BY <2>1, <3>1, <3>2
  <2>3. AssetTypes'
    BY <1>1, <1>6, <2>1, <2>2 DEF AssetsInv, AssetTypes
  <2>4. ServeInv'
    BY <1>1, <2>1, HoldsSame, WrittenKeeps DEF AssetsInv, AssetTypes, ServeInv
  <2>5. CopyInv' /\ RunInv'
    BY <1>1 DEF CopyInv, RunInv
  <2>6. CASE kind = "fonts"
    <3>1. run.update \/ Assets!Has(pins, f, v)
      BY <1>6, <2>6 DEF Assets!Verified
    <3>2. StageInv'
      BY <1>1, <2>1, <2>2, <2>6, <3>1 DEF AssetsInv, StageInv, Assets!Has
    <3>. QED  BY <1>1, <2>3, <2>4, <2>5, <3>2 DEF AssetsInv
  <2>7. CASE kind = "age"
    <3>1. v = pins[Assets!Archive]
      BY <1>4, <1>6, <2>7 DEF Assets!Verified, Assets!Has
    <3>2. DOMAIN run'.got = File \ run'.todo /\ Assets!Archive \notin run'.todo
      BY <1>1, <1>3, <2>1, <2>2, <2>7, TreeIs DEF AssetsInv, AssetTypes
    <3>3. StageInv'
      BY <1>1, <1>3, <2>1, <2>2, <2>7, <3>1, <3>2 DEF AssetsInv, StageInv
    <3>. QED  BY <1>1, <2>3, <2>4, <2>5, <3>3 DEF AssetsInv
  <2>. QED  BY <1>1, <2>6, <2>7
<1>. QED  BY <1>1, <1>2, <1>5, <1>6

\* A set that is staged whole is one that was verified.
LEMMA StagedGenuine ==
  ASSUME AssetsInv, kind \in {"fonts", "age"}, run.pc \in {"read", "swap"}, run.todo = {}
  PROVE  Assets!Genuine(run.got)
BY TreeIs DEF AssetsInv, AssetTypes, StageInv, Assets!Genuine, Assets!Has

\* The files of the old age cache go, one by one.
LEMMA RemoveOldKeeps ==
  ASSUME AssetsInv, NEW f \in File, Assets!RemoveOld(f)
  PROVE  AssetsInv' /\ Assets!SwapStep
<1>1. /\ UNCHANGED <<kind, upstream, pins, sourcePins, copied, edited>> /\ Assets!Written({f})
      /\ run.pc = "read" /\ kind = "age" /\ run.todo = {} /\ f \in Assets!Files(out)
  BY DEF Assets!RemoveOld, Assets!RunOnly
<1>2. CASE run' = Assets!Idle /\ UNCHANGED out
  BY <1>1, <1>2, RunEnds DEF Assets!SwapStep
<1>3. CASE out' = Assets!Restrict(out, Assets!Files(out) \ {f}) /\ UNCHANGED run
  <2>1. /\ out' \in Trees /\ Assets!Files(out') = Assets!Files(out) \ {f}
        /\ \A g \in Assets!Files(out') : out'[g] = out[g]
    BY <1>3, RestrictIs, TreeIs DEF AssetsInv, AssetTypes
  <2>2. AssetTypes'
    BY <1>1, <1>3, <2>1 DEF AssetsInv, AssetTypes
  <2>3. \A g : Holds(g)' \subseteq Holds(g)
    BY <1>1, <1>3, <2>1 DEF Holds, Assets!Has
  <2>4. ServeInv'
    BY <1>1, <1>3, <2>2, <2>3, WrittenKeeps DEF AssetsInv, AssetTypes
  <2>5. CopyInv' /\ RunInv'
    BY <1>1 DEF CopyInv, RunInv
  <2>6. StageInv'
    BY <1>1, <1>3 DEF AssetsInv, StageInv, Assets!Has
  <2>7. Assets!SwapStep
    BY <1>1, <2>1, StagedGenuine DEF Assets!SwapStep, Assets!Has
  <2>. QED  BY <1>1, <2>2, <2>4, <2>5, <2>6, <2>7 DEF AssetsInv
<1>. QED  BY <1>2, <1>3 DEF Assets!RemoveOld

\* The old directory goes.
LEMMA MoveAsideKeeps ==
  ASSUME AssetsInv, Assets!MoveAside
  PROVE  AssetsInv' /\ Assets!SwapStep
<1>. DEFINE o == IF kind = "fonts" THEN out ELSE NoTree
<1>1. /\ UNCHANGED <<kind, upstream, pins, sourcePins, copied, edited>> /\ Assets!Written({})
      /\ run.pc = "read" /\ kind \in {"fonts", "age"} /\ run.todo = {} /\ out' = NoTree
      /\ run' = [run EXCEPT !.pc = "swap", !.old = o] /\ o \in {out, NoTree} /\ (kind = "age" => o = NoTree)
  BY DEF Assets!MoveAside, Assets!RunOnly
<1>. HIDE DEF o
<1>2. /\ run'.pc = "swap" /\ run'.update = run.update /\ run'.todo = run.todo /\ run'.got = run.got /\ run'.old = o
  BY <1>1 DEF AssetsInv, AssetTypes
<1>3. AssetTypes'
  BY <1>1 DEF AssetsInv, AssetTypes
<1>4. \A f : Holds(f)' \subseteq Holds(f)
  BY <1>1, <1>2, TreeIs DEF Holds, Assets!Has
<1>5. ServeInv'
  BY <1>1, <1>4, WrittenKeeps DEF AssetsInv
<1>6. CopyInv' /\ RunInv'
  BY <1>1 DEF CopyInv, RunInv
<1>7. StageInv'
  BY <1>1, <1>2 DEF AssetsInv, StageInv, Assets!Has
<1>8. Assets!SwapStep
  BY <1>1, StagedGenuine, TreeIs DEF Assets!SwapStep
<1>. QED  BY <1>1, <1>3, <1>5, <1>6, <1>7, <1>8 DEF AssetsInv

\* The staged one takes its place, all of it verified, or does not.
LEMMA MoveInKeeps ==
  ASSUME AssetsInv, Assets!MoveIn
  PROVE  AssetsInv' /\ Assets!SwapStep
<1>1. run.pc = "swap" /\ kind \in {"fonts", "age"} /\ UNCHANGED <<kind, upstream, pins, sourcePins, copied, edited>>
  BY DEF Assets!MoveIn, Assets!RunOnly, AssetsInv, AssetTypes, CopyInv, Assets!Kind
<1>2. CopyInv' /\ RunInv'
  BY <1>1 DEF CopyInv, RunInv
<1>3. CASE out' = run.got /\ run' = [run EXCEPT !.pc = "pin"] /\ Assets!Written(File)
  <2>1. /\ run'.pc = "pin" /\ run'.update = run.update /\ run'.todo = run.todo /\ run'.got = run.got
    BY <1>3 DEF AssetsInv, AssetTypes
  <2>2. AssetTypes'
    BY <1>1, <1>3 DEF AssetsInv, AssetTypes
  <2>3. ServeInv'
    BY <2>1, <2>2, <1>3, WrittenKeeps DEF AssetsInv, AssetTypes
  <2>4. StageInv'
    BY <1>1, <2>1 DEF AssetsInv, StageInv
  <2>5. Assets!SwapStep
    BY <1>1, <1>3, StagedGenuine DEF AssetsInv, StageInv, Assets!SwapStep
  <2>. QED  BY <1>2, <1>3, <2>2, <2>3, <2>4, <2>5 DEF AssetsInv
<1>4. CASE out' \in {run.old, NoTree} /\ run' = Assets!Idle /\ Assets!Written({})
  <2>1. AssetTypes'
    BY <1>1, <1>4, TreeIs DEF AssetsInv, AssetTypes, Assets!Idle
  <2>2. \A f : Holds(f)' \subseteq Holds(f)
    BY <1>1, <1>4, TreeIs DEF Holds, Assets!Has, Assets!Idle
  <2>3. ServeInv'
    BY <1>4, <2>1, <2>2, WrittenKeeps DEF AssetsInv, AssetTypes, Assets!Idle
  <2>4. StageInv'
    BY <1>1, <1>4, TreeIs DEF AssetsInv, StageInv, Assets!Idle
  <2>5. Assets!SwapStep
    <3>1. out = NoTree
      BY <1>1 DEF AssetsInv, ServeInv
    <3>. QED  BY <1>1, <1>4, <3>1, StagedGenuine, TreeIs DEF AssetsInv, StageInv, Assets!SwapStep
  <2>. QED  BY <1>2, <1>4, <2>1, <2>3, <2>4, <2>5 DEF AssetsInv
<1>. QED  BY <1>3, <1>4 DEF Assets!MoveIn, Assets!RunOnly

\* A run starts with nothing read.
LEMMA BeginKeeps ==
  ASSUME AssetsInv, NEW update \in BOOLEAN, Assets!Begin(update)
  PROVE  AssetsInv' /\ out' = out
<1>1. /\ UNCHANGED <<kind, upstream, pins, sourcePins, copied, edited, out>> /\ Assets!Written({})
      /\ run' = [Assets!Idle EXCEPT !.pc = "read", !.update = update, !.todo = Assets!Listing]
  BY DEF Assets!Begin, Assets!RunOnly
<1>2. Assets!Listing \in SUBSET File /\ (kind = "age" => Assets!Listing = File)
  BY TreeIs DEF AssetsInv, AssetTypes, Assets!Listing
<1>3. /\ run'.pc = "read" /\ run'.update = update /\ run'.todo = Assets!Listing /\ run'.got = Assets!Empty
      /\ run'.old = NoTree /\ run'.sha = Assets!Empty /\ run'.source = Assets!Empty
  BY <1>1 DEF Assets!Idle
<1>4. AssetTypes'
  BY <1>1, <1>2, TreeIs DEF AssetsInv, AssetTypes, Assets!Idle
<1>5. ServeInv'
  BY <1>1, <1>3, HoldsSame, WrittenKeeps DEF AssetsInv, AssetTypes
<1>6. CopyInv' /\ RunInv'
  BY <1>1, <1>3, TreeIs DEF AssetsInv, CopyInv, RunInv
<1>7. StageInv'
  BY <1>1, <1>2, <1>3, TreeIs DEF AssetsInv, StageInv
<1>. QED  BY <1>1, <1>4, <1>5, <1>6, <1>7 DEF AssetsInv

\* What a copy needs to keep CopyInv: it writes one file, the source as it is now.
LEMMA CopyOne ==
  ASSUME AssetsInv, NEW f \in DOMAIN upstream, UNCHANGED <<kind, upstream, pins, copied>>,
         out' = Assets!Put(out, f, upstream[f]), run'.got = Assets!Put(run.got, f, upstream[f]),
         run'.pc \in {"read", "source"}
  PROVE  out' \in Trees /\ run'.got \in Trees /\ CopyInv' /\ f \in File /\ \A g \in File \ {f} : Holds(g)' \subseteq Holds(g)
<1>1. f \in File /\ upstream[f] \in Assets!Version
  BY TreeIs DEF AssetsInv, AssetTypes
<1>2. /\ out' \in Trees /\ Assets!Files(out') = Assets!Files(out) \cup {f} /\ out'[f] = upstream[f]
      /\ \A g \in Assets!Files(out) \ {f} : out'[g] = out[g]
  <2>1. out \in Trees \cup {NoTree}
    BY DEF AssetsInv, AssetTypes
  <2>2. /\ Assets!Put(out, f, upstream[f]) \in Trees
        /\ DOMAIN Assets!Put(out, f, upstream[f]) = Assets!Files(out) \cup {f}
        /\ Assets!Put(out, f, upstream[f])[f] = upstream[f]
        /\ \A g \in Assets!Files(out) \ {f} : Assets!Put(out, f, upstream[f])[g] = out[g]
    BY <1>1, <2>1, PutIs
  <2>3. Assets!Files(out') = DOMAIN out'
    BY <2>2, TreeIs
  <2>. QED  BY <2>2, <2>3
<1>3. /\ run'.got \in Trees /\ DOMAIN run'.got = DOMAIN run.got \cup {f} /\ run'.got[f] = upstream[f]
      /\ \A g \in DOMAIN run.got \ {f} : run'.got[g] = run.got[g]
  <2>1. run.got \in Trees
    BY DEF AssetsInv, AssetTypes
  <2>2. /\ Assets!Put(run.got, f, upstream[f]) \in Trees
        /\ DOMAIN Assets!Put(run.got, f, upstream[f]) = DOMAIN run.got \cup {f}
        /\ Assets!Put(run.got, f, upstream[f])[f] = upstream[f]
        /\ \A g \in DOMAIN run.got \ {f} : Assets!Put(run.got, f, upstream[f])[g] = run.got[g]
    BY <1>1, <2>1, PutIn
  <2>. QED  BY <2>2
<1>4. \A g \in File \ {f} : Holds(g)' \subseteq Holds(g)
  BY <1>2 DEF Holds, Assets!Has
<1>5. upstream[f] <= upstream[f]
  BY <1>1, TreeIs
<1>6. CopyInv'
  BY <1>2, <1>3, <1>5 DEF AssetsInv, CopyInv, Assets!Has
<1>. QED  BY <1>1, <1>2, <1>3, <1>4, <1>6

\* vendor.mjs copies one module.
LEMMA CopyModuleKeeps ==
  ASSUME AssetsInv, NEW f \in File, Assets!CopyModule(f)
  PROVE  AssetsInv' /\ kind = "vendor" /\ kind' = kind
<1>1. /\ UNCHANGED <<kind, upstream, pins, sourcePins, copied, edited>> /\ Assets!Written({f})
      /\ run.pc = "read" /\ kind = "vendor"
  BY DEF Assets!CopyModule, Assets!RunOnly
<1>2. RunInv' /\ StageInv'
  BY <1>1 DEF RunInv, StageInv
<1>3. CASE f \in DOMAIN upstream
  <2>1. /\ out' = Assets!Put(out, f, upstream[f])
        /\ run' = [run EXCEPT !.todo = @ \ {f}, !.got = Assets!Put(@, f, upstream[f])]
    BY <1>3 DEF Assets!CopyModule
  <2>2. run'.pc = "read" /\ run'.got = Assets!Put(run.got, f, upstream[f])
    BY <1>1, <2>1 DEF AssetsInv, AssetTypes
  <2>3. out' \in Trees /\ run'.got \in Trees /\ CopyInv' /\ \A g \in File \ {f} : Holds(g)' \subseteq Holds(g)
    BY <1>1, <1>3, <2>1, <2>2, CopyOne
  <2>4. AssetTypes'
    BY <1>1, <2>1, <2>2, <2>3 DEF AssetsInv, AssetTypes
  <2>5. ServeInv'
    BY <1>1, <2>2, <2>3, WrittenKeeps DEF AssetsInv
  <2>. QED  BY <1>1, <1>2, <2>3, <2>4, <2>5 DEF AssetsInv
<1>4. CASE f \notin DOMAIN upstream
  <2>1. out' = out /\ run' = [run EXCEPT !.todo = @ \ {f}]
    BY <1>4 DEF Assets!CopyModule
  <2>2. run'.pc = "read" /\ run'.got = run.got
    BY <1>1, <2>1 DEF AssetsInv, AssetTypes
  <2>3. AssetTypes'
    BY <1>1, <2>1 DEF AssetsInv, AssetTypes
  <2>4. ServeInv'
    BY <1>1, <2>1, <2>2, HoldsSame, WrittenKeeps DEF AssetsInv, AssetTypes
  <2>5. CopyInv'
    BY <1>1, <2>1, <2>2 DEF AssetsInv, CopyInv, Assets!Has
  <2>. QED  BY <1>1, <1>2, <2>3, <2>4, <2>5 DEF AssetsInv
<1>. QED  BY <1>3, <1>4

\* vendor-aegis reads a source for its hash,
LEMMA HashSourceKeeps ==
  ASSUME AssetsInv, NEW f \in File, Assets!HashSource(f)
  PROVE  AssetsInv' /\ out' = out
<1>1. /\ UNCHANGED <<kind, upstream, pins, sourcePins, copied, edited, out>> /\ Assets!Written({})
      /\ run.pc = "read" /\ kind = "aegis"
  BY DEF Assets!HashSource, Assets!RunOnly
<1>2. CASE f \in DOMAIN upstream
  <2>1. run' = [run EXCEPT !.pc = "copy", !.file = f, !.todo = @ \ {f}, !.sha = Assets!Put(@, f, upstream[f])]
    BY <1>2 DEF Assets!HashSource
  <2>2. /\ run'.pc = "copy" /\ run'.file = f /\ run'.got = run.got /\ run'.edited = run.edited
        /\ run'.sha = Assets!Put(run.sha, f, upstream[f]) /\ run'.source = run.source
    BY <2>1 DEF AssetsInv, AssetTypes
  <2>3. upstream[f] \in Assets!Version /\ run.sha \in Trees
    BY <1>2, TreeIs DEF AssetsInv, AssetTypes
  <2>4. /\ Assets!Put(run.sha, f, upstream[f]) \in Trees /\ DOMAIN Assets!Put(run.sha, f, upstream[f]) = DOMAIN run.sha \cup {f}
        /\ Assets!Put(run.sha, f, upstream[f])[f] = upstream[f]
        /\ \A g \in DOMAIN run.sha \ {f} : Assets!Put(run.sha, f, upstream[f])[g] = run.sha[g]
    BY <2>3, PutIn
  <2>5. AssetTypes'
    BY <1>1, <2>1, <2>4 DEF AssetsInv, AssetTypes
  <2>6. ServeInv'
    BY <1>1, <2>2, HoldsSame, WrittenKeeps DEF AssetsInv, AssetTypes
  <2>7. CopyInv' /\ StageInv'
    BY <1>1, <2>2 DEF AssetsInv, CopyInv, StageInv, Assets!Has
  <2>8. upstream[f] # 0 /\ upstream[f] <= upstream[f]
    <3>1. upstream[f] # 0
      BY <1>1, <1>2 DEF AssetsInv, CopyInv
    <3>2. upstream[f] \in Nat
      BY <2>3, TreeIs
    <3>. QED  BY <3>1, <3>2
  <2>9. \A g \in DOMAIN run'.sha : Hashed(g)'
    BY <1>1, <1>2, <2>2, <2>4, <2>8 DEF AssetsInv, RunInv, Hashed
  <2>10. RunInv'
    BY <1>1, <2>2, <2>4, <2>9 DEF AssetsInv, RunInv
  <2>. QED  BY <1>1, <2>5, <2>6, <2>7, <2>10 DEF AssetsInv
<1>3. CASE f \notin DOMAIN upstream
  <2>1. run' = [run EXCEPT !.todo = @ \ {f}]
    BY <1>3 DEF Assets!HashSource
  <2>2. /\ run'.pc = run.pc /\ run'.file = run.file /\ run'.got = run.got /\ run'.edited = run.edited
        /\ run'.sha = run.sha /\ run'.source = run.source
    BY <2>1 DEF AssetsInv, AssetTypes
  <2>3. AssetTypes'
    BY <1>1, <2>1 DEF AssetsInv, AssetTypes
  <2>4. ServeInv'
    BY <1>1, <2>2, HoldsSame, WrittenKeeps DEF AssetsInv, AssetTypes
  <2>5. CopyInv' /\ RunInv' /\ StageInv'
    BY <1>1, <2>2 DEF AssetsInv, CopyInv, RunInv, Hashed, StageInv, Assets!Has
  <2>. QED  BY <1>1, <2>3, <2>4, <2>5 DEF AssetsInv
<1>. QED  BY <1>2, <1>3

\* copies it,
LEMMA CopySourceKeeps ==
  ASSUME AssetsInv, Assets!CopySource
  PROVE  AssetsInv' /\ kind \in {"aegis", "vendor"}
<1>. DEFINE f == run.file
<1>1. /\ UNCHANGED <<kind, upstream, pins, sourcePins, copied, edited>> /\ Assets!Written({f})
      /\ run.pc = "copy" /\ f \in File
  BY DEF Assets!CopySource, Assets!RunOnly, AssetsInv, AssetTypes
<1>2. kind \in {"aegis", "vendor"} /\ StageInv'
  BY <1>1 DEF AssetsInv, AssetTypes, Assets!Kind, StageInv
<1>3. CASE f \in DOMAIN upstream
  <2>1. /\ out' = Assets!Put(out, f, upstream[f])
        /\ run' = [run EXCEPT !.pc = "source", !.got = Assets!Put(@, f, upstream[f])]
    BY <1>3 DEF Assets!CopySource
  <2>2. /\ run'.pc = "source" /\ run'.file = f /\ run'.got = Assets!Put(run.got, f, upstream[f])
        /\ run'.edited = run.edited /\ run'.sha = run.sha /\ run'.source = run.source
    BY <2>1 DEF AssetsInv, AssetTypes
  <2>3. out' \in Trees /\ run'.got \in Trees /\ CopyInv' /\ \A g \in File \ {f} : Holds(g)' \subseteq Holds(g)
    BY <1>1, <1>3, <2>1, <2>2, CopyOne
  <2>4. AssetTypes'
    BY <1>1, <2>1, <2>2, <2>3 DEF AssetsInv, AssetTypes
  <2>5. ServeInv'
    BY <1>1, <2>2, <2>3, WrittenKeeps DEF AssetsInv
  <2>6. RunInv'
    <3>1. run.got \in Trees /\ upstream[f] \in Assets!Version
      BY <1>3, TreeIs DEF AssetsInv, AssetTypes
    <3>2. /\ DOMAIN run'.got = DOMAIN run.got \cup {f} /\ run'.got[f] = upstream[f]
          /\ \A g \in DOMAIN run.got \ {f} : run'.got[g] = run.got[g]
      BY <1>1, <2>2, <3>1, PutIn
    <3>3. ASSUME kind = "aegis", NEW g \in DOMAIN run.sha PROVE Hashed(g)'
      BY <1>1, <1>3, <2>2, <3>2, <3>3 DEF AssetsInv, RunInv, Hashed
    <3>. QED  BY <1>1, <2>2, <3>3 DEF AssetsInv, RunInv
  <2>. QED  BY <1>1, <1>2, <2>3, <2>4, <2>5, <2>6 DEF AssetsInv
<1>4. CASE f \notin DOMAIN upstream
  <2>1. out' = out /\ run' = Assets!Idle
    BY <1>4 DEF Assets!CopySource
  <2>. QED  BY <1>1, <1>2, <2>1, RunEnds
<1>. QED  BY <1>3, <1>4

\* and reads it again.
LEMMA HashAgainKeeps ==
  ASSUME AssetsInv, Assets!HashAgain
  PROVE  AssetsInv' /\ out' = out
<1>. DEFINE f == run.file
<1>1. /\ UNCHANGED <<kind, upstream, pins, sourcePins, copied, edited, out>> /\ Assets!Written({})
      /\ run.pc = "source" /\ f \in File
  BY DEF Assets!HashAgain, Assets!RunOnly, AssetsInv, AssetTypes
<1>2. CASE f \in DOMAIN upstream
  <2>1. run' = [run EXCEPT !.pc = "read", !.source = Assets!Put(@, f, upstream[f])]
    BY <1>2 DEF Assets!HashAgain
  <2>2. /\ run'.pc = "read" /\ run'.got = run.got /\ run'.edited = run.edited
        /\ run'.sha = run.sha /\ run'.source = Assets!Put(run.source, f, upstream[f])
    BY <2>1 DEF AssetsInv, AssetTypes
  <2>3. upstream[f] \in Assets!Version /\ run.source \in Trees
    BY <1>2, TreeIs DEF AssetsInv, AssetTypes
  <2>4. /\ run'.source \in Trees /\ DOMAIN run'.source = DOMAIN run.source \cup {f} /\ run'.source[f] = upstream[f]
        /\ \A g \in DOMAIN run.source \ {f} : run'.source[g] = run.source[g]
    <3>1. /\ Assets!Put(run.source, f, upstream[f]) \in Trees
          /\ DOMAIN Assets!Put(run.source, f, upstream[f]) = DOMAIN run.source \cup {f}
          /\ Assets!Put(run.source, f, upstream[f])[f] = upstream[f]
          /\ \A g \in DOMAIN run.source \ {f} : Assets!Put(run.source, f, upstream[f])[g] = run.source[g]
      <4>1. f \in File
        BY <1>1
      <4>. HIDE DEF f
      <4>. QED  BY <2>3, <4>1, PutIn
    <3>. QED  BY <2>2, <3>1
  <2>5. AssetTypes'
    BY <1>1, <2>1, <2>2, <2>4 DEF AssetsInv, AssetTypes
  <2>6. ServeInv'
    BY <1>1, <2>2, HoldsSame, WrittenKeeps DEF AssetsInv, AssetTypes
  <2>7. CopyInv' /\ StageInv'
    BY <1>1, <2>2 DEF AssetsInv, CopyInv, StageInv, Assets!Has
  <2>8. ASSUME kind = "aegis", NEW g \in DOMAIN run.sha PROVE Hashed(g)'
    BY <1>1, <1>2, <2>2, <2>4, <2>8 DEF AssetsInv, RunInv, Hashed
  <2>9. RunInv'
    BY <1>1, <2>2, <2>8 DEF AssetsInv, RunInv
  <2>. QED  BY <1>1, <2>5, <2>6, <2>7, <2>9 DEF AssetsInv
<1>3. CASE f \notin DOMAIN upstream
  <2>1. run' = Assets!Idle
    BY <1>3 DEF Assets!HashAgain
  <2>. QED  BY <1>1, <2>1, RunEnds
<1>. QED  BY <1>2, <1>3

\* The manifest is of what the run copied.
LEMMA WriteManifestKeeps ==
  ASSUME AssetsInv, Assets!WriteManifest
  PROVE  AssetsInv' /\ out' = out
<1>1. /\ UNCHANGED <<kind, upstream, out>> /\ Assets!Written({}) /\ run' = Assets!Idle
      /\ copied' = run.got /\ edited' = run.edited /\ sourcePins' = run.source
      /\ run.pc = "pin" \/ (run.pc = "read" /\ kind \in {"vendor", "aegis"})
  BY DEF Assets!WriteManifest
<1>2. /\ kind = "fonts" => pins' \in {run.got, pins}
      /\ kind = "vendor" => pins' = Assets!Restrict(out, DOMAIN run.got)
      /\ kind = "aegis" => pins' = run.sha
      /\ kind = "age" => pins' = pins
  BY DEF Assets!WriteManifest
<1>3. out \in Trees \cup {NoTree} /\ run.got \in Trees /\ run.sha \in Trees /\ run.source \in Trees
  BY DEF AssetsInv, AssetTypes
<1>4. kind = "vendor" => /\ pins' \in Trees /\ DOMAIN pins' = DOMAIN run.got
                         /\ \A f \in DOMAIN run.got : pins'[f] = run.got[f]
  <2>1. kind = "vendor" => /\ DOMAIN run.got \subseteq Assets!Files(out)
                           /\ \A f \in DOMAIN run.got : out[f] = run.got[f]
    BY DEF AssetsInv, CopyInv, Assets!Has
  <2>. QED  BY <1>2, <1>3, <2>1, RestrictIs
<1>5. AssetTypes'
  BY <1>1, <1>2, <1>3, <1>4, TreeIs DEF AssetsInv, AssetTypes, Assets!Kind, Assets!Idle
<1>6. ServeInv'
  BY <1>1, <1>3, HoldsSame, WrittenKeeps DEF AssetsInv, Assets!Idle
<1>7. ASSUME kind \in {"vendor", "aegis"} PROVE CopyInv'
  <2>1. \A f \in DOMAIN run.got : run.got[f] \in Nat /\ run.got[f] # 0 /\ f \in Assets!Files(out) /\ out[f] = run.got[f]
    BY <1>3, <1>7, TreeIs DEF AssetsInv, CopyInv, Assets!Has
  <2>2. \A f \in DOMAIN pins' : f \in DOMAIN run.got /\ pins'[f] # 0 /\ pins'[f] <= run.got[f]
    <3>1. CASE kind = "vendor"
      BY <1>4, <2>1, <3>1
    <3>2. CASE kind = "aegis"
      BY <1>1, <1>2, <1>7, <3>2 DEF AssetsInv, RunInv, Hashed, CopyInv
    <3>. QED  BY <1>7, <3>1, <3>2
  <2>3. DOMAIN run'.got = {} /\ run'.pc = "idle"
    BY <1>1, TreeIs DEF Assets!Idle
  <2>. QED  BY <1>1, <1>7, <2>1, <2>2, <2>3 DEF AssetsInv, CopyInv
<1>8. RunInv'
  <2>1. DOMAIN run'.sha = {} /\ run'.pc = "idle"
    BY <1>1, TreeIs DEF Assets!Idle
  <2>2. (kind = "aegis" /\ ~run.edited) => \A f \in DOMAIN run.sha : f \in DOMAIN run.source /\ run.source[f] = run.sha[f]
    BY <1>1 DEF AssetsInv, RunInv, Hashed, CopyInv
  <2>. QED  BY <1>1, <1>2, <2>1, <2>2 DEF AssetsInv, RunInv
<1>9. StageInv'
  <2>1. DOMAIN run'.got = {} /\ run'.pc = "idle"
    BY <1>1, TreeIs DEF Assets!Idle
  <2>. QED  BY <1>1, <1>2, <2>1 DEF AssetsInv, StageInv
<1>10. CopyInv'
  BY <1>1, <1>7 DEF CopyInv
<1>. QED  BY <1>1, <1>5, <1>6, <1>8, <1>9, <1>10 DEF AssetsInv

\* The server.
LEMMA ServeKeeps ==
  ASSUME AssetsInv, Assets!Serve
  PROVE  AssetsInv' /\ out' = out
<1>1. UNCHANGED <<kind, upstream, out, pins, sourcePins, run, copied, edited>>
  BY DEF Assets!Serve, Assets!StartServer, Assets!Ask, Assets!GetAsset
<1>2. AssetTypes'
  BY <1>1 DEF AssetsInv, AssetTypes
<1>3. CopyInv' /\ RunInv' /\ StageInv'
  BY <1>1 DEF AssetsInv, CopyInv, RunInv, Hashed, StageInv, Assets!Has
<1>4. (run'.pc = "swap" => out' = NoTree) /\ \A f : Holds(f)' = Holds(f)
  BY <1>1 DEF AssetsInv, ServeInv, Holds, Assets!Has
<1>5. CacheInv /\ ReqInv
  BY DEF AssetsInv, ServeInv
<1>6. ASSUME NEW r \in Request, req' = [req EXCEPT ![r] = req'[r]], req'[r] \in Requests, Sees(r)' PROVE ReqInv'
  <2>1. \A q \in Request \ {r} : req'[q] = req[q]
    BY <1>5, <1>6 DEF ReqInv
  <2>2. \A q \in Request \ {r} : Sees(q)'
    BY <1>1, <1>4, <1>5, <2>1 DEF ReqInv, Sees, Assets!Files
  <2>. QED  BY <1>5, <1>6, <2>2 DEF ReqInv
<1>7. UNCHANGED req => ReqInv'
  BY <1>1, <1>4, <1>5 DEF ReqInv, Sees, Assets!Files
<1>8. UNCHANGED cache => CacheInv'
  BY <1>4, <1>5 DEF CacheInv
<1>9. CASE Assets!StartServer
  <2>1. UNCHANGED <<cache, req>>
    BY <1>9 DEF Assets!StartServer
  <2>. QED  BY <1>1, <1>2, <1>3, <1>4, <1>7, <1>8, <2>1 DEF AssetsInv, ServeInv
<1>10. ASSUME NEW r \in Request, Assets!Ask(r, Assets!Archive) PROVE CacheInv' /\ ReqInv'
  <2>. DEFINE a == Assets!Archive
              s == {out[g] : g \in Assets!Files(out) \cap {a}}
  <2>1. cache' = cache /\ req' = [req EXCEPT ![r] = [Assets!Free EXCEPT !.pc = "stat", !.file = a, !.since = s]]
    BY <1>10 DEF Assets!Ask
  <2>2. a \in File /\ s \subseteq Assets!Version /\ (a \in Assets!Files(out) => out[a] \in s) /\ 0 \in Assets!Version
    BY TreeIs DEF AssetsInv, AssetTypes
  <2>. HIDE DEF a, s
  <2>3. req'[r] = [pc |-> "stat", file |-> a, current |-> FALSE, body |-> 0, since |-> s]
    BY <1>5, <2>1 DEF ReqInv, Assets!Free
  <2>4. req'[r] \in Requests
    BY <2>2, <2>3 DEF Requests
  <2>5. Sees(r)'
    BY <1>1, <2>2, <2>3 DEF Sees, Assets!Files
  <2>6. req' = [req EXCEPT ![r] = req'[r]]
    BY <1>5, <2>1 DEF ReqInv
  <2>. QED  BY <1>6, <1>8, <2>1, <2>4, <2>5, <2>6
<1>11. ASSUME NEW r \in Request, Assets!GetAsset(r) PROVE CacheInv' /\ ReqInv'
  <2>. DEFINE f == req[r].file
  <2>1. req[r] \in Requests /\ Sees(r) /\ f \in File
    BY <1>5 DEF ReqInv, Requests
  <2>2. cache[f] \in [current : BOOLEAN, body : Assets!Version] /\ (cache[f].current => Holds(f) \subseteq {cache[f].body})
    BY <1>5, <2>1 DEF CacheInv
  <2>3. f \in Assets!Files(out) => out[f] \in Assets!Version /\ out[f] \in Holds(f) /\ \A v \in Holds(f) : v = out[f]
    <3>1. f \in Assets!Files(out) => out[f] \in Assets!Version /\ run.pc # "swap"
      BY TreeIs DEF AssetsInv, AssetTypes, ServeInv
    <3>. QED  BY <3>1 DEF Holds, Assets!Has
  <2>4. CASE req[r].pc \in {"stat", "read"} /\ f \notin Assets!Files(out)
    <3>1. cache' = cache /\ req' = [req EXCEPT ![r] = Assets!Free]
      BY <1>11, <2>4 DEF Assets!GetAsset
    <3>2. req'[r] = Assets!Free /\ req' = [req EXCEPT ![r] = req'[r]]
      BY <1>5, <3>1 DEF ReqInv
    <3>3. req'[r] \in Requests /\ Sees(r)'
      BY <3>2, TreeIs DEF Assets!Free, Requests, Sees
    <3>. QED  BY <1>6, <1>8, <3>1, <3>2, <3>3
  <2>5. CASE req[r].pc = "stat" /\ f \in Assets!Files(out) /\ Assets!Hit(cache[f])
    <3>1. cache' = cache /\ req' = [req EXCEPT ![r] = Assets!Answered(r, cache[f].body)]
      BY <1>11, <2>5 DEF Assets!GetAsset
    <3>2. req'[r] = [req[r] EXCEPT !.pc = "done", !.body = cache[f].body] /\ req' = [req EXCEPT ![r] = req'[r]]
      BY <1>5, <3>1 DEF ReqInv, Assets!Answered
    <3>3. cache[f].body = out[f] /\ out[f] \in req[r].since
      BY <2>1, <2>2, <2>3, <2>5 DEF Assets!Hit, Sees
    <3>4. /\ req'[r] \in Requests /\ req'[r].pc = "done" /\ req'[r].body = out[f] /\ req'[r].since = req[r].since
      BY <2>1, <2>2, <3>2, <3>3 DEF Requests
    <3>5. Sees(r)'
      BY <3>3, <3>4 DEF Sees
    <3>. QED  BY <1>6, <1>8, <3>1, <3>2, <3>4, <3>5
  <2>6. CASE req[r].pc = "stat" /\ f \in Assets!Files(out) /\ ~Assets!Hit(cache[f])
    <3>1. cache' = cache /\ req' = [req EXCEPT ![r] = [@ EXCEPT !.pc = "read", !.current = TRUE]]
      BY <1>11, <2>6 DEF Assets!GetAsset
    <3>2. req'[r] = [req[r] EXCEPT !.pc = "read", !.current = TRUE] /\ req' = [req EXCEPT ![r] = req'[r]]
      BY <1>5, <3>1 DEF ReqInv
    <3>3. /\ req'[r] \in Requests /\ req'[r].pc = "read" /\ req'[r].file = f /\ req'[r].since = req[r].since
      BY <2>1, <3>2 DEF Requests
    <3>4. Sees(r)'
      BY <1>1, <2>1, <2>6, <3>3 DEF Sees, Assets!Files
    <3>. QED  BY <1>6, <1>8, <3>1, <3>2, <3>3, <3>4
  <2>7. CASE req[r].pc = "read" /\ f \in Assets!Files(out)
    <3>1. cache' = cache /\ req' = [req EXCEPT ![r].pc = "store", ![r].body = out[f]]
      BY <1>11, <2>7 DEF Assets!GetAsset
    <3>2. req'[r] = [req[r] EXCEPT !.pc = "store", !.body = out[f]] /\ req' = [req EXCEPT ![r] = req'[r]]
      BY <1>5, <3>1 DEF ReqInv
    <3>3. /\ req'[r] \in Requests /\ req'[r].pc = "store" /\ req'[r].file = f /\ req'[r].body = out[f]
          /\ req'[r].since = req[r].since
      BY <2>1, <2>3, <2>7, <3>2 DEF Requests
    <3>4. out[f] \in req[r].since
      BY <2>1, <2>7 DEF Sees
    <3>5. Holds(req[r].file)' \subseteq {out[f]}
      BY <1>1, <2>3, <2>7, <3>3 DEF Holds, Assets!Has
    <3>6. Sees(r)'
      BY <1>1, <3>3, <3>4, <3>5 DEF Sees, Assets!Files
    <3>. QED  BY <1>6, <1>8, <3>1, <3>2, <3>3, <3>6
  <2>8. CASE req[r].pc = "store"
    <3>1. /\ cache' = [cache EXCEPT ![f] = [current |-> req[r].current, body |-> req[r].body]]
          /\ req' = [req EXCEPT ![r] = Assets!Answered(r, req[r].body)]
      BY <1>11, <2>8 DEF Assets!GetAsset
    <3>2. req'[r] = [req[r] EXCEPT !.pc = "done", !.body = req[r].body] /\ req' = [req EXCEPT ![r] = req'[r]]
      BY <1>5, <3>1 DEF ReqInv, Assets!Answered
    <3>3. /\ req'[r] \in Requests /\ req'[r].pc = "done" /\ req'[r].body = req[r].body /\ req'[r].since = req[r].since
      BY <2>1, <3>2 DEF Requests
    <3>4. req[r].body \in req[r].since /\ (req[r].current => Holds(f) \subseteq {req[r].body})
      BY <2>1, <2>8 DEF Sees
    <3>5. Sees(r)'
      BY <3>3, <3>4 DEF Sees
    <3>6. cache'[f] = [current |-> req[r].current, body |-> req[r].body]
          /\ \A g \in File \ {f} : cache'[g] = cache[g]
      BY <1>5, <2>1, <3>1 DEF CacheInv
    <3>7. cache' \in [File -> [current : BOOLEAN, body : Assets!Version]]
      BY <1>5, <2>1, <3>1 DEF CacheInv, Requests
    <3>8. ASSUME NEW g \in File, cache'[g].current PROVE Holds(g) \subseteq {cache'[g].body}
      <4>1. CASE g = f
        BY <3>4, <3>6, <3>8, <4>1
      <4>2. CASE g # f
        BY <1>5, <3>6, <3>8, <4>2 DEF CacheInv
      <4>. QED  BY <4>1, <4>2
    <3>9. CacheInv'
      BY <1>4, <3>7, <3>8 DEF CacheInv
    <3>. QED  BY <1>6, <3>2, <3>3, <3>5, <3>9
  <2>9. req[r].pc \in {"stat", "read", "store"}
    BY <1>11 DEF Assets!GetAsset
  <2>. QED  BY <2>4, <2>5, <2>6, <2>7, <2>8, <2>9
<1>. QED  BY <1>1, <1>2, <1>3, <1>4, <1>9, <1>10, <1>11 DEF Assets!Serve, AssetsInv, ServeInv

\* The tools and the server that hands out what they fetched keep all of it, and a
\* set in use is left alone until the one that replaces it is staged and verified.
LEMMA AssetsKeep ==
  ASSUME AssetsInv, Assets!Next
  PROVE  AssetsInv' /\ Assets!SwapStep
<1>. USE DEF Assets!SwapStep
<1>1. CASE Assets!World
  <2>1. out' = out \/ run.pc = "idle"
    BY <1>1 DEF Assets!World, Assets!Kill, Assets!Publish, Assets!Withdraw, Assets!Damage
  <2>. QED  BY <1>1, <2>1, WorldKeeps
<1>2. ASSUME NEW update \in BOOLEAN, Assets!Begin(update) PROVE AssetsInv' /\ out' = out
  BY <1>2, BeginKeeps
<1>3. ASSUME NEW f \in File, Assets!Stage(f) \/ Assets!CopyModule(f) \/ Assets!HashSource(f)
      PROVE  AssetsInv' /\ (out' = out \/ kind = "vendor")
  BY <1>3, StageKeeps, CopyModuleKeeps, HashSourceKeeps
<1>4. CASE Assets!MoveAside \/ Assets!HashAgain \/ Assets!WriteManifest
  BY <1>4, MoveAsideKeeps, HashAgainKeeps, WriteManifestKeeps
<1>5. CASE Assets!MoveIn \/ \E f \in File : Assets!RemoveOld(f)
  BY <1>5, MoveInKeeps, RemoveOldKeeps
<1>6. CASE Assets!CopySource
  BY <1>6, CopySourceKeeps
<1>7. CASE Assets!Serve
  BY <1>7, ServeKeeps
<1>. QED  BY <1>1, <1>2, <1>3, <1>4, <1>5, <1>6, <1>7 DEF Assets!Next, Assets!Tools

\* It begins with nothing fetched, and tells what the checks and the server promise.
LEMMA AssetsBegin == Assets!Init => AssetsInv
<1>. SUFFICES ASSUME Assets!Init PROVE AssetsInv
  OBVIOUS
<1>1. [f \in File |-> 1] \in Trees /\ [f \in {Assets!Archive} |-> 1] \in Trees
  <2>1. [f \in File |-> 1] \in [File -> Assets!Version] /\ [f \in {Assets!Archive} |-> 1] \in [{Assets!Archive} -> Assets!Version]
    BY TreeIs
  <2>2. {Assets!Archive} \in SUBSET File /\ File \in SUBSET File
    BY TreeIs
  <2>. QED  BY <2>1, <2>2 DEF Trees
<1>2. AssetTypes
  BY <1>1, TreeIs DEF Assets!Init, AssetTypes, Assets!Idle
<1>3. ServeInv
  BY TreeIs DEF Assets!Init, ServeInv, CacheInv, ReqInv, Requests, Sees, Assets!Idle, Assets!Free
<1>4. CopyInv /\ RunInv
  BY TreeIs DEF Assets!Init, CopyInv, RunInv, Assets!Idle
<1>5. StageInv
  BY <1>1, TreeIs DEF Assets!Init, StageInv, Assets!Idle
<1>. QED  BY <1>2, <1>3, <1>4, <1>5 DEF AssetsInv

\* What is known of the tools is what they say of their checks.
LEMMA AssetsTell ==
  ASSUME AssetsInv
  PROVE  Assets!CheckedIsOneRun /\ Assets!NoDrift /\ Assets!FreshAsset
<1>1. Assets!CheckedIsOneRun
  <2>1. SUFFICES ASSUME kind \in {"vendor", "aegis"}, Assets!CheckOk, NEW f \in DOMAIN pins
                 PROVE  Assets!Has(copied, f, out[f])
    BY DEF Assets!CheckedIsOneRun
  <2>2. pins \in Trees /\ f \in Assets!Files(out) /\ out[f] = pins[f] /\ copied \in Trees
    BY <2>1 DEF AssetsInv, AssetTypes, Assets!CheckOk, Assets!Pinned, Assets!Has
  <2>3. /\ f \in DOMAIN copied /\ pins[f] # 0 /\ pins[f] <= copied[f] 
        /\ out[f] = 0 \/ copied[f] <= out[f]
    BY <2>1, <2>2, TreeIs DEF AssetsInv, CopyInv
  <2>4. copied[f] \in Nat /\ pins[f] \in Nat /\ Assets!Files(copied) = DOMAIN copied
    BY <2>2, <2>3, TreeIs
  <2>. QED  BY <2>2, <2>3, <2>4 DEF Assets!Has
<1>2. Assets!NoDrift
  BY TreeIs DEF AssetsInv, AssetTypes, RunInv, Assets!NoDrift, Assets!CheckOk, Assets!Pinned, Assets!CheckSourceOk, Assets!Has
<1>3. Assets!FreshAsset
  BY DEF AssetsInv, ServeInv, ReqInv, Sees, Assets!FreshAsset
<1>. QED  BY <1>1, <1>2, <1>3

---------------------------------------------------------------------------
(* The tools together.                                                      *)

\* The tools keep their parts, and the other parts leave them alone.
LEMMA ToolSteps ==
  /\ HostInit => AssetsInv /\ StagedInv /\ AgsInv
  /\ AssetsInv /\ StagedInv /\ AgsInv /\ [HostNext]_hostVars =>
       /\ AssetsInv' /\ StagedInv' /\ AgsInv'
       /\ [Assets!Next]_(Assets!vars) /\ [Staged!Next]_(Staged!vars)
<1>1. HostInit => AssetsInv
  BY AssetsBegin DEF HostInit
<1>2. HostInit => StagedInv
  <2>1. Staged!Init => Staged!Committed \in [Staged!Path -> Blobs]
    BY DEF Staged!Committed, Blobs
  <2>. QED  BY <2>1 DEF HostInit, Staged!Init, StagedInv, StagedTypes, Staged!NoCheck
<1>3. HostInit => AgsInv
  BY DEF HostInit, AgsCli!Init, AgsInv, AgsCli!NoRun, AgsCli!ExitTellsState
<1>4. ASSUME AssetsInv, UNCHANGED assets PROVE AssetsInv' /\ UNCHANGED Assets!vars
  <2>1. UNCHANGED <<kind, upstream, out, pins, sourcePins, run, copied, edited, server, cache, req, events>>
    BY <1>4 DEF assets
  <2>2. AssetTypes' /\ CopyInv' /\ RunInv' /\ StageInv'
    BY <1>4, <2>1 DEF AssetsInv, AssetTypes, CopyInv, RunInv, Hashed, StageInv, Assets!Has
  <2>3. ServeInv'
    BY <1>4, <2>1 DEF AssetsInv, ServeInv, CacheInv, ReqInv, Sees, Holds, Assets!Has, Assets!Files
  <2>. QED  BY <2>1, <2>2, <2>3 DEF AssetsInv, Assets!vars
<1>5. ASSUME StagedInv, UNCHANGED staged PROVE StagedInv' /\ UNCHANGED Staged!vars
  <2>1. UNCHANGED <<type, head, index, work, hook, check, commit, changes>>
    BY <1>5 DEF staged
  <2>2. StagedInv'
    BY <1>5, <2>1 DEF StagedInv, StagedTypes, Staged!Whole, Staged!Passes, Staged!Resolves
  <2>. QED  BY <2>1, <2>2 DEF Staged!vars
<1>6. ASSUME AgsInv, UNCHANGED ags PROVE AgsInv'
  BY <1>6 DEF ags, AgsInv, AgsCli!ExitTellsState
<1>7. ASSUME AssetsInv, StagedInv, AgsInv, [HostNext]_hostVars
      PROVE  /\ AssetsInv' /\ StagedInv' /\ AgsInv'
             /\ [Assets!Next]_(Assets!vars) /\ [Staged!Next]_(Staged!vars)
  <2>1. Assets!Next \/ UNCHANGED assets
    BY <1>7 DEF HostNext, hostVars
  <2>2. Staged!Next \/ UNCHANGED staged
    BY <1>7 DEF HostNext, hostVars
  <2>3. AgsCli!Next \/ UNCHANGED ags
    BY <1>7 DEF HostNext, hostVars
  <2>. QED  BY <1>4, <1>5, <1>6, <1>7, <2>1, <2>2, <2>3, AssetsKeep, StagedKeeps, AgsKeeps
<1>. QED  BY <1>1, <1>2, <1>3, <1>7

\* A check that passes means what its documentation says: --check vouches for the
\* files of one whole run, with --check-source for the AEGIS sources, the server
\* answers with bytes the file held since the request came, --all finds what the hook
\* did not see, and the exit code of the repair is the state it leaves.
THEOREM ChecksTellAlways == HostSpec => []ChecksTell
<1>. DEFINE I == AssetsInv /\ StagedInv /\ AgsInv
<1>1. HostInit => I
  BY ToolSteps
<1>2. I /\ [HostNext]_hostVars => I'
  BY ToolSteps
<1>3. I => ChecksTell
  <2>1. AgsInv => AgsCli!ExitTellsState
    BY DEF AgsInv
  <2>2. StagedInv => Staged!AllIsBackstop
    BY DEF StagedInv, StagedTypes, Staged!AllIsBackstop
  <2>. QED  BY <2>1, <2>2, AssetsTell DEF ChecksTell
<1>. HIDE DEF I
<1>. QED  BY <1>1, <1>2, <1>3, PTL DEF HostSpec

\* What is on disk is replaced whole: a set of fonts or binaries is left alone until
\* all of the one that replaces it is staged and verified, and from there on only that
\* set or files of the old one are there, killed or not; a tree is replaced by a
\* commit the hook read, a keyfile by one with the same identity.
THEOREM KeepsWholeAlways == HostSpec => KeepsWhole
<1>. DEFINE I == AssetsInv /\ StagedInv /\ AgsInv
            Commits == (check.mode = "staged" /\ head' # head /\ ~check.disturbed) =>
                         \A p \in Staged!Path : Staged!Whole(p, head') \/ head'[p] = head[p]
<1>1. HostInit => I
  BY ToolSteps
<1>2. I /\ [HostNext]_hostVars => I'
  BY ToolSteps
<1>3. I /\ [HostNext]_hostVars => [Assets!SwapStep]_(Assets!vars)
  BY ToolSteps, AssetsKeep
<1>4. I /\ [HostNext]_hostVars => [Commits]_(Staged!vars)
  <2>1. ASSUME StagedInv, Staged!Next PROVE Commits
    <3>1. SUFFICES ASSUME check.mode = "staged", head' # head, ~check.disturbed, NEW p \in Staged!Path
                   PROVE  Staged!Whole(p, head') \/ head'[p] = head[p]
      OBVIOUS
    <3>2. type' = type
      BY <2>1 DEF Staged!Next, Staged!Edit, Staged!Stage, Staged!CheckFile, Staged!InstallHook, Staged!StartCommit,
                  Staged!CommitUnverified, Staged!StartAll, Staged!StartOfCommit, Staged!EndCheck
    <3>3. Staged!Whole(p, head') = Staged!Whole(p, head)'
      BY <3>2 DEF Staged!Whole, Staged!Passes, Staged!Resolves
    <3>. QED  BY <2>1, <3>1, <3>3, StagedKeeps
  <2>. HIDE DEF Commits
  <2>. QED  BY <2>1, ToolSteps
<1>. HIDE DEF I
<1>6. HostSpec => Assets!SwappedWhole
  BY <1>1, <1>2, <1>3, PTL DEF HostSpec, Assets!SwappedWhole
<1>7. HostSpec => Staged!VerifiedCommitsHold
  BY <1>1, <1>2, <1>4, PTL DEF HostSpec, Staged!VerifiedCommitsHold
<1>. QED  BY <1>6, <1>7, AddressKeptAlways DEF KeepsWhole

---------------------------------------------------------------------------
(* The scanner.  What it has found is, at every point of its two passes, a  *)
(* union over the files it is past, as long as none of them is edited.      *)

ScanNames == {Scan!SKILL, Scan!RUBRIC, Scan!SCRIPT}

\* What the first pass finds in the lines of a file, and the second in the whole.
InLines(n) == IF Scan!SkippedByHeader(n, skill[n]) \/ ~Scan!Readable(skill[n]) THEN {}
              ELSE Scan!LineFindings(n, skill[n])
InWhole(n) == IF Scan!SkippedByName(n, skill[n]) \/ ~Scan!Readable(skill[n]) THEN {}
              ELSE Scan!Compound(n, skill[n])
InLinesOf(S) == UNION {InLines(n) : n \in S}
InWholeOf(S) == UNION {InWhole(n) : n \in S}
Listed == Scan!walk(skill) \ opts.excludes

\* A file has some of the lines, each at least once and at most as often as fits.
FileIs(f) ==
  /\ f = [shape |-> f.shape, body |-> f.body]
  /\ DOMAIN f.body \subseteq Scan!Line
  /\ \A l \in DOMAIN f.body : f.body[l] \in 1..MaxLines
SkillIs == DOMAIN skill \subseteq ScanNames /\ \A n \in DOMAIN skill : FileIs(skill[n])

ScanTypes ==
  /\ pc \in {"start", "lines", "compound", "report", "done"}
  /\ resaved \in BOOLEAN
  /\ SkillIs
  /\ IsFiniteSet(structure) /\ IsFiniteSet(findings)

Unscanned == structure = {} /\ findings = {} /\ ~resaved /\ reported = "not requested"

ScanInv ==
  /\ ScanTypes
  /\ pc = "start" => Unscanned
  /\ pc \in {"lines", "compound"} => todo \subseteq Listed
  /\ (pc = "lines" /\ ~resaved) => findings = InLinesOf(Listed \ todo)
  /\ (pc = "compound" /\ ~resaved) => findings = InLinesOf(Listed) \cup InWholeOf(Listed \ todo)
  /\ (pc \in {"report", "done"} /\ ~resaved) => findings = Scan!collapsed(InLinesOf(Listed) \cup InWholeOf(Listed))
  /\ pc \in {"lines", "compound"} => reported = "not requested"
  /\ (pc = "report" \/ reported # "not requested") => structure # {} \/ findings # {}

\* Cardinality is the same in the scanner's module.
LEMMA SameCardinality == \A S : Scan!Cardinality(S) = Cardinality(S)
BY DEF Scan!Cardinality, Cardinality

---------------------------------------------------------------------------
(* Counting findings.                                                       *)

Whole(f) == f = [rule |-> f.rule, file |-> f.file, line |-> f.line]
Of(S, n) == \A f \in S : Whole(f) /\ f.file = n
Anywhere(r, n) == [rule |-> r, file |-> n, line |-> <<"any", 0>>]

\* A set and its image under a function: the image is finite, and as large if the
\* function is one to one.
LEMMA ImageFinite ==
  ASSUME NEW S, IsFiniteSet(S), NEW g, DOMAIN g = S
  PROVE  IsFiniteSet({g[x] : x \in S})
<1>. DEFINE T == {g[x] : x \in S}
           h == [x \in S |-> g[x]]
<1>1. h \in Surjection(S, T)
  BY DEF Surjection
<1>. QED  BY <1>1, FS_Surjection

\* In puts the rules of a line in findings of that line and file.
LEMMA InIs ==
  ASSUME NEW n, NEW l, NEW i, NEW rules, IsFiniteSet(rules)
  PROVE  IsFiniteSet(Scan!In(n, l, i, rules)) /\ Of(Scan!In(n, l, i, rules), n)
<1>. DEFINE g == [r \in rules |-> [rule |-> r, file |-> n, line |-> <<l, i>>]]
<1>1. {g[r] : r \in rules} = Scan!In(n, l, i, rules)
  BY DEF Scan!In
<1>2. DOMAIN g = rules
  OBVIOUS
<1>3. IsFiniteSet({g[r] : r \in rules})
  BY <1>2, ImageFinite
<1>4. Of(Scan!In(n, l, i, rules), n)
  BY DEF Scan!In, Of, Whole
<1>. QED  BY <1>1, <1>3, <1>4

\* A line breaks at most one rule as it stands, and one when it is decoded.
LEMMA RulesFinite ==
  ASSUME NEW l
  PROVE  /\ IsFiniteSet(Scan!scanLine(l) \cup (IF opts.deobfuscate THEN Scan!deobfuscate(l) ELSE {}))
<1>1. Scan!scanLine(l) = {} \/ \E r : Scan!scanLine(l) = {r}
  BY DEF Scan!scanLine
<1>2. Scan!deobfuscate(l) = {} \/ \E r : Scan!deobfuscate(l) = {r}
  BY DEF Scan!deobfuscate
<1>. QED  BY <1>1, <1>2, FS_EmptySet, FS_Singleton, FS_Union

\* A file has finitely many findings, each of its own.
LEMMA FileFindings ==
  ASSUME NEW n, NEW f, FileIs(f)
  PROVE  /\ IsFiniteSet(Scan!LineFindings(n, f)) /\ Of(Scan!LineFindings(n, f), n)
         /\ IsFiniteSet(Scan!Compound(n, f)) /\ Of(Scan!Compound(n, f), n)
         /\ \A x \in Scan!Compound(n, f) : x.rule.severity = "CRITICAL"
<1>. DEFINE Ls == Scan!Lines(f.body)
           R(l) == Scan!scanLine(l) \cup (IF opts.deobfuscate THEN Scan!deobfuscate(l) ELSE {})
           g == [ln \in Ls |-> Scan!In(n, ln[1], ln[2], R(ln[1]))]
           P == {g[ln] : ln \in Ls}
<1>1. IsFiniteSet(Ls)
  <2>1. IsFiniteSet(Scan!Line)
    <3>. DEFINE A == {"rm", "cron", "http"}
               B == {"localhost", "lan", "npx"}
               C == {"key", "send", "base64-rm"}
               D == {"zero-width-rm", "escaped-rm", "lookalike-rm"}
               Three(a, b, c) == {a} \cup {b} \cup {c}
    <3>1. \A a, b, c : IsFiniteSet(Three(a, b, c))
      BY FS_Singleton, FS_Union
    <3>2. IsFiniteSet(A) /\ IsFiniteSet(B) /\ IsFiniteSet(C) /\ IsFiniteSet(D)
      <4>1. /\ A = Three("rm", "cron", "http") /\ B = Three("localhost", "lan", "npx")
            /\ C = Three("key", "send", "base64-rm") /\ D = Three("zero-width-rm", "escaped-rm", "lookalike-rm")
        OBVIOUS
      <4>. HIDE DEF Three, A, B, C, D
      <4>. QED  BY <3>1, <4>1
    <3>3. Scan!Line = (A \cup B) \cup (C \cup D)
      BY DEF Scan!Line
    <3>. HIDE DEF A, B, C, D
    <3>4. IsFiniteSet(A \cup B) /\ IsFiniteSet(C \cup D)
      BY <3>2, FS_Union
    <3>. QED  BY <3>3, <3>4, FS_Union
  <2>2. IsFiniteSet(DOMAIN f.body)
    BY <2>1, FS_Subset DEF FileIs
  <2>3. IsFiniteSet(1..MaxLines)
    BY FS_Interval, ScanAssumption
  <2>4. IsFiniteSet((DOMAIN f.body) \X (1..MaxLines))
    BY <2>2, <2>3, FS_Product
  <2>5. Ls \subseteq (DOMAIN f.body) \X (1..MaxLines)
    BY DEF Scan!Lines
  <2>. QED  BY <2>4, <2>5, FS_Subset
<1>2. \A l : IsFiniteSet(R(l))
  BY RulesFinite
<1>. HIDE DEF Ls, R
<1>3. \A ln \in Ls : IsFiniteSet(g[ln]) /\ Of(g[ln], n)
  BY <1>2, InIs
<1>4. Scan!LineFindings(n, f) = UNION P
  BY DEF Scan!LineFindings, Ls, R
<1>5. IsFiniteSet(P)
  BY <1>1, ImageFinite
<1>. HIDE DEF g
<1>6. \A p \in P : IsFiniteSet(p) /\ Of(p, n)
  BY <1>3
<1>. HIDE DEF P
<1>7. IsFiniteSet(UNION P) /\ Of(UNION P, n)
  <2>1. IsFiniteSet(UNION P)
    BY <1>5, <1>6, FS_UNION
  <2>. QED  BY <1>6, <2>1 DEF Of
<1>8. /\ IsFiniteSet(Scan!Compound(n, f)) /\ Of(Scan!Compound(n, f), n)
      /\ \A x \in Scan!Compound(n, f) : x.rule.severity = "CRITICAL"
  <2>. DEFINE r == Scan!Rule("CRITICAL", "sensitive-path-network-send")
  <2>1. Scan!Compound(n, f) = {} \/ Scan!Compound(n, f) = Scan!In(n, "whole-file", 0, {r})
    BY DEF Scan!Compound
  <2>2. r.severity = "CRITICAL"
    BY DEF Scan!Rule
  <2>. HIDE DEF r
  <2>3. IsFiniteSet({r})
    BY FS_Singleton
  <2>4. IsFiniteSet(Scan!In(n, "whole-file", 0, {r})) /\ Of(Scan!In(n, "whole-file", 0, {r}), n)
    BY <2>3, InIs
  <2>5. \A x \in Scan!In(n, "whole-file", 0, {r}) : x.rule.severity = "CRITICAL"
    BY <2>2 DEF Scan!In
  <2>6. IsFiniteSet({}) /\ Of({}, n)
    BY FS_EmptySet DEF Of
  <2>. QED  BY <2>1, <2>4, <2>5, <2>6
<1>. QED  BY <1>4, <1>7, <1>8

\* Collapsing keeps the findings of the two high severities and puts those of the two
\* low ones nowhere in particular in their file.
Low(f) == f.rule.severity \in {"MEDIUM", "LOW"}

LEMMA CollapsedIs ==
  ASSUME NEW S, \A f \in S : Whole(f)
  PROVE  \A x : x \in Scan!collapsed(S) <=>
                  \/ x \in S /\ ~Low(x)
                  \/ \E f \in S : Low(f) /\ x = Anywhere(f.rule, f.file)
<1>1. \A f \in S : [f EXCEPT !.line = <<"any", 0>>] = Anywhere(f.rule, f.file)
  BY DEF Whole, Anywhere
<1>2. \A f : Scan!Noisy(f) <=> Low(f)
  BY DEF Scan!Noisy, Low
<1>. QED  BY <1>1, <1>2 DEF Scan!collapsed

\* What is anywhere is low when its rule is.
LEMMA AnywhereIs ==
  ASSUME NEW r, NEW n
  PROVE  /\ Anywhere(r, n).rule = r /\ Anywhere(r, n).file = n /\ Whole(Anywhere(r, n))
         /\ Anywhere(r, n).line = <<"any", 0>>
BY DEF Anywhere, Whole

\* Collapsing twice is collapsing once.
LEMMA CollapsedTwice ==
  ASSUME NEW S, \A f \in S : Whole(f)
  PROVE  /\ \A f \in Scan!collapsed(S) : Whole(f)
         /\ Scan!collapsed(Scan!collapsed(S)) = Scan!collapsed(S)
<1>. DEFINE C == Scan!collapsed(S)
<1>1. \A x : x \in C <=> \/ x \in S /\ ~Low(x)
                         \/ \E f \in S : Low(f) /\ x = Anywhere(f.rule, f.file)
  BY CollapsedIs
<1>. HIDE DEF C
<1>2. \A f \in C : Whole(f)
  BY <1>1, AnywhereIs
<1>3. \A x : x \in Scan!collapsed(C) <=> \/ x \in C /\ ~Low(x)
                                         \/ \E f \in C : Low(f) /\ x = Anywhere(f.rule, f.file)
  BY <1>2, CollapsedIs
<1>4. \A f \in C : Low(f) => f = Anywhere(f.rule, f.file)
  BY <1>1, AnywhereIs
<1>5. \A x : x \in Scan!collapsed(C) <=> x \in C
  BY <1>3, <1>4
<1>6. Scan!collapsed(C) = C
  BY <1>5
<1>. QED  BY <1>2, <1>6 DEF C

\* What is collapsed of two sets is what is collapsed of each.
LEMMA CollapsedUnion ==
  ASSUME NEW A, NEW B, \A f \in A \cup B : Whole(f)
  PROVE  Scan!collapsed(A \cup B) = Scan!collapsed(A) \cup Scan!collapsed(B)
<1>1. \A x : x \in Scan!collapsed(A \cup B) <=>
               \/ x \in A \cup B /\ ~Low(x)
               \/ \E f \in A \cup B : Low(f) /\ x = Anywhere(f.rule, f.file)
  BY CollapsedIs
<1>2. \A x : x \in Scan!collapsed(A) <=>
               \/ x \in A /\ ~Low(x)
               \/ \E f \in A : Low(f) /\ x = Anywhere(f.rule, f.file)
  BY CollapsedIs
<1>3. \A x : x \in Scan!collapsed(B) <=>
               \/ x \in B /\ ~Low(x)
               \/ \E f \in B : Low(f) /\ x = Anywhere(f.rule, f.file)
  BY CollapsedIs
<1>4. \A x : x \in Scan!collapsed(A \cup B) <=> x \in Scan!collapsed(A) \cup Scan!collapsed(B)
  BY <1>1, <1>2, <1>3
<1>. QED  BY <1>4

\* Collapsing keeps a set finite, and empty or not.
LEMMA CollapsedFinite ==
  ASSUME NEW S, IsFiniteSet(S)
  PROVE  IsFiniteSet(Scan!collapsed(S)) /\ (Scan!collapsed(S) = {} <=> S = {})
<1>. DEFINE H == {f \in S : ~Scan!Noisy(f)}
           L == {f \in S : Scan!Noisy(f)}
           g == [f \in L |-> [f EXCEPT !.line = <<"any", 0>>]]
<1>1. IsFiniteSet(H) /\ IsFiniteSet(L)
  BY FS_Subset
<1>2. DOMAIN g = L /\ S = H \cup L
  OBVIOUS
<1>3. Scan!collapsed(S) = H \cup {g[f] : f \in L}
  BY DEF Scan!collapsed
<1>. HIDE DEF H, L, g
<1>4. IsFiniteSet({g[f] : f \in L})
  BY <1>1, <1>2, ImageFinite
<1>5. IsFiniteSet(H \cup {g[f] : f \in L})
  BY <1>1, <1>4, FS_Union
<1>6. {g[f] : f \in L} = {} <=> L = {}
  OBVIOUS
<1>. QED  BY <1>2, <1>3, <1>5, <1>6

\* A finite set of findings, by severity.
Count(S, s) == Cardinality(Scan!Graded(S, s))

LEMMA CountNat ==
  ASSUME NEW S, IsFiniteSet(S), NEW s
  PROVE  /\ IsFiniteSet(Scan!Graded(S, s)) /\ Count(S, s) \in Nat
         /\ Count(S, s) = 0 => Scan!Graded(S, s) = {}
<1>1. IsFiniteSet(Scan!Graded(S, s))
  BY FS_Subset DEF Scan!Graded
<1>. QED  BY <1>1, FS_CardinalityType, FS_EmptySet DEF Count

\* The findings of different files are counted apart.
LEMMA CountsAdd ==
  ASSUME NEW A, NEW B, IsFiniteSet(A), IsFiniteSet(B), A \cap B = {}, NEW s
  PROVE  Count(A \cup B, s) = Count(A, s) + Count(B, s)
<1>1. Scan!Graded(A \cup B, s) = Scan!Graded(A, s) \cup Scan!Graded(B, s) /\ Scan!Graded(A, s) \cap Scan!Graded(B, s) = {}
  BY DEF Scan!Graded
<1>2. IsFiniteSet(Scan!Graded(A, s)) /\ IsFiniteSet(Scan!Graded(B, s))
  BY CountNat
<1>3. Cardinality(Scan!Graded(A, s) \cup Scan!Graded(B, s)) =
        Cardinality(Scan!Graded(A, s)) + Cardinality(Scan!Graded(B, s)) - Cardinality({})
  BY <1>1, <1>2, FS_Union
<1>4. Cardinality({}) = 0
  BY FS_EmptySet
<1>5. Count(A, s) \in Nat /\ Count(B, s) \in Nat
  BY CountNat
<1>6. Count(A \cup B, s) = Count(A, s) + Count(B, s) - 0
  BY <1>1, <1>3, <1>4 DEF Count
<1>. QED  BY <1>5, <1>6

\* One file's collapsed findings: the high ones as they are, the low ones by rule.
LEMMA CountsOfFile ==
  ASSUME NEW S, IsFiniteSet(S), NEW n, Of(S, n)
  PROVE  /\ \A s \in {"CRITICAL", "HIGH"} : Count(Scan!collapsed(S), s) = Count(S, s)
         /\ \A s \in {"MEDIUM", "LOW"} : Count(Scan!collapsed(S), s) = Cardinality(Scan!RulesOf(S, s))
         /\ Of(Scan!collapsed(S), n)
<1>. DEFINE C == Scan!collapsed(S)
<1>1. \A x : x \in C <=> \/ x \in S /\ ~Low(x)
                         \/ \E f \in S : Low(f) /\ x = Anywhere(f.rule, n)
  <2>1. \A f \in S : Whole(f) /\ f.file = n
    BY DEF Of
  <2>. QED  BY <2>1, CollapsedIs
<1>. HIDE DEF C
<1>2. Of(C, n)
  BY <1>1, AnywhereIs DEF Of
<1>3. ASSUME NEW s \in {"CRITICAL", "HIGH"} PROVE Count(C, s) = Count(S, s)
  <2>1. \A x : x \in Scan!Graded(C, s) <=> x \in Scan!Graded(S, s)
    BY <1>1, AnywhereIs DEF Scan!Graded, Low
  <2>2. Scan!Graded(C, s) = Scan!Graded(S, s)
    BY <2>1 DEF Scan!Graded
  <2>. QED  BY <2>2 DEF Count
<1>4. ASSUME NEW s \in {"MEDIUM", "LOW"} PROVE Count(C, s) = Cardinality(Scan!RulesOf(S, s))
  <2>. DEFINE G == Scan!Graded(S, s)
             h == [f \in G |-> f.rule]
             R == Scan!RulesOf(S, s)
             k == [r \in R |-> Anywhere(r, n)]
  <2>1. IsFiniteSet(G)
    BY CountNat
  <2>2. R = {h[f] : f \in G} /\ DOMAIN h = G
    BY DEF Scan!RulesOf
  <2>3. IsFiniteSet(R)
    <3>. HIDE DEF G, h, R
    <3>1. IsFiniteSet({h[f] : f \in G})
      BY <2>1, <2>2, ImageFinite
    <3>. QED  BY <2>2, <3>1
  <2>4. \A x : x \in Scan!Graded(C, s) <=> \E r \in R : x = Anywhere(r, n)
    <3>1. \A x : x \in Scan!Graded(C, s) <=> \E f \in S : f.rule.severity = s /\ x = Anywhere(f.rule, n)
      BY <1>1, AnywhereIs DEF Scan!Graded, Low
    <3>2. \A r : r \in R <=> \E f \in S : f.rule.severity = s /\ r = f.rule
      BY DEF Scan!RulesOf, Scan!Graded
    <3>. QED  BY <3>1, <3>2
  <2>. HIDE DEF R
  <2>5. \A r \in R : k[r] \in Scan!Graded(C, s) /\ k[r].rule = r
    BY <2>4, AnywhereIs
  <2>6. k \in Bijection(R, Scan!Graded(C, s))
    <3>1. k \in [R -> Scan!Graded(C, s)]
      BY <2>5
    <3>2. \A a, b \in R : k[a] = k[b] => a = b
      BY <2>5
    <3>3. \A x \in Scan!Graded(C, s) : \E r \in R : k[r] = x
      BY <2>4
    <3>. QED  BY <3>1, <3>2, <3>3 DEF Bijection, Injection, Surjection, IsInjective
  <2>7. ExistsBijection(R, Scan!Graded(C, s))
    BY <2>6 DEF ExistsBijection
  <2>8. Cardinality(Scan!Graded(C, s)) = Cardinality(R)
    BY <2>3, <2>7, FS_Bijection
  <2>. QED  BY <2>8 DEF Count, R
<1>. QED  BY <1>2, <1>3, <1>4 DEF C

\* A directory that is not written to, under the same options, gives the same findings.
LEMMA SameDirectory ==
  ASSUME UNCHANGED <<skill, opts>>
  PROVE  /\ Listed' = Listed /\ SkillIs' = SkillIs
         /\ \A n : InLines(n)' = InLines(n) /\ InWhole(n)' = InWhole(n)
         /\ \A S : InLinesOf(S)' = InLinesOf(S) /\ InWholeOf(S)' = InWholeOf(S)
<1>1. Listed' = Listed
  BY DEF Listed, Scan!walk
<1>2. \A n : InLines(n)' = InLines(n) /\ InWhole(n)' = InWhole(n)
  BY DEF InLines, InWhole, Scan!SkippedByHeader, Scan!SkippedByName, Scan!Readable, Scan!LineFindings, Scan!Compound, Scan!Has
<1>3. \A S : InLinesOf(S)' = InLinesOf(S) /\ InWholeOf(S)' = InWholeOf(S)
  BY <1>2 DEF InLinesOf, InWholeOf
<1>4. SkillIs' = SkillIs
  BY DEF SkillIs, FileIs
<1>. QED  BY <1>1, <1>2, <1>3, <1>4

\* What one more file adds.
LEMMA OneMore ==
  ASSUME NEW S, NEW n
  PROVE  /\ InLinesOf(S \cup {n}) = InLinesOf(S) \cup InLines(n)
         /\ InWholeOf(S \cup {n}) = InWholeOf(S) \cup InWhole(n)
         /\ InLinesOf({}) = {} /\ InWholeOf({}) = {}
BY DEF InLinesOf, InWholeOf

\* A file of the directory has finitely many findings in either pass.
LEMMA FileFinite ==
  ASSUME SkillIs, NEW n \in DOMAIN skill
  PROVE  /\ IsFiniteSet(InLines(n)) /\ Of(InLines(n), n)
         /\ IsFiniteSet(InWhole(n)) /\ Of(InWhole(n), n)
         /\ \A x \in InWhole(n) : x.rule.severity = "CRITICAL"
<1>1. FileIs(skill[n])
  BY DEF SkillIs
<1>2. /\ IsFiniteSet(Scan!LineFindings(n, skill[n])) /\ Of(Scan!LineFindings(n, skill[n]), n)
      /\ IsFiniteSet(Scan!Compound(n, skill[n])) /\ Of(Scan!Compound(n, skill[n]), n)
      /\ \A x \in Scan!Compound(n, skill[n]) : x.rule.severity = "CRITICAL"
  BY <1>1, FileFindings
<1>3. IsFiniteSet({}) /\ Of({}, n)
  BY FS_EmptySet DEF Of
<1>. QED  BY <1>2, <1>3 DEF InLines, InWhole

\* A listed file is one of the directory.
LEMMA ListedIs ==
  /\ Listed \subseteq DOMAIN skill
  /\ \A n : n \in Listed <=> n \in DOMAIN skill /\ skill[n].shape # "hidden" /\ n \notin opts.excludes
BY DEF Listed, Scan!walk

\* The findings about the packaging are finitely many.
LEMMA PackagingFinite ==
  ASSUME NEW f, NEW d
  PROVE  IsFiniteSet(Scan!Packaging(f)) /\ IsFiniteSet(Scan!Frontmatter(d))
<1>1. ASSUME NEW a, NEW b PROVE IsFiniteSet({a, b})
  <2>1. IsFiniteSet({a}) /\ IsFiniteSet({b})
    BY FS_Singleton
  <2>2. IsFiniteSet({a} \cup {b})
    BY <2>1, FS_Union
  <2>3. {a, b} = {a} \cup {b}
    OBVIOUS
  <2>. QED  BY <2>2, <2>3
<1>a. IsFiniteSet({})
  BY FS_EmptySet
<1>b. \A a : IsFiniteSet({a})
  BY FS_Singleton
<1>2. Scan!Packaging(f) = {} \/ \E a, b : Scan!Packaging(f) = {a} \/ Scan!Packaging(f) = {a, b}
  BY DEF Scan!Packaging
<1>3. Scan!Frontmatter(d) = {} \/ \E a, b : Scan!Frontmatter(d) = {a} \/ Scan!Frontmatter(d) = {a, b}
  BY DEF Scan!Frontmatter
<1>4. IsFiniteSet(Scan!Packaging(f))
  BY <1>1, <1>2, <1>a, <1>b
<1>5. IsFiniteSet(Scan!Frontmatter(d))
  BY <1>1, <1>3, <1>a, <1>b
<1>. QED  BY <1>4, <1>5

\* The files of a directory the scanner is started on.
LEMMA FilesAre ==
  \A f \in Scan!SkillFiles \cup Scan!RubricFiles \cup Scan!Scripts : FileIs(f)
<1>1. ASSUME NEW sh, NEW ls \in SUBSET Scan!Line PROVE FileIs(Scan!FileOf(sh, Scan!One(ls)))
  <2>1. 1 \in 1..MaxLines
    BY ScanAssumption
  <2>. QED  BY <2>1 DEF FileIs, Scan!FileOf, Scan!One
<1>2. /\ {} \in SUBSET Scan!Line /\ {"key"} \in SUBSET Scan!Line /\ {"rm"} \in SUBSET Scan!Line
      /\ {"key", "send"} \in SUBSET Scan!Line /\ {"rm", "npx"} \in SUBSET Scan!Line
  BY DEF Scan!Line
<1>3. ASSUME NEW b \in Scan!Bodies PROVE FileIs(Scan!FileOf("text", b))
  <2>1. PICK ks \in SUBSET Scan!Line : b \in [ks -> 1..MaxLines]
    BY DEF Scan!Bodies, Scan!Body
  <2>. QED  BY <2>1 DEF FileIs, Scan!FileOf
<1>4. \A f \in Scan!SkillFiles : FileIs(f)
  BY <1>1, <1>2 DEF Scan!SkillFiles, Scan!Empty
<1>5. \A f \in Scan!RubricFiles : FileIs(f)
  BY <1>1, <1>2 DEF Scan!RubricFiles
<1>6. \A f \in Scan!Scripts : FileIs(f)
  BY <1>1, <1>2, <1>3 DEF Scan!Scripts
<1>. QED  BY <1>4, <1>5, <1>6

\* The scan begins on a directory of such files.
LEMMA ScanStartKeeps ==
  ASSUME ScanInv, Scan!Start
  PROVE  ScanInv'
<1>1. pc = "start" /\ pc' = "lines" /\ Unscanned /\ UNCHANGED <<findings, resaved, reported>>
  BY DEF Scan!Start, ScanInv
<1>2. structure' = Scan!Frontmatter(skill') /\ todo' = Scan!walk(skill') \ opts'.excludes
  BY DEF Scan!Start
<1>3. SkillIs'
  <2>1. PICK s \in Scan!SkillFiles, r \in Scan!RubricFiles, o \in Scan!Scripts, names \in SUBSET Scan!Names :
          skill' = [n \in names |-> CASE n = Scan!SKILL -> s [] n = Scan!RUBRIC -> r [] n = Scan!SCRIPT -> o]
    BY DEF Scan!Start
  <2>2. FileIs(s) /\ FileIs(r) /\ FileIs(o)
    BY FilesAre
  <2>3. \A n \in Scan!Names : n = Scan!SKILL \/ n = Scan!RUBRIC \/ n = Scan!SCRIPT
    BY DEF Scan!Names
  <2>4. Scan!SKILL # Scan!RUBRIC /\ Scan!SKILL # Scan!SCRIPT /\ Scan!RUBRIC # Scan!SCRIPT
    BY DEF Scan!SKILL, Scan!RUBRIC, Scan!SCRIPT
  <2>5. \A n \in names : skill'[n] = s \/ skill'[n] = r \/ skill'[n] = o
    BY <2>1, <2>3, <2>4
  <2>6. DOMAIN skill' = names /\ names \subseteq ScanNames
    BY <2>1 DEF Scan!Names, ScanNames
  <2>7. \A n \in names : FileIs(skill'[n])
    BY <2>2, <2>5
  <2>8. \A n \in names : FileIs(skill[n])'
    BY <2>7 DEF FileIs
  <2>. QED  BY <2>6, <2>8 DEF SkillIs
<1>4. IsFiniteSet(structure') /\ IsFiniteSet(findings')
  BY <1>1, <1>2, PackagingFinite DEF ScanInv, ScanTypes
<1>5. todo' = Listed'
  BY <1>2 DEF Listed, Scan!walk
<1>6. (InLinesOf(Listed \ todo))' = {}
  BY <1>5 DEF InLinesOf
<1>. QED  BY <1>1, <1>3, <1>4, <1>5, <1>6 DEF ScanInv, ScanTypes, Unscanned

\* The first pass goes on.
LEMMA ScanFileKeeps ==
  ASSUME ScanInv, NEW name \in Scan!Names, Scan!ScanFile(name)
  PROVE  ScanInv'
<1>1. /\ pc = "lines" /\ name \in todo /\ todo' = todo \ {name}
      /\ UNCHANGED <<skill, opts, pc, resaved, reported>>
  BY DEF Scan!ScanFile
<1>2. name \in Listed /\ name \in DOMAIN skill /\ todo \subseteq Listed
  BY <1>1, ListedIs DEF ScanInv
<1>3. /\ findings' = findings \cup InLines(name)
      /\ structure' = structure \/ structure' = structure \cup Scan!Packaging(skill[name])
  BY DEF Scan!ScanFile, InLines
<1>4. IsFiniteSet(findings')
  BY <1>2, <1>3, FileFinite, FS_Union DEF ScanInv, ScanTypes
<1>5. IsFiniteSet(structure')
  BY <1>3, PackagingFinite, FS_Union DEF ScanInv, ScanTypes
<1>6. Listed \ todo' = (Listed \ todo) \cup {name}
  BY <1>1, <1>2
<1>7. Listed' = Listed /\ SkillIs' = SkillIs /\ (InLinesOf(Listed \ todo))' = InLinesOf(Listed \ todo')
  BY <1>1, SameDirectory
<1>8. ~resaved => findings' = (InLinesOf(Listed \ todo))'
  <2>1. ~resaved => findings = InLinesOf(Listed \ todo)
    BY <1>1 DEF ScanInv
  <2>2. InLinesOf(Listed \ todo') = InLinesOf(Listed \ todo) \cup InLines(name)
    BY <1>6, OneMore
  <2>. QED  BY <1>3, <1>7, <2>1, <2>2
<1>. QED  BY <1>1, <1>2, <1>4, <1>5, <1>7, <1>8 DEF ScanInv, ScanTypes

\* The second pass begins once the first has read every listed file.
LEMMA SecondPassKeeps ==
  ASSUME ScanInv, Scan!SecondPass
  PROVE  ScanInv'
<1>1. /\ pc = "lines" /\ pc' = "compound" /\ todo = {} /\ todo' = Listed
      /\ UNCHANGED <<skill, opts, structure, findings, resaved, reported>>
  BY DEF Scan!SecondPass, Listed
<1>2. /\ Listed' = Listed /\ SkillIs' = SkillIs /\ (InLinesOf(Listed))' = InLinesOf(Listed)
      /\ (InWholeOf(Listed \ todo))' = {}
  <2>1. /\ Listed' = Listed /\ SkillIs' = SkillIs /\ (InLinesOf(Listed))' = InLinesOf(Listed)
        /\ (InWholeOf(Listed \ todo))' = InWholeOf(Listed \ todo')
    BY <1>1, SameDirectory
  <2>2. Listed \ todo' = {}
    BY <1>1
  <2>3. InWholeOf({}) = {}
    BY DEF InWholeOf
  <2>. QED  BY <2>1, <2>2, <2>3
<1>3. ~resaved => findings = InLinesOf(Listed)
  <2>1. Listed \ todo = Listed
    BY <1>1
  <2>. QED  BY <1>1, <2>1 DEF ScanInv
<1>4. ~resaved => findings' = (InLinesOf(Listed))' \cup (InWholeOf(Listed \ todo))'
  BY <1>1, <1>2, <1>3
<1>. QED  BY <1>1, <1>2, <1>4 DEF ScanInv, ScanTypes

\* And goes on.
LEMMA CompoundFileKeeps ==
  ASSUME ScanInv, NEW name \in Scan!Names, Scan!CompoundFile(name)
  PROVE  ScanInv'
<1>1. /\ pc = "compound" /\ name \in todo /\ todo' = todo \ {name}
      /\ UNCHANGED <<skill, opts, pc, structure, resaved, reported>>
  BY DEF Scan!CompoundFile
<1>2. name \in Listed /\ name \in DOMAIN skill /\ todo \subseteq Listed
  BY <1>1, ListedIs DEF ScanInv
<1>3. findings' = findings \cup InWhole(name)
  BY DEF Scan!CompoundFile, InWhole
<1>4. IsFiniteSet(findings')
  BY <1>2, <1>3, FileFinite, FS_Union DEF ScanInv, ScanTypes
<1>5. Listed \ todo' = (Listed \ todo) \cup {name}
  BY <1>1, <1>2
<1>6. /\ Listed' = Listed /\ SkillIs' = SkillIs /\ (InLinesOf(Listed))' = InLinesOf(Listed)
      /\ (InWholeOf(Listed \ todo))' = InWholeOf(Listed \ todo')
  BY <1>1, SameDirectory
<1>7. ~resaved => findings' = (InLinesOf(Listed))' \cup (InWholeOf(Listed \ todo))'
  <2>1. ~resaved => findings = InLinesOf(Listed) \cup InWholeOf(Listed \ todo)
    BY <1>1 DEF ScanInv
  <2>2. InWholeOf(Listed \ todo') = InWholeOf(Listed \ todo) \cup InWhole(name)
    BY <1>5, OneMore
  <2>. QED  BY <1>3, <1>6, <2>1, <2>2
<1>. QED  BY <1>1, <1>2, <1>4, <1>6, <1>7 DEF ScanInv, ScanTypes

\* The findings are collapsed when it has read them all, and reported if there are any.
LEMMA CollapseKeeps ==
  ASSUME ScanInv, Scan!Collapse
  PROVE  ScanInv'
<1>1. /\ pc = "compound" /\ todo = {} /\ findings' = Scan!collapsed(findings)
      /\ pc' = "done" \/ (pc' = "report" /\ (structure # {} \/ findings # {}))
      /\ UNCHANGED <<skill, opts, todo, structure, resaved, reported>>
  BY DEF Scan!Collapse
<1>2. /\ Listed' = Listed /\ SkillIs' = SkillIs /\ (InLinesOf(Listed))' = InLinesOf(Listed)
      /\ (InWholeOf(Listed))' = InWholeOf(Listed)
  BY <1>1, SameDirectory
<1>3. ~resaved => findings = InLinesOf(Listed) \cup InWholeOf(Listed)
  <2>1. Listed \ todo = Listed
    BY <1>1
  <2>. QED  BY <1>1, <2>1 DEF ScanInv
<1>4. IsFiniteSet(findings') /\ (findings' = {} <=> findings = {})
  BY <1>1, CollapsedFinite DEF ScanInv, ScanTypes
<1>5. ~resaved => findings' = Scan!collapsed((InLinesOf(Listed))' \cup (InWholeOf(Listed))')
  BY <1>1, <1>2, <1>3
<1>6. (Scan!collapsed(InLinesOf(Listed) \cup InWholeOf(Listed)))' =
        Scan!collapsed((InLinesOf(Listed))' \cup (InWholeOf(Listed))')
  BY DEF Scan!collapsed, Scan!Noisy
<1>7. reported = "not requested"
  BY <1>1 DEF ScanInv
<1>. QED  BY <1>1, <1>2, <1>4, <1>5, <1>6, <1>7 DEF ScanInv, ScanTypes

\* A report does not change what was found.
LEMMA ReportKeeps ==
  ASSUME ScanInv, NEW outcome, Scan!Report(outcome)
  PROVE  ScanInv'
<1>1. /\ pc = "report" /\ pc' = "done"
      /\ UNCHANGED <<skill, opts, todo, structure, findings, resaved>>
  BY DEF Scan!Report
<1>2. /\ Listed' = Listed /\ SkillIs' = SkillIs /\ (InLinesOf(Listed))' = InLinesOf(Listed)
      /\ (InWholeOf(Listed))' = InWholeOf(Listed)
  BY <1>1, SameDirectory
<1>3. (Scan!collapsed(InLinesOf(Listed) \cup InWholeOf(Listed)))' =
        Scan!collapsed(InLinesOf(Listed) \cup InWholeOf(Listed))
  BY <1>2 DEF Scan!collapsed, Scan!Noisy
<1>. QED  BY <1>1, <1>2, <1>3 DEF ScanInv, ScanTypes

\* After an edit the findings are only known to be finite.
LEMMA SkillEditKeeps ==
  ASSUME ScanInv, NEW name \in Scan!Names, Scan!Edit(name)
  PROVE  ScanInv'
<1>1. /\ pc \in {"lines", "compound"} /\ name \in DOMAIN skill /\ resaved'
      /\ UNCHANGED <<opts, pc, todo, structure, findings, reported>>
  BY DEF Scan!Edit
<1>2. PICK body \in {Scan!Empty, Scan!One({"rm"})} : skill' = [skill EXCEPT ![name].body = body]
  BY DEF Scan!Edit
<1>3. DOMAIN body \subseteq Scan!Line /\ \A l \in DOMAIN body : body[l] \in 1..MaxLines
  <2>1. 1 \in 1..MaxLines
    BY ScanAssumption
  <2>. QED  BY <1>2, <2>1 DEF Scan!Empty, Scan!One, Scan!Line
<1>4. SkillIs
  BY DEF ScanInv, ScanTypes
<1>5. DOMAIN skill' = DOMAIN skill /\ \A n \in DOMAIN skill : n # name => skill'[n] = skill[n]
  BY <1>2
<1>6. skill'[name] = [shape |-> skill[name].shape, body |-> body]
  <2>1. skill[name] = [shape |-> skill[name].shape, body |-> skill[name].body]
    BY <1>1, <1>4 DEF SkillIs, FileIs
  <2>. QED  BY <1>1, <1>2, <2>1
<1>7. FileIs(skill'[name])
  BY <1>3, <1>6 DEF FileIs
<1>8. \A n \in DOMAIN skill' : FileIs(skill'[n]) /\ skill'[n].shape = skill[n].shape
  BY <1>4, <1>5, <1>6, <1>7 DEF SkillIs
<1>9. SkillIs'
  <2>1. DOMAIN skill' \subseteq ScanNames
    BY <1>4, <1>5 DEF SkillIs
  <2>2. \A n \in DOMAIN skill' : FileIs(skill[n])'
    BY <1>8 DEF FileIs
  <2>. QED  BY <2>1, <2>2 DEF SkillIs
<1>10. Listed' = Listed
  <2>1. (Scan!walk(skill))' = Scan!walk(skill)
    BY <1>5, <1>8 DEF Scan!walk
  <2>. QED  BY <1>1, <2>1 DEF Listed
<1>. QED  BY <1>1, <1>9, <1>10 DEF ScanInv, ScanTypes

\* The scanner keeps the invariant.
LEMMA ScanKeeps ==
  ASSUME ScanInv, Scan!Next
  PROVE  ScanInv'
BY ScanStartKeeps, ScanFileKeeps, SecondPassKeeps, CompoundFileKeeps, CollapseKeeps, ReportKeeps, SkillEditKeeps
   DEF Scan!Next

\* And begins with it.
LEMMA ScanBegins == Scan!Init => ScanInv
<1>1. SUFFICES ASSUME Scan!Init PROVE ScanInv
  OBVIOUS
<1>2. DOMAIN skill = {}
  BY <1>1 DEF Scan!Init, Scan!One
<1>3. SkillIs
  BY <1>2 DEF SkillIs
<1>4. IsFiniteSet(structure) /\ IsFiniteSet(findings)
  BY <1>1, FS_EmptySet DEF Scan!Init
<1>. QED  BY <1>1, <1>3, <1>4 DEF Scan!Init, ScanInv, ScanTypes, Unscanned

---------------------------------------------------------------------------
(* The score of what was found.                                             *)

\* What the listed files amount to, file by file.
OfFile(n) == IF n \in Listed THEN InLines(n) \cup InWhole(n) ELSE {}
AllFound == OfFile(Scan!SKILL) \cup OfFile(Scan!RUBRIC) \cup OfFile(Scan!SCRIPT)

\* What the rubric takes off for one file's findings.
LossOf(S) == Scan!Weigh(Count(S, "CRITICAL"), Count(S, "HIGH"),
                   Cardinality(Scan!RulesOf(S, "MEDIUM")), Cardinality(Scan!RulesOf(S, "LOW")))
LossAs(n) == IF n \in DOMAIN skill /\ Scan!Ours(n) THEN Scan!FileLoss(n) ELSE 0

\* Three sets of findings weigh what they weigh apart.
LEMMA WeighAdds ==
  ASSUME NEW c1 \in Nat, NEW h1 \in Nat, NEW m1 \in Nat, NEW l1 \in Nat,
         NEW c2 \in Nat, NEW h2 \in Nat, NEW m2 \in Nat, NEW l2 \in Nat
  PROVE  /\ Scan!Weigh(c1 + c2, h1 + h2, m1 + m2, l1 + l2) = Scan!Weigh(c1, h1, m1, l1) + Scan!Weigh(c2, h2, m2, l2)
         /\ Scan!Weigh(c1, h1, m1, l1) \in Nat /\ Scan!Weigh(c1, h1, m1, l1) >= 20 * c1
BY DEF Scan!Weigh

\* The findings are those of the three files.
LEMMA FoundIs ==
  ASSUME SkillIs
  PROVE  /\ InLinesOf(Listed) \cup InWholeOf(Listed) = AllFound
         /\ \A n : IsFiniteSet(OfFile(n)) /\ Of(OfFile(n), n)
<1>1. Listed \subseteq ScanNames /\ Listed \subseteq DOMAIN skill
  BY ListedIs DEF SkillIs
<1>2. InLinesOf(Listed) \cup InWholeOf(Listed) = UNION {OfFile(n) : n \in ScanNames}
  <2>1. \A x : x \in InLinesOf(Listed) \cup InWholeOf(Listed) <=> \E n \in Listed : x \in InLines(n) \cup InWhole(n)
    BY DEF InLinesOf, InWholeOf
  <2>2. \A x : x \in UNION {OfFile(n) : n \in ScanNames} <=> \E n \in ScanNames : n \in Listed /\ x \in InLines(n) \cup InWhole(n)
    BY DEF OfFile
  <2>3. \A x : x \in InLinesOf(Listed) \cup InWholeOf(Listed) <=> x \in UNION {OfFile(n) : n \in ScanNames}
    BY <1>1, <2>1, <2>2
  <2>. QED  BY <2>3
<1>3. UNION {OfFile(n) : n \in ScanNames} = AllFound
  BY DEF ScanNames, AllFound
<1>4. ASSUME NEW n PROVE IsFiniteSet(OfFile(n)) /\ Of(OfFile(n), n)
  <2>1. CASE n \in Listed
    <3>1. /\ IsFiniteSet(InLines(n)) /\ Of(InLines(n), n)
          /\ IsFiniteSet(InWhole(n)) /\ Of(InWhole(n), n)
      BY <1>1, <2>1, FileFinite
    <3>2. IsFiniteSet(InLines(n) \cup InWhole(n))
      BY <3>1, FS_Union
    <3>3. Of(InLines(n) \cup InWhole(n), n)
      BY <3>1 DEF Of
    <3>. QED  BY <2>1, <3>2, <3>3 DEF OfFile
  <2>2. CASE n \notin Listed
    BY <2>2, FS_EmptySet DEF OfFile, Of
  <2>. QED  BY <2>1, <2>2
<1>. QED  BY <1>2, <1>3, <1>4

\* What a file loses is what the rubric takes off for its own findings.
LEMMA LossIs ==
  ASSUME SkillIs, NEW n
  PROVE  LossAs(n) = LossOf(OfFile(n))
<1>. DEFINE f == skill[n]
           hits == IF Scan!Readable(f) THEN Scan!LineFindings(n, f) ELSE {}
           both == IF Scan!SkippedByName(n, f) \/ ~Scan!Readable(f) THEN {} ELSE Scan!Compound(n, f)
<1>1. CASE n \in DOMAIN skill /\ Scan!Ours(n)
  <2>1. n \in Listed /\ ~Scan!SkippedByHeader(n, f)
    BY <1>1, ListedIs DEF Scan!Ours
  <2>2. hits = InLines(n) /\ both = InWhole(n)
    BY <2>1 DEF InLines, InWhole
  <2>3. \A x \in both : x.rule.severity = "CRITICAL"
    BY <1>1, <2>2, FileFinite
  <2>4. LossAs(n) = Scan!Loss(hits, both)
    BY <1>1 DEF LossAs, Scan!FileLoss
  <2>5. OfFile(n) = hits \cup both
    BY <2>1, <2>2 DEF OfFile
  <2>. HIDE DEF hits, both
  <2>6. \A s \in {"HIGH", "MEDIUM", "LOW"} : Scan!Graded(hits, s) = Scan!Graded(OfFile(n), s)
    BY <2>3, <2>5 DEF Scan!Graded
  <2>7. \A s \in {"MEDIUM", "LOW"} : Scan!RulesOf(hits, s) = Scan!RulesOf(OfFile(n), s)
    BY <2>6 DEF Scan!RulesOf
  <2>8. /\ Scan!Graded(hits \cup both, "CRITICAL") = Scan!Graded(OfFile(n), "CRITICAL")
        /\ Scan!Graded(hits, "HIGH") = Scan!Graded(OfFile(n), "HIGH")
        /\ Scan!RulesOf(hits, "MEDIUM") = Scan!RulesOf(OfFile(n), "MEDIUM")
        /\ Scan!RulesOf(hits, "LOW") = Scan!RulesOf(OfFile(n), "LOW")
    BY <2>5, <2>6, <2>7
  <2>9. Scan!Loss(hits, both) = LossOf(OfFile(n))
    BY <2>8, SameCardinality DEF LossOf, Count, Scan!Loss
  <2>. QED  BY <2>4, <2>9
<1>2. CASE ~(n \in DOMAIN skill /\ Scan!Ours(n))
  <2>1. OfFile(n) = {}
    <3>1. CASE n \notin Listed
      BY <3>1 DEF OfFile
    <3>2. CASE n \in Listed
      <4>1. Scan!SkippedByHeader(n, f)
        BY <1>2, <3>2, ListedIs DEF Scan!Ours
      <4>2. Scan!SkippedByName(n, f)
        BY <4>1 DEF Scan!SkippedByHeader, Scan!SkippedByName
      <4>3. InLines(n) = {} /\ InWhole(n) = {}
        BY <4>1, <4>2 DEF InLines, InWhole
      <4>. QED  BY <4>3 DEF OfFile
    <3>. QED  BY <3>1, <3>2
  <2>2. \A s : Scan!Graded({}, s) = {} /\ Scan!RulesOf({}, s) = {}
    BY DEF Scan!Graded, Scan!RulesOf
  <2>3. \A s : Count({}, s) = 0 /\ Cardinality(Scan!RulesOf({}, s)) = 0
    BY <2>2, FS_EmptySet DEF Count
  <2>4. LossOf({}) = 0
    BY <2>3 DEF LossOf, Scan!Weigh
  <2>. QED  BY <1>2, <2>1, <2>4 DEF LossAs
<1>. QED  BY <1>1, <1>2

\* The collapsed findings of the three files, counted by severity.
LEMMA CollapsedCounts ==
  ASSUME SkillIs, NEW s
  PROVE  Count(Scan!collapsed(AllFound), s) =
           Count(Scan!collapsed(OfFile(Scan!SKILL)), s) + Count(Scan!collapsed(OfFile(Scan!RUBRIC)), s)
           + Count(Scan!collapsed(OfFile(Scan!SCRIPT)), s)
<1>. DEFINE A == OfFile(Scan!SKILL)
           B == OfFile(Scan!RUBRIC)
           C == OfFile(Scan!SCRIPT)
<1>1. /\ IsFiniteSet(A) /\ Of(A, Scan!SKILL) /\ IsFiniteSet(B) /\ Of(B, Scan!RUBRIC)
      /\ IsFiniteSet(C) /\ Of(C, Scan!SCRIPT)
  BY FoundIs
<1>2. Scan!SKILL # Scan!RUBRIC /\ Scan!SKILL # Scan!SCRIPT /\ Scan!RUBRIC # Scan!SCRIPT
  BY DEF Scan!SKILL, Scan!RUBRIC, Scan!SCRIPT
<1>3. AllFound = (A \cup B) \cup C
  BY DEF AllFound
<1>. HIDE DEF A, B, C
<1>4. /\ IsFiniteSet(Scan!collapsed(A)) /\ Of(Scan!collapsed(A), Scan!SKILL)
      /\ IsFiniteSet(Scan!collapsed(B)) /\ Of(Scan!collapsed(B), Scan!RUBRIC)
      /\ IsFiniteSet(Scan!collapsed(C)) /\ Of(Scan!collapsed(C), Scan!SCRIPT)
  BY <1>1, CollapsedFinite, CountsOfFile
<1>5. Scan!collapsed(AllFound) = (Scan!collapsed(A) \cup Scan!collapsed(B)) \cup Scan!collapsed(C)
  <2>1. \A f \in (A \cup B) \cup C : Whole(f)
    BY <1>1 DEF Of
  <2>2. Scan!collapsed((A \cup B) \cup C) = Scan!collapsed(A \cup B) \cup Scan!collapsed(C)
    BY <2>1, CollapsedUnion
  <2>3. Scan!collapsed(A \cup B) = Scan!collapsed(A) \cup Scan!collapsed(B)
    BY <2>1, CollapsedUnion
  <2>. QED  BY <1>3, <2>2, <2>3
<1>. DEFINE X == Scan!collapsed(A)
           Y == Scan!collapsed(B)
           Z == Scan!collapsed(C)
<1>6. X \cap Y = {} /\ (X \cup Y) \cap Z = {}
  BY <1>2, <1>4 DEF Of
<1>. HIDE DEF X, Y, Z
<1>7. IsFiniteSet(X) /\ IsFiniteSet(Y) /\ IsFiniteSet(Z)
  BY <1>4 DEF X, Y, Z
<1>8. IsFiniteSet(X \cup Y)
  BY <1>7, FS_Union
<1>9. Count(X \cup Y, s) = Count(X, s) + Count(Y, s)
  BY <1>6, <1>7, CountsAdd
<1>10. Count((X \cup Y) \cup Z, s) = Count(X \cup Y, s) + Count(Z, s)
  BY <1>6, <1>7, <1>8, CountsAdd
<1>. QED  BY <1>5, <1>9, <1>10 DEF A, B, C, X, Y, Z

\* What the packaging loses.
Packaged(s) == Cardinality({x \in structure : x.severity = s})

\* The score is a hundred less what the weights take off, and never below zero.
LEMMA ScoreIs ==
  ASSUME IsFiniteSet(structure), NEW fs, IsFiniteSet(fs)
  PROVE  LET lost == Scan!Weigh(Packaged("CRITICAL") + Count(fs, "CRITICAL"), Packaged("HIGH") + Count(fs, "HIGH"),
                                Packaged("MEDIUM") + Count(fs, "MEDIUM"), Packaged("LOW") + Count(fs, "LOW"))
         IN Scan!scoreOf(Scan!Severities(structure, fs)) = IF lost > 100 THEN 0 ELSE 100 - lost
<1>. DEFINE c == Scan!Severities(structure, fs)
<1>1. /\ c["CRITICAL"] = Packaged("CRITICAL") + Count(fs, "CRITICAL") /\ c["HIGH"] = Packaged("HIGH") + Count(fs, "HIGH")
      /\ c["MEDIUM"] = Packaged("MEDIUM") + Count(fs, "MEDIUM") /\ c["LOW"] = Packaged("LOW") + Count(fs, "LOW")
  BY SameCardinality DEF Scan!Severities, Scan!Severity, Packaged, Count
<1>2. \A s : Packaged(s) \in Nat /\ Count(fs, s) \in Nat
  <2>1. ASSUME NEW s PROVE Packaged(s) \in Nat
    <3>1. IsFiniteSet({x \in structure : x.severity = s})
      BY FS_Subset
    <3>. QED  BY <3>1, FS_CardinalityType DEF Packaged
  <2>. QED  BY <2>1, CountNat
<1>. HIDE DEF c
<1>3. /\ c["CRITICAL"] \in Nat /\ c["HIGH"] \in Nat /\ c["MEDIUM"] \in Nat /\ c["LOW"] \in Nat
  BY <1>1, <1>2
<1>4. PICK cr \in Nat, hi \in Nat, me \in Nat, lo \in Nat :
        c["CRITICAL"] = cr /\ c["HIGH"] = hi /\ c["MEDIUM"] = me /\ c["LOW"] = lo
  BY <1>3
<1>5. Scan!scoreOf(c) = IF cr >= 5 \/ 20 * cr + 10 * hi + 3 * me + lo > 100 THEN 0
                        ELSE 100 - (20 * cr + 10 * hi + 3 * me + lo)
  BY <1>4 DEF Scan!scoreOf
<1>6. Scan!scoreOf(c) = IF Scan!Weigh(cr, hi, me, lo) > 100 THEN 0 ELSE 100 - Scan!Weigh(cr, hi, me, lo)
  BY <1>5 DEF Scan!Weigh
<1>. QED  BY <1>1, <1>4, <1>6 DEF c

\* The packaging's loss, over the same counts.
LEMMA PackagedIs ==
  Scan!PackagingLoss = Scan!Weigh(Packaged("CRITICAL"), Packaged("HIGH"), Packaged("MEDIUM"), Packaged("LOW"))
BY SameCardinality DEF Scan!PackagingLoss, Packaged

\* The counts of a file's collapsed findings weigh what the file loses.
LEMMA CollapsedWeigh ==
  ASSUME SkillIs, NEW n
  PROVE  LET C == Scan!collapsed(OfFile(n))
         IN /\ LossOf(OfFile(n)) = Scan!Weigh(Count(C, "CRITICAL"), Count(C, "HIGH"), Count(C, "MEDIUM"), Count(C, "LOW"))
            /\ IsFiniteSet(C)
            /\ \A s : Count(C, s) \in Nat
<1>1. IsFiniteSet(OfFile(n)) /\ Of(OfFile(n), n)
  BY FoundIs
<1>2. /\ \A s \in {"CRITICAL", "HIGH"} : Count(Scan!collapsed(OfFile(n)), s) = Count(OfFile(n), s)
      /\ \A s \in {"MEDIUM", "LOW"} : Count(Scan!collapsed(OfFile(n)), s) = Cardinality(Scan!RulesOf(OfFile(n), s))
  BY <1>1, CountsOfFile
<1>3. IsFiniteSet(Scan!collapsed(OfFile(n)))
  BY <1>1, CollapsedFinite
<1>4. \A s : Count(Scan!collapsed(OfFile(n)), s) \in Nat
  BY <1>3, CountNat
<1>. QED  BY <1>2, <1>3, <1>4 DEF LossOf

\* The score of an undisturbed scan is the rubric's over each file.
LEMMA ScanScores ==
  ASSUME ScanInv
  PROVE  Scan!ScoreIsRubrics
<1>. SUFFICES ASSUME pc \in {"report", "done"}, ~resaved
              PROVE  LET total == Scan!PackagingLoss + LossAs(Scan!SKILL) + LossAs(Scan!RUBRIC) + LossAs(Scan!SCRIPT)
                     IN Scan!score = IF total > 100 THEN 0 ELSE 100 - total
  BY DEF Scan!ScoreIsRubrics, LossAs
<1>1. SkillIs /\ IsFiniteSet(structure) /\ IsFiniteSet(findings)
  BY DEF ScanInv, ScanTypes
<1>2. findings = Scan!collapsed(AllFound)
  BY <1>1, FoundIs DEF ScanInv
<1>3. Scan!collapsed(findings) = findings
  <2>1. \A n : Of(OfFile(n), n)
    BY <1>1, FoundIs
  <2>2. \A f \in AllFound : Whole(f)
    BY <2>1 DEF AllFound, Of
  <2>. QED  BY <1>2, <2>2, CollapsedTwice
<1>. DEFINE K(n) == Scan!collapsed(OfFile(n))
           W(n) == Scan!Weigh(Count(K(n), "CRITICAL"), Count(K(n), "HIGH"), Count(K(n), "MEDIUM"), Count(K(n), "LOW"))
<1>4. \A n : LossAs(n) = W(n) /\ \A s : Count(K(n), s) \in Nat
  BY <1>1, LossIs, CollapsedWeigh
<1>5. \A s : Count(findings, s) = Count(K(Scan!SKILL), s) + Count(K(Scan!RUBRIC), s) + Count(K(Scan!SCRIPT), s)
  BY <1>1, <1>2, CollapsedCounts
<1>6. \A s : Packaged(s) \in Nat
  <2>1. ASSUME NEW s PROVE Packaged(s) \in Nat
    <3>1. IsFiniteSet({x \in structure : x.severity = s})
      BY <1>1, FS_Subset
    <3>. QED  BY <3>1, FS_CardinalityType DEF Packaged
  <2>. QED  BY <2>1
<1>. DEFINE lost == Scan!Weigh(Packaged("CRITICAL") + Count(findings, "CRITICAL"), Packaged("HIGH") + Count(findings, "HIGH"),
                               Packaged("MEDIUM") + Count(findings, "MEDIUM"), Packaged("LOW") + Count(findings, "LOW"))
<1>7. Scan!score = IF lost > 100 THEN 0 ELSE 100 - lost
  BY <1>1, <1>3, ScoreIs DEF Scan!score
<1>8. lost = Scan!PackagingLoss + W(Scan!SKILL) + W(Scan!RUBRIC) + W(Scan!SCRIPT)
  <2>. HIDE DEF K
  <2>1. \A s : Packaged(s) \in Nat /\ Count(K(Scan!SKILL), s) \in Nat /\ Count(K(Scan!RUBRIC), s) \in Nat
               /\ Count(K(Scan!SCRIPT), s) \in Nat
    BY <1>4, <1>6
  <2>2. PICK pc1 \in Nat, ph \in Nat, pm \in Nat, pl \in Nat :
          Packaged("CRITICAL") = pc1 /\ Packaged("HIGH") = ph /\ Packaged("MEDIUM") = pm /\ Packaged("LOW") = pl
    BY <2>1
  <2>3. PICK ac \in Nat, ah \in Nat, am \in Nat, al \in Nat :
          /\ Count(K(Scan!SKILL), "CRITICAL") = ac /\ Count(K(Scan!SKILL), "HIGH") = ah
          /\ Count(K(Scan!SKILL), "MEDIUM") = am /\ Count(K(Scan!SKILL), "LOW") = al
    BY <2>1
  <2>4. PICK bc \in Nat, bh \in Nat, bm \in Nat, bl \in Nat :
          /\ Count(K(Scan!RUBRIC), "CRITICAL") = bc /\ Count(K(Scan!RUBRIC), "HIGH") = bh
          /\ Count(K(Scan!RUBRIC), "MEDIUM") = bm /\ Count(K(Scan!RUBRIC), "LOW") = bl
    BY <2>1
  <2>5. PICK cc \in Nat, ch \in Nat, cm \in Nat, cl \in Nat :
          /\ Count(K(Scan!SCRIPT), "CRITICAL") = cc /\ Count(K(Scan!SCRIPT), "HIGH") = ch
          /\ Count(K(Scan!SCRIPT), "MEDIUM") = cm /\ Count(K(Scan!SCRIPT), "LOW") = cl
    BY <2>1
  <2>6. lost = Scan!Weigh(pc1 + (ac + bc + cc), ph + (ah + bh + ch), pm + (am + bm + cm), pl + (al + bl + cl))
    BY <1>5, <2>2, <2>3, <2>4, <2>5
  <2>7. /\ Scan!PackagingLoss = Scan!Weigh(pc1, ph, pm, pl) /\ W(Scan!SKILL) = Scan!Weigh(ac, ah, am, al)
        /\ W(Scan!RUBRIC) = Scan!Weigh(bc, bh, bm, bl) /\ W(Scan!SCRIPT) = Scan!Weigh(cc, ch, cm, cl)
    BY <2>2, <2>3, <2>4, <2>5, PackagedIs
  <2>8. Scan!Weigh(pc1 + (ac + bc + cc), ph + (ah + bh + ch), pm + (am + bm + cm), pl + (al + bl + cl)) =
          Scan!Weigh(pc1, ph, pm, pl) + Scan!Weigh(ac, ah, am, al) + Scan!Weigh(bc, bh, bm, bl) + Scan!Weigh(cc, ch, cm, cl)
    BY DEF Scan!Weigh
  <2>. QED  BY <2>6, <2>7, <2>8
<1>9. lost = Scan!PackagingLoss + LossAs(Scan!SKILL) + LossAs(Scan!RUBRIC) + LossAs(Scan!SCRIPT)
  BY <1>4, <1>8
<1>. HIDE DEF lost
<1>. QED  BY <1>7, <1>9

\* A critical finding takes off twenty, and the skill is not let in.
LEMMA CriticalStops ==
  ASSUME ScanInv, NEW f \in findings, f.rule.severity = "CRITICAL"
  PROVE  Scan!action # "ALLOW"
<1>1. IsFiniteSet(structure) /\ IsFiniteSet(findings)
  BY DEF ScanInv, ScanTypes
<1>. DEFINE C == Scan!collapsed(findings)
<1>2. IsFiniteSet(C)
  BY <1>1, CollapsedFinite
<1>3. f \in C
  BY DEF Scan!collapsed, Scan!Noisy
<1>. HIDE DEF C
<1>4. Count(C, "CRITICAL") \in Nat /\ Count(C, "CRITICAL") # 0
  BY <1>2, <1>3, CountNat DEF Scan!Graded
<1>5. \A s : Packaged(s) \in Nat /\ Count(C, s) \in Nat
  <2>1. ASSUME NEW s PROVE Packaged(s) \in Nat
    <3>1. IsFiniteSet({x \in structure : x.severity = s})
      BY <1>1, FS_Subset
    <3>. QED  BY <3>1, FS_CardinalityType DEF Packaged
  <2>. QED  BY <1>2, <2>1, CountNat
<1>6. PICK cr \in Nat, hi \in Nat, me \in Nat, lo \in Nat :
        /\ cr = Packaged("CRITICAL") + Count(C, "CRITICAL") /\ hi = Packaged("HIGH") + Count(C, "HIGH")
        /\ me = Packaged("MEDIUM") + Count(C, "MEDIUM") /\ lo = Packaged("LOW") + Count(C, "LOW")
        /\ cr >= 1
  BY <1>4, <1>5
<1>7. Scan!score = IF Scan!Weigh(cr, hi, me, lo) > 100 THEN 0 ELSE 100 - Scan!Weigh(cr, hi, me, lo)
  BY <1>1, <1>2, <1>6, ScoreIs DEF Scan!score, C
<1>8. Scan!Weigh(cr, hi, me, lo) \in Nat /\ Scan!Weigh(cr, hi, me, lo) >= 20
  BY <1>6 DEF Scan!Weigh
<1>9. Scan!score \in Int /\ Scan!score <= 80
  BY <1>7, <1>8
<1>. QED  BY <1>9 DEF Scan!action

\* A command that deletes, hidden or not, is a critical finding of a file that is scanned.
LEMMA DeletesFound ==
  ASSUME SkillIs, opts.deobfuscate, NEW n \in DOMAIN skill, Scan!Ours(n), Scan!Readable(skill[n]),
         NEW l \in DOMAIN skill[n].body, l \in Scan!Hidden \cup {"rm"}
  PROVE  \E f \in OfFile(n) : f.rule.severity = "CRITICAL"
<1>1. n \in Listed /\ ~Scan!SkippedByHeader(n, skill[n])
  BY ListedIs DEF Scan!Ours
<1>2. OfFile(n) = Scan!LineFindings(n, skill[n]) \cup InWhole(n)
  BY <1>1 DEF OfFile, InLines
<1>3. <<l, 1>> \in Scan!Lines(skill[n].body)
  <2>1. skill[n].body[l] \in 1..MaxLines /\ 1 \in 1..MaxLines
    BY ScanAssumption DEF SkillIs, FileIs
  <2>2. 1 <= skill[n].body[l]
    BY <2>1, ScanAssumption
  <2>. QED  BY <2>1, <2>2 DEF Scan!Lines
<1>4. \E r \in Scan!scanLine(l) \cup (IF opts.deobfuscate THEN Scan!deobfuscate(l) ELSE {}) : r.severity = "CRITICAL"
  <2>1. Scan!Delete.severity = "CRITICAL" /\ \A v : [Scan!Delete EXCEPT !.via = v].severity = "CRITICAL"
    BY DEF Scan!Delete, Scan!Rule
  <2>2. CASE l = "rm"
    BY <2>1, <2>2 DEF Scan!scanLine
  <2>3. CASE l \in Scan!Hidden
    BY <2>1, <2>3 DEF Scan!deobfuscate
  <2>. QED  BY <2>2, <2>3
<1>5. PICK r \in Scan!scanLine(l) \cup (IF opts.deobfuscate THEN Scan!deobfuscate(l) ELSE {}) : r.severity = "CRITICAL"
  BY <1>4
<1>6. [rule |-> r, file |-> n, line |-> <<l, 1>>] \in Scan!LineFindings(n, skill[n])
  <2>. DEFINE ln == <<l, 1>>
  <2>1. ln[1] = l /\ ln[2] = 1
    OBVIOUS
  <2>2. [rule |-> r, file |-> n, line |-> <<l, 1>>] \in
          Scan!In(n, ln[1], ln[2], Scan!scanLine(ln[1]) \cup (IF opts.deobfuscate THEN Scan!deobfuscate(ln[1]) ELSE {}))
    BY <1>5, <2>1 DEF Scan!In
  <2>3. ln \in Scan!Lines(skill[n].body)
    BY <1>3
  <2>. HIDE DEF ln
  <2>. QED  BY <2>2, <2>3 DEF Scan!LineFindings
<1>. QED  BY <1>2, <1>5, <1>6

\* And a critical finding is still there after collapsing.
LEMMA ScanStops ==
  ASSUME ScanInv
  PROVE  Scan!NeverAllowed
<1>1. SUFFICES ASSUME pc = "done" PROVE Scan!NeverAllowed
  BY DEF Scan!NeverAllowed
<1>2. reported # "not requested" => structure # {} \/ findings # {}
  BY DEF ScanInv
<1>3. ASSUME ~resaved, opts.deobfuscate, NEW n \in DOMAIN skill, Scan!Ours(n), Scan!Readable(skill[n]),
             DOMAIN skill[n].body \cap (Scan!Hidden \cup {"rm"}) # {}
      PROVE  \E f \in findings : f.rule.severity = "CRITICAL"
  <2>1. SkillIs
    BY DEF ScanInv, ScanTypes
  <2>2. PICK l \in DOMAIN skill[n].body : l \in Scan!Hidden \cup {"rm"}
    BY <1>3
  <2>3. PICK f \in OfFile(n) : f.rule.severity = "CRITICAL"
    BY <1>3, <2>1, <2>2, DeletesFound
  <2>4. n \in ScanNames
    BY <2>1 DEF SkillIs
  <2>5. f \in AllFound
    BY <2>3, <2>4 DEF AllFound, ScanNames
  <2>6. findings = Scan!collapsed(AllFound)
    BY <1>1, <1>3, <2>1, FoundIs DEF ScanInv
  <2>7. f \in Scan!collapsed(AllFound)
    BY <2>3, <2>5 DEF Scan!collapsed, Scan!Noisy
  <2>. QED  BY <2>3, <2>6, <2>7
<1>4. (\E f \in findings : f.rule.severity = "CRITICAL") => Scan!action # "ALLOW"
  BY CriticalStops
<1>. QED  BY <1>2, <1>3, <1>4 DEF Scan!NeverAllowed

\* The score of a skill that is not edited during its scan is the rubric's formula over
\* each of its files on its own, and one with a critical finding is never let in.
THEOREM ScanSoundAlways == HostSpec => []ScanSound
<1>1. HostInit => ScanInv
  BY ScanBegins DEF HostInit
<1>2. ScanInv /\ [HostNext]_hostVars => ScanInv'
  <2>1. SUFFICES ASSUME ScanInv, [HostNext]_hostVars PROVE ScanInv'
    OBVIOUS
  <2>2. CASE Scan!Next
    BY <2>1, <2>2, ScanKeeps
  <2>3. CASE UNCHANGED scan
    <3>1. UNCHANGED <<skill, opts, pc, todo, structure, findings, resaved, reported>>
      BY <2>3 DEF scan
    <3>2. /\ Listed' = Listed /\ SkillIs' = SkillIs
          /\ (InLinesOf(Listed \ todo))' = InLinesOf(Listed \ todo) /\ (InWholeOf(Listed \ todo))' = InWholeOf(Listed \ todo)
          /\ (InLinesOf(Listed))' = InLinesOf(Listed) /\ (InWholeOf(Listed))' = InWholeOf(Listed)
      BY <3>1, SameDirectory
    <3>3. (Scan!collapsed(InLinesOf(Listed) \cup InWholeOf(Listed)))' =
            Scan!collapsed(InLinesOf(Listed) \cup InWholeOf(Listed))
      BY <3>2 DEF Scan!collapsed, Scan!Noisy
    <3>. QED  BY <2>1, <3>1, <3>2, <3>3 DEF ScanInv, ScanTypes, Unscanned
  <2>. QED  BY <2>1, <2>2, <2>3 DEF HostNext, hostVars
<1>3. ScanInv => ScanSound
  BY ScanScores, ScanStops DEF ScanSound
<1>. QED  BY <1>1, <1>2, <1>3, PTL DEF HostSpec
=============================================================================
