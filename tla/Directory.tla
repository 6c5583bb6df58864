------------------------------ MODULE Directory ------------------------------
(***************************************************************************)
(* The key directory: what the relay keeps of a publication and serves by  *)
(* the shard (src/server.js), and how the CLI client (src/client.js) and   *)
(* the messenger page look a peer up in it, with one slot for the answer.  *)
(* Connections deliver in order.  A relay that tampers may answer with an  *)
(* altered entry: the client is meant to notice.  A prekey is <<the peer   *)
(* that signed it, id>>; a bundle is the identity it is signed by.         *)
(***************************************************************************)
EXTENDS Integers, Sequences, FiniteSets, FiniteSetsExt

CONSTANTS
  Peer,
  Mistyped,     \* a text of 44 characters that is no address
  None,
  ShardOf,      \* the shard of each address, by directoryShard()
  Hash,         \* the number selectOneTimePrekey() derives for each address
  MaxShard,     \* entries and prekeys that fit in a line
  Ids,          \* the ids of each address's prekeys
  MaxLookups,   \* bound: lookups asked for
  MaxSends      \* bound: messages sent meanwhile

\* What a lookup is for: its number, and whether the peer had published by then.
Lookups == [target : Peer \cup {Mistyped}, number : Nat, published : BOOLEAN]

ASSUME DirectoryAssumption ==
  /\ None \notin Peer \cup Lookups
  /\ {MaxLookups, MaxSends} \subseteq Nat

VARIABLES
  client,       \* "cli" or "page"
  directory,    \* the relay's: the pool of each address that published
  requests,     \* client -> relay
  answers,      \* relay -> client
  slot,         \* the lookup pendingDirectory belongs to
  waiting,      \* the lookups whose promise is not settled
  recipient,    \* whom the client talks to
  ended,        \* history: the lookups that ended, and how
  lookups, sends,
  tampered,     \* history: an answer was altered
  crossed       \* history: an answer came for a lookup that had ended by an error or was replaced

clientVars == <<slot, waiting, recipient, ended>>
vars == <<client, directory, requests, answers, slot, waiting, recipient, ended,
          lookups, sends, tampered, crossed>>

Unpublished == {<<None, 0>>}
Published == {p \in Peer : directory[p] # Unpublished}
Nobody == [address |-> None, owner |-> None, otk |-> <<None, 0>>]

Init ==
  /\ client \in {"cli", "page"}
  /\ directory = [p \in Peer |-> Unpublished]
  /\ requests = <<>> /\ answers = <<>>
  /\ slot = None /\ waiting = {} /\ recipient = Nobody /\ ended = {}
  /\ lookups = 0 /\ sends = 0 /\ tampered = FALSE /\ crossed = FALSE

---------------------------------------------------------------------------
(* The relay.                                                              *)

\* A peer publishes its pool whole, or again with a prekey less that was used.
Publish(p) ==
  /\ \/ directory' = [directory EXCEPT ![p] = {p} \X Ids[p]]
     \/ \E k \in directory[p] : p \in Published /\ directory' = [directory EXCEPT ![p] = @ \ {k}]
  /\ directory' # directory
  /\ UNCHANGED <<client, requests, answers, clientVars, lookups, sends, tampered, crossed>>

\* isPlausibleEnvelope(): the fields an envelope of each mode must have, which the
\* request carries the outcome of.  A group's
\* ciphertext and a cover frame's have a cap of their own.
Required(env) ==
  CASE env.mode \in {"cover", "group"} -> {"ciphertext", "within the cap"}
    [] env.mode = "pair" -> {"header", "keys", "ciphertext"} \cup
         (IF env.first THEN {"senderSignPk", "pq_pk", "pq_ct", "bundle"} ELSE {})
Plausible(env) == Required(env) \subseteq env.fields

\* What the clients send: first messages are complete, later ones omit what the
\* receiver has; a group's message may be any size.
Complete == {"header", "keys", "ciphertext", "within the cap"}
Envelopes ==
  {[mode |-> "pair", first |-> TRUE, fields |-> Complete \cup {"senderSignPk", "pq_pk", "pq_ct", "bundle"}],
   [mode |-> "pair", first |-> FALSE, fields |-> Complete],
   [mode |-> "cover", first |-> FALSE, fields |-> {"ciphertext", "within the cap"}]}
  \cup IF client = "page" THEN {[mode |-> "group", first |-> FALSE, fields |-> {"ciphertext"}]} ELSE {}

Shard(s) == {p \in Published : ShardOf[p] = s}

Error == [type |-> "error", shard |-> 0, entries |-> {}]
Entry(p) == [address |-> p, bundle |-> p, pool |-> directory[p]]

\* fetch-shard: the whole shard, unless it does not fit in a line.
Answer(s) ==
  IF MapThenSumSet(LAMBDA p : 1 + Cardinality(directory[p]), Shard(s)) > MaxShard THEN Error
  ELSE [type |-> "directory-shard", shard |-> s, entries |-> {Entry(p) : p \in Shard(s)}]

\* The relay handles the next request.  A message is acknowledged, which the
\* clients only show; refused, or it finds the queue full.
Handle ==
  /\ requests # <<>> /\ requests' = Tail(requests)
  /\ LET r == Head(requests) IN
     IF r.type = "fetch-shard" THEN answers' = Append(answers, Answer(r.shard))
     ELSE \/ answers' = Append(answers, Error)
          \/ r.plausible /\ UNCHANGED answers
  /\ UNCHANGED <<client, directory, clientVars, lookups, sends, tampered, crossed>>

\* An entry is changed on the way: another bundle, another pool, another name.
Tamper ==
  /\ answers # <<>> /\ ~tampered /\ tampered' = TRUE
  /\ \E e \in Head(answers).entries, p, q \in Peer :
       \E f \in {[e EXCEPT !.bundle = p], [e EXCEPT !.pool = {p} \X Ids[p]], [e EXCEPT !.address = p],
                 [address |-> p, bundle |-> p, pool |-> {q} \X Ids[q]]} :
         answers' = <<[Head(answers) EXCEPT !.entries = (@ \ {e}) \cup {f}]>> \o Tail(answers)
  /\ UNCHANGED <<client, directory, requests, clientVars, lookups, sends, crossed>>

---------------------------------------------------------------------------
(* The client.                                                             *)

Lookup(t) == [target |-> t, number |-> lookups + 1, published |-> t \in Published]
Ends(l, how) == ended' = ended \cup {[lookup |-> l, how |-> how]}

\* Mutant: a lookup does not wait for the one before.
NeverBusy == FALSE

\* "/to already in progress": only in the CLI.
Busy == client = "cli" /\ slot # None

\* /to, and the address the client was started with: the slot is taken before
\* directoryShard() throws at a text that is no address.
Ask(t) ==
  /\ lookups < MaxLookups /\ lookups' = lookups + 1
  /\ LET l == Lookup(t) IN
     CASE Busy -> Ends(l, "in-progress") /\ UNCHANGED <<requests, slot, waiting, crossed>>
       [] ~Busy /\ t = Mistyped -> slot' = l /\ Ends(l, "no-address") /\ UNCHANGED <<requests, waiting, crossed>>
       [] OTHER -> /\ slot' = l /\ waiting' = waiting \cup {l}
                   /\ requests' = Append(requests, [type |-> "fetch-shard", shard |-> ShardOf[t]])
                   /\ crossed' = (crossed \/ (client = "page" /\ waiting # {}))
                   /\ UNCHANGED ended
  /\ UNCHANGED <<client, directory, answers, recipient, sends, tampered>>

Send ==
  /\ sends < MaxSends /\ sends' = sends + 1
  /\ \E env \in Envelopes :
       /\ env.mode = "pair" => recipient # Nobody
       /\ requests' = Append(requests, [type |-> "send", shard |-> 0, plausible |-> Plausible(env)])
  /\ UNCHANGED <<client, directory, answers, clientVars, lookups, tampered, crossed>>

\* selectOneTimePrekey(): by the sender's hash, among the pool sorted by id.
selectOneTimePrekey(pool, h) ==
  IF pool = {} THEN <<None, 0>>
  ELSE CHOOSE k \in pool : Cardinality({j \in pool : j[2] < k[2]}) = h % Cardinality(pool)

\* Mutant: the entry found under the address is taken as it is.
AnyBundle(e, t) == TRUE

\* The bundle's keys derive the address it was asked for.
Derives(e, t) == e.bundle = t

\* resolveFromShard(), fetchDirectory().
resolveFromShard(entries, t) ==
  LET found == {e \in entries : e.address = t}
      e == CHOOSE e \in found : TRUE
      otk == selectOneTimePrekey(e.pool, Hash[t])
  IN CASE found = {} -> [how |-> "not-registered", recipient |-> Nobody]
       [] found # {} /\ ~Derives(e, t) -> [how |-> "tampered", recipient |-> Nobody]
       [] found # {} /\ Derives(e, t) /\ otk[1] \notin {None, e.bundle} -> [how |-> "foreign-prekey", recipient |-> Nobody]
       [] OTHER -> [how |-> "resolved", recipient |-> [address |-> t, owner |-> e.bundle, otk |-> otk]]

\* Mutant: an error that answers a lookup leaves the slot taken.
ErrorKeeps == slot

\* An error frees the slot in the CLI; the page does not look at errors.
AfterError == IF client = "cli" THEN None ELSE slot

\* The next answer goes to whatever lookup holds the slot.
Receive ==
  /\ answers # <<>> /\ answers' = Tail(answers)
  /\ LET a == Head(answers) IN
     IF slot = None THEN UNCHANGED clientVars
     ELSE IF a.type = "error"
     THEN /\ slot' = AfterError
          /\ IF client = "cli"
             THEN waiting' = waiting \ {slot} /\ (IF slot \in waiting THEN Ends(slot, "error") ELSE UNCHANGED ended)
             ELSE UNCHANGED <<waiting, ended>>
          /\ UNCHANGED recipient
     ELSE /\ slot' = None /\ waiting' = waiting \ {slot}
          /\ IF slot \notin waiting THEN UNCHANGED <<recipient, ended>>
             ELSE LET r == resolveFromShard(a.entries, slot.target) IN
                  /\ Ends(slot, r.how)
                  /\ recipient' = IF r.how = "resolved" THEN r.recipient ELSE recipient
  /\ crossed' = (crossed \/ (Head(answers).type = "error" /\ requests # <<>>)
                        \/ (Head(answers).type = "error" /\ Tail(answers) # <<>>))
  /\ UNCHANGED <<client, directory, requests, lookups, sends, tampered>>

Next ==
  \/ \E p \in Peer : Publish(p)
  \/ \E t \in Peer \cup {Mistyped} : Ask(t)
  \/ Handle \/ Tamper \/ Send \/ Receive

Spec == Init /\ [][Next]_vars

---------------------------------------------------------------------------

\* Whatever answer reached whatever lookup, and whoever changed it on the way,
\* the client talks to the owner of the address it asked for, with a prekey that
\* owner signed: a mixed-up answer fails, it never redirects.
TalksToAsked ==
  recipient # Nobody =>
    /\ recipient.owner = recipient.address /\ recipient.otk[1] \in {None, recipient.owner}
    /\ \E e \in ended : e.how = "resolved" /\ e.lookup.target = recipient.address

Fetches == {i \in 1..Len(requests) : requests[i].type = "fetch-shard"}

\* In the CLI the slot is taken only while something that frees it is on its
\* way: errors of other requests, answers that come late and shards that do not
\* fit leave no lookup behind.  A mistyped address is the exception.
SlotFreed ==
  (client = "cli" /\ slot # None /\ slot.target # Mistyped) =>
    waiting = {slot} /\ (Fetches # {} \/ answers # <<>>)

\* "address not in shard (peer not registered)": a lookup that ends like this was
\* made before the peer published, unless its answer was altered or mixed up with
\* another's.
FailsForCause ==
  \A e \in ended : (e.how = "not-registered" /\ e.lookup.published) => tampered \/ crossed

\* /to talks to the address it was asked for, a lookup that ended frees the slot,
\* and one fails only for a cause.
LookupsHold == TalksToAsked /\ SlotFreed /\ FailsForCause

\* Without the exception: "use /to <address> to re-target" (src/client.js:506).
ToStaysUsable == (client = "cli" /\ slot # None) => (Fetches # {} \/ answers # <<>>)
=============================================================================
