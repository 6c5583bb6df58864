-------------------------------- MODULE Group --------------------------------
(***************************************************************************)
(* A group channel: class GroupSession of public/group-core.js in the tabs *)
(* of the members, with the storage and the handlers messenger.html gives  *)
(* it, over the relay's fan-out.                                           *)
(*                                                                         *)
(* An epoch key is symbolic: the sequence of the commits that led to it.   *)
(* Two keys are equal exactly when the same commits were applied.          *)
(***************************************************************************)
EXTENDS Naturals, Sequences, FiniteSets

CONSTANTS
  Member,      \* addresses
  None,        \* absence of a session, a welcome, a key or a commit
  Founders,    \* the members that are in the group from the start
  Committers,  \* the members that build commits
  Channel,     \* what the relay does to a member's mail: "fifo" or "replay"
  MaxTexts,    \* bound: texts sent
  MaxCommits,  \* bound: commits built
  MaxReloads   \* bound: reloads of a tab

ASSUME GroupAssumption ==
  /\ Founders \subseteq Member /\ Committers \subseteq Member
  /\ Channel \in {"fifo", "replay"}
  /\ {MaxTexts, MaxCommits, MaxReloads} \subseteq Nat

\* A commit, an epoch key, a welcome and a session.
CommitOf == [to : Nat, secret : Nat, members : SUBSET Member]
Key == Seq(CommitOf)
Welcome == [epoch : Nat, key : Key, members : SUBSET Member]
Session ==
  [epoch : Nat, key : Key, prev : Key \cup {None}, members : SUBSET Member,
   sent : Nat, seen : SUBSET (Member \X Nat \X Nat)]

ASSUME NoneIsNothing ==
  None \notin CommitOf /\ None \notin Key /\ None \notin Welcome /\ None \notin Session

VARIABLES
  session,   \* each member's GroupSession, None before it joined
  file,      \* the welcome in each member's storage
  welcome,   \* the last welcome each member was given
  mail,      \* for each member, the ids of the envelopes on their way
  \* History, read by the properties and the bounds only.
  wire,      \* every envelope sent; its index is its id
  read,      \* the ids each member decrypted, in order
  refused,   \* <<member, id, epoch>> of each not decrypted, and the member's epoch
  joinedAt,  \* the epoch at which each member joined
  reloads    \* reloads so far

historyVars == <<wire, read, refused, joinedAt, reloads>>
vars == <<session, file, welcome, mail, historyVars>>

------------------------------------------------------------------------------
(* GroupSession.                                                             *)

\* makeWelcome: the sending counter and the replay guard are not part of it.
WelcomeOf(s) == [epoch |-> s.epoch, key |-> s.key, members |-> s.members]

\* fromWelcome: a session starts with a new counter and an empty guard.
FromWelcome(w) ==
  [epoch |-> w.epoch, key |-> w.key, prev |-> None, members |-> w.members,
   sent |-> 0, seen |-> {}]

\* encrypt: the envelope, whose nonce is made of the key, the sender and n.
Encrypted(m, s, commit) ==
  [sender |-> m, epoch |-> s.epoch, n |-> s.sent + 1, key |-> s.key, commit |-> commit]

\* Mutant: the counter does not advance.
SentUncounted(s) == s

Sent(s) == [s EXCEPT !.sent = @ + 1]

\* Mutant: the previous key is not kept.
KeyOfPresent(s, env) == IF env.epoch = s.epoch THEN s.key ELSE None

\* The key a session opens an envelope with: the present or the previous one.
KeyFor(s, env) ==
  IF env.epoch = s.epoch THEN s.key
  ELSE IF env.epoch + 1 = s.epoch THEN s.prev
  ELSE None

\* Mutant: no replay is noticed.
NeverSeen(s, env) == FALSE

Seen(s, env) == <<env.sender, env.epoch, env.n>> \in s.seen

\* decrypt succeeds.
Opens(s, env) ==
  /\ KeyFor(s, env) # None
  /\ ~Seen(s, env)
  /\ KeyFor(s, env) = env.key

\* Mutant: the epoch is counted, the key stays.
CountCommit(s, c) ==
  IF c.to <= s.epoch THEN s ELSE [s EXCEPT !.epoch = c.to, !.prev = s.key]

\* Mutant: a commit that was applied already is applied again.
ApplyAgain(s, c) ==
  [epoch |-> c.to, key |-> Append(s.key, c), prev |-> s.key,
   members |-> c.members, sent |-> 0, seen |-> {}]

\* applyCommit: a commit to the present epoch was applied already.
ApplyCommit(s, c) ==
  IF c.to <= s.epoch THEN s
  ELSE [epoch |-> c.to, key |-> Append(s.key, c), prev |-> s.key,
        members |-> c.members, sent |-> 0, seen |-> {}]

\* handleIncoming of an envelope that opens.
HandleIncoming(s, env) ==
  LET opened == [s EXCEPT !.seen = @ \cup {<<env.sender, env.epoch, env.n>>}] IN
  IF env.commit = None THEN opened ELSE ApplyCommit(opened, env.commit)

------------------------------------------------------------------------------

\* The group as its creator makes it; the founders joined with its first welcome.
Created == FromWelcome([epoch |-> 0, key |-> <<>>, members |-> Founders])

Init ==
  /\ session = [m \in Member |-> IF m \in Founders THEN Created ELSE None]
  /\ file = [m \in Member |-> IF m \in Founders THEN WelcomeOf(Created) ELSE None]
  /\ welcome = [m \in Member |-> None]
  /\ mail = [m \in Member |-> <<>>]
  /\ wire = <<>>
  /\ read = [m \in Member |-> <<>>]
  /\ refused = {}
  /\ joinedAt = [m \in Member |-> 0]
  /\ reloads = 0

Subscribed == {m \in Member : session[m] # None}

\* The relay hands an envelope to every member that is subscribed, its sender
\* included.
FanOut(env) ==
  /\ wire' = Append(wire, env)
  /\ mail' = [m \in Member |->
                IF m \in Subscribed THEN Append(mail[m], Len(wire) + 1) ELSE mail[m]]

Texts == {i \in 1..Len(wire) : wire[i].commit = None}
Commits == {i \in 1..Len(wire) : wire[i].commit # None}

\* deliverMessage with the group open.
Send(m) ==
  /\ session[m] # None
  /\ Cardinality(Texts) < MaxTexts
  /\ session' = [session EXCEPT ![m] = Sent(@)]
  /\ file' = [file EXCEPT ![m] = WelcomeOf(session'[m])]
  /\ FanOut(Encrypted(m, session[m], None))
  /\ UNCHANGED <<welcome, read, refused, joinedAt, reloads>>

\* makeCommit, which adds member a; the committer applies it, sends it to the
\* group and its own new welcome to a.  Its secret is random.
Commit(m, a) ==
  /\ m \in Committers /\ session[m] # None
  /\ a \notin session[m].members
  /\ Cardinality(Commits) < MaxCommits
  /\ LET c == [to |-> session[m].epoch + 1, secret |-> Len(wire) + 1,
               members |-> session[m].members \cup {a}]
         after == ApplyCommit(Sent(session[m]), c)
     IN /\ session' = [session EXCEPT ![m] = after]
        /\ welcome' = [welcome EXCEPT ![a] = WelcomeOf(after)]
        /\ FanOut(Encrypted(m, session[m], c))
  /\ UNCHANGED <<file, read, refused, joinedAt, reloads>>

\* joinGroup with the welcome m was given.
Join(m) ==
  /\ session[m] = None /\ welcome[m] # None
  /\ m \in welcome[m].members
  /\ session' = [session EXCEPT ![m] = FromWelcome(welcome[m])]
  /\ file' = [file EXCEPT ![m] = welcome[m]]
  /\ joinedAt' = [joinedAt EXCEPT ![m] = welcome[m].epoch]
  /\ UNCHANGED <<welcome, mail, wire, read, refused, reloads>>

\* Mutant: a commit that was received is not saved.
SaveOnSend(m, env) == UNCHANGED file

SaveCommit(m, env) ==
  file' = IF env.commit = None THEN file ELSE [file EXCEPT ![m] = WelcomeOf(session'[m])]

\* onMessage: an envelope that does not open is dropped; a commit is saved.
Receive(m, i) ==
  /\ session[m] # None
  /\ i \in 1..Len(mail[m])
  /\ Channel = "fifo" => i = 1
  /\ mail' = IF Channel = "replay" THEN mail ELSE [mail EXCEPT ![m] = Tail(@)]
  /\ LET id  == mail[m][i]
         env == wire[id]
     IN \/ /\ Opens(session[m], env)
           /\ session' = [session EXCEPT ![m] = HandleIncoming(@, env)]
           /\ SaveCommit(m, env)
           /\ read' = [read EXCEPT ![m] = Append(@, id)]
           /\ UNCHANGED refused
        \/ /\ ~Opens(session[m], env)
           /\ refused' = refused \cup {<<m, id, session[m].epoch>>}
           /\ UNCHANGED <<session, file, read>>
  /\ UNCHANGED <<welcome, wire, joinedAt, reloads>>

\* The tab is reloaded, and loadGroups restores the session.
Reload(m) ==
  /\ session[m] # None
  /\ reloads < MaxReloads
  /\ reloads' = reloads + 1
  /\ session' = [session EXCEPT ![m] = FromWelcome(file[m])]
  /\ UNCHANGED <<file, welcome, mail, wire, read, refused, joinedAt>>

Next ==
  \E m \in Member :
    \/ Send(m) \/ Join(m) \/ Reload(m)
    \/ \E a \in Member : Commit(m, a)
    \/ \E i \in 1..Len(mail[m]) : Receive(m, i)

Spec == Init /\ [][Next]_vars

------------------------------------------------------------------------------
(* Properties.                                                               *)

TypeOK ==
  /\ \A m \in Member : session[m] # None =>
       /\ session[m].epoch = Len(session[m].key)
       /\ session[m].sent \in Nat
       /\ session[m].members \subseteq Member
       /\ file[m] # None
  /\ mail \in [Member -> Seq(1..Len(wire))]
  /\ read \in [Member -> Seq(1..Len(wire))]

\* "with a per-sender message counter so nonces never repeat" (group-core.js): no
\* two envelopes have the same key, sender and counter.
NonceOnce ==
  \A i, j \in 1..Len(wire) :
    (wire[i].key = wire[j].key /\ wire[i].sender = wire[j].sender /\ wire[i].n = wire[j].n)
      => i = j

\* The counter of group-core.js alone, across texts and commits: while no tab is
\* reloaded, no nonce repeats.
NoncesFresh == reloads = 0 => NonceOnce

\* "Rejects replays" (group-core.js): no member reads an envelope twice.
ReadOnce ==
  \A m \in Member : \A i, j \in 1..Len(read[m]) : read[m][i] = read[m][j] => i = j

\* The replay guard of one epoch: while no tab is reloaded, an envelope a member
\* read twice is of an epoch that a commit has ended for that member.
ReadOncePerEpoch ==
  reloads = 0 =>
    \A m \in Member : \A i, j \in 1..Len(read[m]) :
      (read[m][i] = read[m][j] /\ i # j) => wire[read[m][i]].epoch < session[m].epoch

\* Members at the same epoch have the same key, also after a tab was reloaded, a
\* member joined with a welcome, or a commit came again.
EpochNamesKey ==
  \A m, k \in Subscribed : session[m].epoch = session[k].epoch => session[m].key = session[k].key

\* While a commit goes through the group, members on both sides of it read each
\* other: what a member refused for good is from before it joined, came before the
\* commit that began its epoch, or is of an epoch older than the previous one.
OnlyOtherEpochsRefused ==
  reloads = 0 =>
    \A r \in refused :
      LET env == wire[r[2]] IN
      \/ \E i \in 1..Len(read[r[1]]) : read[r[1]][i] = r[2]
      \/ env.epoch < joinedAt[r[1]]
      \/ env.epoch > r[3]
      \/ env.epoch + 1 < r[3]

\* A commit that was received survives a reload: a member never falls back to an
\* epoch it saw the end of.
CommitSurvivesReload ==
  \A m \in Subscribed : \A i \in 1..Len(read[m]) :
    LET c == wire[read[m][i]].commit IN c # None => session[m].epoch >= c.to

\* While no tab is reloaded, no nonce of a group repeats, and an envelope a member
\* read twice is of an epoch that a commit has ended.
EpochNonces == NoncesFresh /\ ReadOncePerEpoch

\* Members at the same epoch have the same key, whatever was reloaded, and a commit
\* that was received survives a reload.
EpochsAgree == TypeOK /\ EpochNamesKey /\ CommitSurvivesReload

=============================================================================
