------------------------------- MODULE Ratchet -------------------------------
(***************************************************************************)
(* class Session of public/crypto-core.js: the hybrid double ratchet of    *)
(* two peers, as operators on a session record.  Keys are symbolic: a key  *)
(* pair is <<owner, number>>, number 0 being the signed prekey together    *)
(* with the KEM prekey; a Diffie-Hellman secret is the set of its two key  *)
(* pairs; a KEM secret is <<generator, target>>; a root is the one-time    *)
(* prekey and the secrets mixed into it so far.  Two keys are equal        *)
(* exactly when they were derived from the same secrets.  An ephemeral key *)
(* pair stands for the X25519 and the ML-KEM pair generated with it.       *)
(***************************************************************************)
EXTENDS Naturals, Integers, Sequences, FiniteSets

CONSTANTS
  Party,      \* the two peers
  Larger,     \* the peer with the larger static key
  None,       \* absence of a key, a session or a prekey
  MaxSkip,    \* MAX_SKIP
  MaxKept,    \* MAX_MKSKIP
  MaxEpochs   \* MAX_EPOCHS

ASSUME RatchetAssumption ==
  /\ IsFiniteSet(Party) /\ Cardinality(Party) = 2
  /\ Larger \in Party
  /\ MaxSkip \in Nat
  /\ MaxKept \in Nat
  /\ MaxEpochs \in Nat \ {0}
  /\ None \notin {"unknown-epoch", "duplicate-first", "stale-epoch", "no-session", "too-far",
                  "wrong-key"}

\* Keys and what they are derived from: a chain names the next key of its root.
KeyPair == Party \X Nat
Ciphertext == KeyPair \X KeyPair
Secret == (SUBSET KeyPair) \X (Ciphertext \cup (KeyPair \X Ciphertext))
Root == [otk : KeyPair \cup {None}, secrets : Seq(Secret)]
Chain == [root : Root, at : Nat]

\* A key that was passed, and the fields of a session.
KeptKey == [dh : KeyPair, n : Nat, key : Chain]

Session ==
  [root : Root, dhs : KeyPair \cup {None}, ct : Ciphertext \cup {None}, dhr : KeyPair \cup {None},
   cks : Chain \cup {None}, ckr : Chain \cup {None}, ns : Nat, nr : Nat, pn : Nat,
   skipped : Seq(KeptKey), epochs : Seq(KeyPair), lastDh : KeyPair \cup {None},
   firstBuilt : BOOLEAN, isFirst : BOOLEAN]

ASSUME NoneIsNoKeyPair == None \notin KeyPair
ASSUME NoneIsNoChain == None \notin Chain
ASSUME NoneIsNoSession == None \notin Session

Peer(p) == CHOOSE q \in Party : q # p

\* The signed prekey and the KEM prekey of the bundle.
Prekey(p) == <<p, 0>>

\* The last k elements of a sequence: what a Map keeps that evicts its oldest
\* entries.
Newest(seq, k) ==
  IF Len(seq) <= k THEN seq ELSE SubSeq(seq, Len(seq) - k + 1, Len(seq))

\* KDF_RK: a root or a chain with one more pair of secrets mixed in.
Mix(root, dh, kem) == [root EXCEPT !.secrets = Append(@, <<dh, kem>>)]

\* The first key of the chain of a root, and KDF_CK; a message key is named by
\* the chain key it comes from.
ChainOf(root) == [root |-> root, at |-> 0]
After(ck, k) == [ck EXCEPT !.at = @ + k]

\* ML-KEM decapsulation rejects implicitly: another target's ciphertext opens to
\* a secret nobody else has.
Opened(ct, key) == IF ct[2] = key THEN ct ELSE <<key, ct>>

------------------------------------------------------------------------------
(* Sending.                                                                  *)

\* The constructor; otk is <<owner, id>> of the one-time prekey, or None.
NewSession(otk) ==
  [root |-> [otk |-> otk, secrets |-> <<>>],
   dhs |-> None, ct |-> None, dhr |-> None, cks |-> None, ckr |-> None,
   ns |-> 0, nr |-> 0, pn |-> 0, skipped |-> <<>>, epochs |-> <<>>,
   lastDh |-> None, firstBuilt |-> FALSE, isFirst |-> FALSE]

\* _firstSend: the root does not advance.
FirstSend(p, s, e) ==
  LET ct == <<e, Prekey(Peer(p))>> IN
  [s EXCEPT !.firstBuilt = TRUE, !.isFirst = TRUE, !.dhs = e, !.ct = ct,
            !.cks = ChainOf(Mix(s.root, {e, Prekey(Peer(p))}, ct))]

\* _ratchetSendStep, with the fresh key pair e.
SendStep(s, e) ==
  LET root == Mix(s.root, {e, s.dhr}, <<e, s.dhr>>) IN
  [s EXCEPT !.dhs = e, !.ct = <<e, s.dhr>>, !.root = root, !.cks = ChainOf(root)]

\* The session encrypt works on: a session that never sent builds its first
\* message with the fresh key pair e.
Sending(p, s, e) == IF s.cks = None THEN FirstSend(p, s, e) ELSE s

\* The envelope that encrypt builds for a text or a receipt: the KEM ciphertext
\* travels with the first message of an epoch only.
Envelope(p, s, text) ==
  [from |-> p, text |-> text, dh |-> s.dhs, pn |-> s.pn, n |-> s.ns, key |-> s.cks, first |-> s.isFirst,
   ct  |-> IF s.isFirst \/ s.lastDh # s.dhs THEN s.ct ELSE None,
   otk |-> IF s.isFirst THEN s.root.otk ELSE None]

\* Mutant: the chain key is not replaced by the next one.
SentSameKey(s) == [s EXCEPT !.isFirst = FALSE, !.ns = @ + 1, !.lastDh = s.dhs]

\* What encrypt leaves behind.
Sent(s) ==
  [s EXCEPT !.isFirst = FALSE, !.cks = After(@, 1), !.ns = @ + 1, !.lastDh = s.dhs]

------------------------------------------------------------------------------
(* Receiving.                                                                *)

Epochs(s) == {s.epochs[i] : i \in 1..Len(s.epochs)}

\* Mutant: no epoch is ever forgotten.
RememberAll(s, dh) == Append(s.epochs, dh)

\* _rememberEpoch.
Remember(s, dh) == Newest(Append(s.epochs, dh), MaxEpochs)

\* skipMessageKeys refuses to derive too many keys at once.
TooFar(s, until) == s.ckr # None /\ until - s.nr > MaxSkip

\* skipMessageKeys: the keys from the next one up to `until' are kept.
Skip(s, until) ==
  IF s.ckr = None \/ until <= s.nr THEN s
  ELSE LET passed == [i \in 1..(until - s.nr) |->
                        [dh |-> s.dhr, n |-> s.nr + i - 1, key |-> After(s.ckr, i - 1)]]
       IN [s EXCEPT !.ckr = After(@, until - s.nr), !.nr = until,
                    !.skipped = Newest(@ \o passed, MaxKept)]

\* The place of the envelope's key among the kept ones.
KeptAt(s, env) ==
  {i \in 1..Len(s.skipped) : s.skipped[i].dh = env.dh /\ s.skipped[i].n = env.n}

Without(seq, i) == SubSeq(seq, 1, i - 1) \o SubSeq(seq, i + 1, Len(seq))

\* Mutant: both sides of simultaneous first messages ratchet.
BothAnswerFirst(p, s) == TRUE

\* Whether a first message makes p start a new sending chain: p did not send
\* yet, or of two that sent first p has the larger key.
AnswersFirst(p, s) == s.cks = None \/ p = Larger

\* _establishFirst: the root does not advance for the receiving chain.
EstablishFirst(p, s, env, e) ==
  LET r == [s EXCEPT
             !.ckr = ChainOf(Mix(s.root, {env.dh, Prekey(p)}, Opened(env.ct, Prekey(p)))),
             !.dhr = env.dh, !.epochs = Remember(s, env.dh)]
  IN IF ~AnswersFirst(p, s) THEN r
     ELSE IF s.cks = None THEN SendStep(r, e)
     ELSE SendStep([r EXCEPT !.pn = s.ns, !.ns = 0], e)

\* DHRatchet: the receiving step with the present key pair, then the sending
\* step with the fresh one.
DHRatchet(s, env, e) ==
  LET root == Mix(s.root, {s.dhs, env.dh}, Opened(env.ct, s.dhs)) IN
  SendStep([s EXCEPT !.pn = s.ns, !.ns = 0, !.nr = 0, !.dhr = env.dh,
                     !.epochs = Remember(s, env.dh), !.root = root, !.ckr = ChainOf(root)], e)

NewEpoch(s, env) == ~env.first /\ env.dh # s.dhr

\* Why _decryptChecked refuses an envelope before it derives a key, if it does.
Refused(s, env) ==
  IF env.ct = None /\ env.dh \notin Epochs(s) THEN "unknown-epoch"
  ELSE IF env.first /\ s.ckr # None THEN "duplicate-first"
  ELSE IF KeptAt(s, env) # {} \/ ~NewEpoch(s, env) THEN None
  ELSE IF env.dh \in Epochs(s) THEN "stale-epoch"
  ELSE IF s.dhs = None THEN "no-session"
  ELSE IF TooFar(s, env.pn) THEN "too-far"
  ELSE None

\* The session whose receiving chain the envelope belongs to.
Turned(p, s, env, e) ==
  IF env.first THEN EstablishFirst(p, s, env, e)
  ELSE IF NewEpoch(s, env) THEN DHRatchet(Skip(s, env.pn), env, e)
  ELSE s

\* A decryption: why it failed, None when it did not, and the session it leaves.
Failed(why, s) == [why |-> why, session |-> s]
Read(s) == [why |-> None, session |-> s]

\* Mutant: a failed decryption keeps what it changed.
WithoutRollback(s, changed) == changed

\* A failed decryption leaves the session as it was.
Rollback(s, changed) == s

\* Mutant: the kept key is not deleted when it is used.
DecryptKeptAgain(s, env) ==
  IF \E i \in KeptAt(s, env) : s.skipped[i].key = env.key THEN Read(s)
  ELSE Failed("wrong-key", s)

\* A message whose key was kept when it was passed.
DecryptKept(s, env) ==
  LET i == CHOOSE i \in KeptAt(s, env) : TRUE
      dropped == [s EXCEPT !.skipped = Without(@, i)]
  IN IF s.skipped[i].key = env.key THEN Read(dropped)
     ELSE Failed("wrong-key", Rollback(s, dropped))

\* A message of the present or of a new receiving chain.
DecryptNext(p, s, env, e) ==
  LET turned == Turned(p, s, env, e)
      ready  == Skip(turned, env.n)
      done   == [ready EXCEPT !.ckr = After(@, 1), !.nr = @ + 1]
  IN IF TooFar(turned, env.n) THEN Failed("too-far", Rollback(s, turned))
     ELSE IF ready.ckr # env.key THEN Failed("wrong-key", Rollback(s, done))
     ELSE Read(done)

\* decrypt; e is the fresh key pair it uses if it ratchets.
Decrypt(p, s, env, e) ==
  IF Refused(s, env) # None THEN Failed(Refused(s, env), s)
  ELSE IF ~env.first /\ KeptAt(s, env) # {} THEN DecryptKept(s, env)
  ELSE DecryptNext(p, s, env, e)

------------------------------------------------------------------------------
(* Persistence.                                                              *)

\* Mutant: a restored session builds its first message again.
RestoreAsFirst(s) == IF s = None THEN None ELSE [s EXCEPT !.lastDh = None, !.cks = None]

\* restore(serialize()): the last key pair sent is not persisted, so that the
\* next message carries its KEM ciphertext; a session that built its first
\* message does not build another.
Restore(s) ==
  IF s = None THEN None
  ELSE [s EXCEPT !.lastDh = None, !.isFirst = ~s.firstBuilt /\ s.ckr = None]

=============================================================================
