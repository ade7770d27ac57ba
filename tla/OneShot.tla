-------------------------------- MODULE OneShot -----------------------------
(***************************************************************************)
(* encrypt(), ephemeral_encrypt(), decrypt(), migrate() and                *)
(* recover_root_key() step by step, over bytes.  What was encrypted comes  *)
(* back whole, changed anywhere, cut, extended, spliced with another blob, *)
(* or relabelled with another profile.                                     *)
(*                                                                         *)
(* A key pair is its owner and its algorithm; the secret of an             *)
(* encapsulation is fixed by the key pair and the ciphertext, whatever the *)
(* ciphertext is, and X25519 does not look at its highest bit.  AES-GCM    *)
(* opens what it has sealed, under the same key, nonce and associated      *)
(* data, and nothing else.                                                 *)
(***************************************************************************)
EXTENDS Profiles, Combiner

CONSTANTS
  Proc,    \* the calls
  Owner,   \* who generated a key pair
  Doc,     \* plaintexts
  Name,    \* Name[x]: the identifier of profile or algorithm x
  CtLen,   \* CtLen[a]: the length of the ciphertexts of algorithm a
  Random,  \* Random[p]: the byte the random values of call p are made of
  Calls    \* Calls[p]: what call p may be

KeyPair == [owner : Owner, alg : Alg]

\* A PublicBundle names a profile and lists public keys; the private handles
\* of a KeySet have no names.  Any list is a possible argument.
Bundle  == [profile : ProfileId, keys : Seq(KeyPair)]
Minimum == ProfileId \cup {None, "unregistered"}
Call    == [op : {"encrypt", "ephemeral_encrypt"}, bundle : Bundle, doc : Doc]
      \cup [op : {"decrypt", "recover_root_key"}, handles : Seq(KeyPair), min : Minimum]
      \cup [op : {"migrate"}, handles : Seq(KeyPair), min : Minimum, bundle : Bundle]

\* A root key is the pair of what HKDF was given.
RootKeys == [ikm : Seq([pair : KeyPair, ct : Bytes]), info : Bytes]

ASSUME NamesAssumption ==
  /\ Name \in [ProfileId \cup Alg -> Bytes]
  /\ \A x \in ProfileId \cup Alg :
        Name[x] # <<>> /\ Len(Name[x]) < Base /\ Decodes(Name[x])
  /\ \A x, y \in ProfileId : Name[x] = Name[y] => x = y
  /\ \A x, y \in Alg : Name[x] = Name[y] => x = y
ASSUME RandomAssumption ==
  Random \in [Proc -> Byte] /\ \A p, q \in Proc : Random[p] = Random[q] => p = q
ASSUME LengthsAssumption == CtLen \in [Alg -> Nat \ {0}]
ASSUME NoneAssumption == None \notin RootKeys /\ None \notin ProfileId
ASSUME CallsAssumption  == \A p \in Proc : \A c \in Calls[p] : c \in Call

VARIABLES
  pc,      \* the next step of each call, or how it ended
  call,    \* its arguments
  blob,    \* the bytes it was given
  header,  \* the header it parsed or made
  buf,     \* its key buffer: a root key, or None once wiped
  pt,      \* the plaintext it holds
  key,     \* what recover_root_key() returned
  sealed,  \* every AES-GCM encryption there has been
  sent,    \* history: the blobs returned: bundle, plaintext and key
  fault    \* history: what raised, though nothing was wrong

vars == <<pc, call, blob, header, buf, pt, key, sealed, sent, fault>>

Init ==
  /\ pc     = [p \in Proc |-> "idle"]
  /\ call   = [p \in Proc |-> None]
  /\ blob   = [p \in Proc |-> <<>>]
  /\ header = [p \in Proc |-> None]
  /\ buf    = [p \in Proc |-> None]
  /\ pt     = [p \in Proc |-> None]
  /\ key    = [p \in Proc |-> None]
  /\ sealed = {}
  /\ sent   = {}
  /\ fault  = [p \in Proc |-> None]

Ended == {"returned", "raised", "DecryptionError", "DowngradeError"}

Goto(p, step) == pc' = [pc EXCEPT ![p] = step]

-----------------------------------------------------------------------------
Registered(id) == \E q \in ProfileId : Name[q] = id
ProfileOf(id)  == CHOOSE q \in ProfileId : Name[q] = id

\* encapsulate() to a public key, and decapsulate() of any ciphertext: two points
\* that differ in the bit X25519 ignores have one secret.
Encapsulated(p, a) == [i \in 1..CtLen[a] |-> Random[p]]
Masked(ct)         == [ct EXCEPT ![Len(ct)] = @ % (Base \div 2)]
Secret(pair, ct)   == [pair |-> pair, ct |-> IF pair.alg \in Pqc THEN ct ELSE Masked(ct)]

\* decapsulate() raises on a length its handle does not know, and on a handle
\* of the other kind.  A handle of the other ML-KEM is not noticed.
CanDecapsulate(a, pair, ct) == (a \in Pqc <=> pair.alg \in Pqc) /\ Len(ct) = CtLen[pair.alg]

\* derive_root_key() accepts a bundle that has the keys of its profile.
WellFormed(b) ==
  Len(b.keys) = Len(Sources[b.profile])
    /\ \A i \in 1..Len(b.keys) : b.keys[i].alg = Sources[b.profile][i]

NewHeader(p, b) ==
  [version |-> FormatVersion, profile |-> Name[b.profile],
   comps   |-> [i \in 1..Len(b.keys) |->
                  [alg |-> Name[b.keys[i].alg], ct |-> Encapsulated(p, b.keys[i].alg)]],
   nonce   |-> [i \in 1..NonceLen |-> Random[p]]]

NewKey(p, b) ==
  RootKey([i \in 1..Len(b.keys) |-> Secret(b.keys[i], Encapsulated(p, b.keys[i].alg))],
          NewHeader(p, b).comps)

\* What _recover_root_key_internal() asks of handles and header.
Recovers(handles, h) ==
  LET algs == Sources[ProfileOf(h.profile)] IN
  /\ Registered(h.profile)
  /\ Len(algs) = Len(handles) /\ Len(handles) = Len(h.comps)
  /\ \A i \in 1..Len(algs) : /\ Name[algs[i]] = h.comps[i].alg
                             /\ CanDecapsulate(algs[i], handles[i], h.comps[i].ct)

RecoveredKey(handles, h) ==
  RootKey([i \in 1..Len(handles) |-> Secret(handles[i], h.comps[i].ct)], h.comps)

-----------------------------------------------------------------------------
\* What may become of the blobs that were sent: the profile and algorithms of
\* another profile, and the layout of version 1, cut anywhere.
Relabel(b, q) ==
  LET h == Parse(b).header IN
  IF ~Parse(b).ok THEN b ELSE ToBytes([h EXCEPT !.profile = Name[q],
                    !.comps = [i \in 1..Len(h.comps) |->
                                 [h.comps[i] EXCEPT !.alg = Name[Sources[q][i]]]]])
    \o SubSeq(b, Parse(b).consumed + 1, Len(b))

Deliverable ==
  LET whole    == {s.blob : s \in sent}
      cut      == UNION {{SubSeq(b, 1, n) : n \in 0..(Len(b) - 1)} : b \in whole}
      changed  == UNION {{[b EXCEPT ![i] = x] : i \in 1..Len(b), x \in Byte} : b \in whole}
      extended == UNION {{b \o <<x>> : x \in Byte} : b \in whole}
      spliced  == UNION {{SubSeq(b, 1, n) \o SubSeq(c, n + 1, Len(c)) : n \in 1..Len(b)}
                          : b, c \in whole}
      outdated == UNION {{SubSeq([b EXCEPT ![Len(Magic) + 1] = 1], 1, n) : n \in 1..Len(b)}
                          : b \in whole}
      relabelled == {Relabel(b, q) : b \in whole, q \in {r \in ProfileId : Len(Sources[r]) = 2}}
  IN whole \cup cut \cup changed \cup extended \cup spliced \cup outdated \cup relabelled

\* Calls share nothing but what was sent, so one runs at a time.
Start(p) ==
  /\ pc[p] = "idle"
  /\ \A q \in Proc : pc[q] \in {"idle"} \cup Ended
  /\ \E c \in Calls[p] :
        /\ call' = [call EXCEPT ![p] = c]
        /\ IF c.op \in {"encrypt", "ephemeral_encrypt"}
           THEN /\ pt' = [pt EXCEPT ![p] = c.doc]
                /\ Goto(p, "derive")
                /\ UNCHANGED blob
           ELSE /\ \E b \in Deliverable : blob' = [blob EXCEPT ![p] = b]
                /\ Goto(p, "parse")
                /\ UNCHANGED pt
  /\ UNCHANGED <<header, buf, key, sealed, sent, fault>>

-----------------------------------------------------------------------------
\* derive_root_key(), to_bytes(), and the key buffer filled.
Derive(p) ==
  LET b == call[p].bundle IN
  /\ pc[p] = "derive"
  /\ WellFormed(b)
  /\ Encodable(NewHeader(p, b))
  /\ header' = [header EXCEPT ![p] = NewHeader(p, b)]
  /\ buf'    = [buf EXCEPT ![p] = NewKey(p, b)]
  /\ Goto(p, "seal")
  /\ UNCHANGED <<call, blob, pt, key, sealed, sent, fault>>

\* A bundle that is not of its profile, or a source that cannot be used.
DeriveRaises(p) ==
  /\ pc[p] = "derive"
  /\ IF WellFormed(call[p].bundle) THEN fault' = [fault EXCEPT ![p] = "source"]
                                   ELSE UNCHANGED fault
  /\ Goto(p, "raised")
  /\ UNCHANGED <<call, blob, header, buf, pt, key, sealed, sent>>

\* The plaintext is sealed under the header's bytes, and the buffer wiped.
Seal(p) ==
  LET head == ToBytes(header[p])  body == <<Random[p]>> IN
  /\ pc[p] = "seal"
  /\ sealed' = sealed \cup {[key |-> buf[p], nonce |-> header[p].nonce, aad |-> head,
                             pt |-> pt[p], body |-> body]}
  /\ sent' = sent \cup {[blob |-> head \o body, bundle |-> call[p].bundle,
                         pt |-> pt[p], key |-> buf[p]]}
  /\ buf'  = [buf EXCEPT ![p] = None]
  /\ Goto(p, "returned")
  /\ UNCHANGED <<call, blob, header, pt, key, fault>>

\* AESGCM() raises, outside the try block of encrypt() but not of its ephemeral
\* twin, or the encryption itself does.
SealRaises(p) ==
  /\ pc[p] = "seal"
  /\ \E step \in {"construct", "encrypt"} :
        /\ fault' = [fault EXCEPT ![p] = step]
        /\ buf' = [buf EXCEPT ![p] =
             IF step = "construct" /\ call[p].op # "ephemeral_encrypt" THEN @ ELSE None]
  /\ Goto(p, "raised")
  /\ UNCHANGED <<call, blob, header, pt, key, sealed, sent>>

-----------------------------------------------------------------------------
ParseHeader(p) ==
  /\ pc[p] = "parse"
  /\ Parse(blob[p]).ok
  /\ header' = [header EXCEPT ![p] = Parse(blob[p]).header]
  /\ Goto(p, "check")
  /\ UNCHANGED <<call, blob, buf, pt, key, sealed, sent, fault>>

\* Both profiles are known, and the header's is the weaker one.
Weaker(p) ==
  /\ call[p].min \in ProfileId
  /\ Registered(header[p].profile)
  /\ Strength[ProfileOf(header[p].profile)] < Strength[call[p].min]

Downgrade(p) ==
  /\ pc[p] = "check"
  /\ Weaker(p)
  /\ Goto(p, "DowngradeError")
  /\ UNCHANGED <<call, blob, header, buf, pt, key, sealed, sent, fault>>

\* What decrypt() and recover_root_key() ask before they touch a key.
Admissible(p) ==
  /\ ~Weaker(p)
  /\ call[p].min # None => call[p].min \in ProfileId /\ Registered(header[p].profile)
  /\ call[p].op # "recover_root_key" => header[p].nonce # None

\* recover_root_key() returns the key; decrypt() has it in a buffer.
Recover(p) ==
  LET k == RecoveredKey(call[p].handles, header[p]) IN
  /\ pc[p] = "check"
  /\ Admissible(p)
  /\ Recovers(call[p].handles, header[p])
  /\ IF call[p].op = "recover_root_key"
     THEN key' = [key EXCEPT ![p] = k] /\ Goto(p, "returned") /\ UNCHANGED buf
     ELSE buf' = [buf EXCEPT ![p] = k] /\ Goto(p, "open") /\ UNCHANGED key
  /\ UNCHANGED <<call, blob, header, pt, sealed, sent, fault>>

\* A slip: a fixed nonce, and no associated data.
OpensUnbound(p, s) ==
  /\ s.key = buf[p]
  /\ s.body = SubSeq(blob[p], Parse(blob[p]).consumed + 1, Len(blob[p]))

\* The AEAD finds its tag: key, nonce, bytes of the header and body are those
\* of encryption s.
Opens(p, s) ==
  LET n == Parse(blob[p]).consumed IN
  /\ s.key   = buf[p]
  /\ s.nonce = header[p].nonce
  /\ s.aad   = SubSeq(blob[p], 1, n)
  /\ s.body  = SubSeq(blob[p], n + 1, Len(blob[p]))

\* migrate() goes on with encrypt().
Open(p) ==
  /\ pc[p] = "open"
  /\ \E s \in sealed : Opens(p, s) /\ pt' = [pt EXCEPT ![p] = s.pt]
  /\ buf' = [buf EXCEPT ![p] = None]
  /\ Goto(p, IF call[p].op = "migrate" THEN "derive" ELSE "returned")
  /\ UNCHANGED <<call, blob, header, key, sealed, sent, fault>>

\* A slip: the buffer is wiped only once the plaintext is there.
FailUnwiped(p) ==
  /\ pc[p] \in {"check", "open"} /\ ~Weaker(p)
  /\ Goto(p, "DecryptionError")
  /\ UNCHANGED <<call, blob, header, buf, pt, key, sealed, sent, fault>>

\* Whatever goes wrong, or raises for a reason of its own, is one error.
Fail(p) ==
  /\ pc[p] \in {"parse", "check", "open"}
  /\ pc[p] = "check" => ~Weaker(p)
  /\ IF \/ pc[p] = "parse"
        \/ pc[p] = "check" /\ ~(Admissible(p) /\ Recovers(call[p].handles, header[p]))
        \/ pc[p] = "open" /\ \A s \in sealed : ~Opens(p, s)
     THEN (pc[p] = "parse" => ~Parse(blob[p]).ok) /\ UNCHANGED fault
     ELSE fault' = [fault EXCEPT ![p] = "recover"]
  /\ buf' = [buf EXCEPT ![p] = None]
  /\ Goto(p, "DecryptionError")
  /\ UNCHANGED <<call, blob, header, pt, key, sealed, sent>>

Next == \E p \in Proc :
  \/ Start(p) \/ Derive(p) \/ DeriveRaises(p) \/ Seal(p) \/ SealRaises(p)
  \/ ParseHeader(p) \/ Downgrade(p) \/ Recover(p) \/ Open(p) \/ Fail(p)

Spec == Init /\ [][Next]_vars

-----------------------------------------------------------------------------
Receiving == {p \in Proc : call[p] # None /\
                 call[p].op \in {"decrypt", "migrate", "recover_root_key"}}

TypeOK ==
  /\ pc \in [Proc -> {"idle", "derive", "seal", "parse", "check", "open"} \cup Ended]
  /\ \A p \in Proc :
        /\ call[p] \in Calls[p] \cup {None}
        /\ blob[p] \in Bytes
        /\ header[p] \in Header \cup {None}
        /\ buf[p] \in RootKeys \cup {None}
        /\ pt[p] \in Doc \cup {None}
        /\ key[p] \in RootKeys \cup {None}
  /\ \A s \in sealed : s.key \in RootKeys /\ s.nonce \in Bytes /\ s.aad \in Bytes
  /\ \A s \in sent : s.blob \in Bytes /\ s.bundle \in Bundle /\ s.pt \in Doc
  /\ fault \in [Proc -> {None, "source", "construct", "encrypt", "recover"}]

\* What the parser makes of any bytes is a header that is written as just the
\* bytes it took: a field is never shortened or read past the end, no two byte
\* strings are one header, and a header that was sent and changed anywhere is
\* never taken for the one that was sent.
HeaderCanonical ==
  \A p \in Receiving : header[p] # None /\ call[p].op # "migrate" =>
     LET n == Parse(blob[p]).consumed IN
     /\ Encodable(header[p])
     /\ ToBytes(header[p]) = SubSeq(blob[p], 1, n)
     /\ \A s \in sent : header[p] = Parse(s.blob).header =>
           SubSeq(s.blob, 1, n) = SubSeq(blob[p], 1, n)

\* A plaintext comes only out of bytes that an encryption returned as they are,
\* for these very key pairs, and it is the one that went in: whatever was
\* changed, in the header or behind it, gives an error.
OpensOnlySealed ==
  \A p \in Receiving : pt[p] # None =>
     \E s \in sent : s.blob = blob[p] /\ s.pt = pt[p] /\ s.bundle.keys = call[p].handles

\* Neither decrypt() nor recover_root_key(), whose caller's header nobody has
\* authenticated, gives away what was sent under a profile weaker than the
\* minimum, by whatever profile the header was relabelled with.
MinimumMet ==
  \A p \in Receiving : call[p].min # None =>
     \A s \in sent :
        (s.key = key[p] \/ (pt[p] # None /\ s.blob = blob[p])) =>
           /\ call[p].min \in ProfileId
           /\ Strength[s.bundle.profile] >= Strength[call[p].min]

\* One root key means one list of components, byte for byte, and one recipient's
\* key pairs, though two ciphertexts may have one secret and recover_root_key()
\* is given headers that nobody has authenticated.
KeyBinds ==
  \A p \in Receiving : \A s \in sent :
     s.key \in {key[p], buf[p]} /\ pc[p] \in {"open", "returned"} =>
        /\ header[p].comps = Parse(s.blob).header.comps
        /\ call[p].handles = s.bundle.keys

\* What was sent and delivered as it is opens, for the handles it was meant for
\* and a minimum that its profile meets, and the key recovered is the key it was
\* sealed under.
GenuineOpens ==
  \A p \in Receiving : \A s \in sent :
     (/\ s.blob = blob[p]
      /\ s.bundle.keys = call[p].handles
      /\ call[p].min # None => /\ call[p].min \in ProfileId
                               /\ Strength[s.bundle.profile] >= Strength[call[p].min]) =>
         /\ pc[p] # "DowngradeError"
         /\ pc[p] = "DecryptionError" => fault[p] = "recover"
         /\ key[p] # None => key[p] = s.key

\* No call ends with a root key in its buffer, however it ends, but an encrypt()
\* whose AESGCM() raised, which is outside its try block.
BuffersWiped ==
  \A p \in Proc : pc[p] \in Ended /\ buf[p] # None =>
     fault[p] = "construct" /\ call[p].op # "ephemeral_encrypt"
=============================================================================
