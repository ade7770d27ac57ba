---------------------------- MODULE StreamCrypto ----------------------------
(***************************************************************************)
(* The symbolic cryptography under the streaming modules: key bundles,     *)
(* headers, root keys, per-frame nonces and associated data, and the AEAD. *)
(* Nothing here has state.                                                 *)
(*                                                                         *)
(* A root key is a value, equal on the two sides exactly when the same     *)
(* owner's key pair and the same component ciphertexts went into it.  A    *)
(* ciphertext is the record of everything AES-GCM binds, so it opens under *)
(* the key, nonce and associated data it was sealed with and no others.    *)
(***************************************************************************)
EXTENDS Profiles

CONSTANTS
  Stream,     \* derive_root_key() calls: each makes fresh encapsulations
  Owner,      \* holders of a key pair
  BaseNonce,  \* the 12-byte nonces os.urandom(NONCE_LEN) may return
  Prefix,     \* Prefix[n]: the first 8 bytes of nonce n
  Chunk,      \* what one input_stream.read(chunk_size) may return
  Size,       \* Size[c]: the length in bytes of chunk c
  TagLen,     \* AES-GCM tag length
  MaxChunk,   \* MAX_CHUNK_PLAINTEXT_SIZE
  MaxPlain,   \* MAX_STREAM_PLAINTEXT_SIZE
  MaxFrames,  \* MAX_STREAM_DATA_FRAMES
  MaxSeq,     \* the largest sequence number a nonce can hold (0xFFFFFFFF)
  None,       \* an absent value: no nonce, no key, no minimum profile
  Garbage     \* bytes no AEAD call produced

-----------------------------------------------------------------------------
\* A PublicBundle, or the private handles that answer it.
Bundle == [owner : Owner, profile : ProfileId]

\* The (algorithm, ciphertext) list one derive_root_key() call puts in its
\* header: fixed by the profile encapsulated under and by the call itself.
Components == [profile : ProfileId, call : Stream]

\* A parsed header.  The identifier is any string of the wire, and a version 1
\* header has no nonce.
Header == [profile : ProfileId \cup {"unregistered"},
           comps   : Components,
           nonce   : BaseNonce \cup {None}]

RootKey == [owner : Owner, comps : Components]

\* What derive_root_key() makes of a bundle: the header to send ...
HeaderFor(b, s, n) ==
  [profile |-> b.profile, comps |-> [profile |-> b.profile, call |-> s], nonce |-> n]

\* ... and the root key, which the combiner derives from the shared secrets
\* and from every component of the header, but not from its nonce.
KeyFor(b, s) == [owner |-> b.owner, comps |-> [profile |-> b.profile, call |-> s]]

\* The length of the ciphertexts that a handle of each algorithm takes.
CiphertextLength == [x25519 |-> 32, mlkem768 |-> 1088, mlkem1024 |-> 1568]

\* _recover_root_key_internal() compares the three counts, and the algorithms
\* of the profile named with those of the components; decapsulate() compares
\* each ciphertext's length with what its handle takes.
CanRecover(handles, h) ==
  /\ h.profile \in ProfileId
  /\ LET named == Sources[h.profile]
         sent  == Sources[h.comps.profile]
         held  == Sources[handles.profile]
     IN /\ Len(named) = Len(held) /\ Len(named) = Len(sent)
        /\ \A i \in 1..Len(named) :
              /\ named[i] = sent[i]
              /\ CiphertextLength[held[i]] = CiphertextLength[sent[i]]

\* The key it otherwise returns: another owner's handles give another key.
RecoveredKey(handles, h) == [owner |-> handles.owner, comps |-> h.comps]

\* The min_profile check, made before any cryptographic operation.
Weaker(h, min) ==
  /\ min \in ProfileId
  /\ h.profile \in ProfileId
  /\ Strength[h.profile] < Strength[min]

\* A slip: the check asks only that both profiles be registered.
MeetsRegistered(h, min) == min = None \/ {min, h.profile} \subseteq ProfileId

MeetsMinimum(h, min) ==
  \/ min = None
  \/ /\ min \in ProfileId
     /\ h.profile \in ProfileId
     /\ Strength[h.profile] >= Strength[min]

-----------------------------------------------------------------------------
Nonce == [prefix : {Prefix[n] : n \in BaseNonce}, seq : Nat]
Aad   == [header : Header, seq : Nat, tag : {"DATA", "FINAL"}]

\* The empty plaintext of a FINAL frame is the value None.
Ciphertext == [key : RootKey, nonce : Nonce, aad : Aad, pt : Chunk \cup {None}]

ChunkNonce(n, seq) == [prefix |-> Prefix[n], seq |-> seq]
ChunkAad(h, seq, tag) == [header |-> h, seq |-> seq, tag |-> tag]

\* AESGCM.encrypt(); AESGCM.decrypt() returns p exactly on Seal(k, n, a, p).
Seal(k, n, a, p) == [key |-> k, nonce |-> n, aad |-> a, pt |-> p]

SealedData(k, h, seq, p) ==
  Seal(k, ChunkNonce(h.nonce, seq), ChunkAad(h, seq, "DATA"), p)
SealedFinal(k, h, seq) ==
  Seal(k, ChunkNonce(h.nonce, seq), ChunkAad(h, seq, "FINAL"), None)

-----------------------------------------------------------------------------
\* A frame on the wire: type byte, length, ciphertext.  A torn write leaves a
\* frame that is not whole.
FrameType == {"DATA", "FINAL", "other"}

Frame == [type : FrameType, len : Nat, ct : Ciphertext \cup {Garbage},
          whole : BOOLEAN]

DataFrame(k, h, seq, p) ==
  [type |-> "DATA", len |-> Size[p] + TagLen, ct |-> SealedData(k, h, seq, p),
   whole |-> TRUE]
FinalFrame(k, h, seq) ==
  [type |-> "FINAL", len |-> TagLen, ct |-> SealedFinal(k, h, seq),
   whole |-> TRUE]

\* Slips: a DATA frame opened under any number, and a limit one frame short.
AcceptsDataAnyNumber(f, k, h, seq, total, p) ==
  /\ f.type = "DATA" /\ f.whole
  /\ total + (f.len - TagLen) <= MaxPlain
  /\ seq < MaxFrames
  /\ \E n \in 0..MaxFrames : f.ct = SealedData(k, h, n, p)
  /\ f.len = Size[p] + TagLen

AcceptsDataBelowLimit(f, k, h, seq, total, p) ==
  /\ seq + 1 < MaxFrames
  /\ total + Size[p] <= MaxPlain
  /\ f = DataFrame(k, h, seq, p)

\* What a reader accepts as DATA frame number seq, carrying p, after `total'
\* bytes of plaintext.  A wrong length field makes read_exact() return other
\* bytes than the ciphertext, which never authenticate.
AcceptsData(f, k, h, seq, total, p) ==
  /\ f.type = "DATA"
  /\ seq < MaxFrames
  /\ f.whole
  /\ f.len > TagLen
  /\ f.len <= MaxChunk + TagLen
  /\ total + (f.len - TagLen) <= MaxPlain
  /\ f.ct = SealedData(k, h, seq, p)
  /\ f.len = Size[p] + TagLen

\* Slips: a FINAL frame of any number, and one counted as a DATA frame.
AcceptsAnyFinal(f, k, h, seq) ==
  f.type = "FINAL" /\ f.whole /\ \E n \in 0..MaxFrames : f.ct = SealedFinal(k, h, n)

AcceptsFinalCounted(f, k, h, seq) == seq < MaxFrames /\ f = FinalFrame(k, h, seq)

AcceptsFinal(f, k, h, seq) ==
  /\ f.type = "FINAL"
  /\ f.whole
  /\ f.len = TagLen
  /\ seq <= MaxSeq
  /\ f.ct = SealedFinal(k, h, seq)

-----------------------------------------------------------------------------
ASSUME SizeAssumption   == Size \in [Chunk -> Nat \ {0}]
ASSUME LimitAssumption  ==
  /\ TagLen \in Nat
  /\ MaxChunk \in Nat \ {0}
  /\ MaxPlain \in Nat
  /\ MaxFrames \in Nat
  /\ MaxSeq \in Nat
  /\ MaxFrames <= MaxSeq
ASSUME AbsentAssumption ==
  /\ None \notin BaseNonce
  /\ None \notin Chunk
  /\ None \notin Stream
  /\ None \notin ProfileId
  /\ None \notin Bundle
  /\ None \notin Header
  /\ None \notin RootKey
  /\ Garbage \notin Ciphertext
=============================================================================
