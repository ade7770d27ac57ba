---------------------------- MODULE StreamProofs ----------------------------
(***************************************************************************)
(* Proofs about StreamChannel, for any number of encryptors, any chunks,   *)
(* limits, bundles and base nonces, and a medium that may do anything.     *)
(***************************************************************************)
EXTENDS StreamChannel, StreamEncryptProofs

\* The decryptor's part of the invariant survives what encryptors do.
LEMMA EncryptOut ==
  ASSUME IInv, NEW s \in Stream, EncNext(s), UNCHANGED dVars
  PROVE  DecTypeOK' /\ OutInv'
<1>1. DecTypeOK'
  BY DEF IInv, EncInv, DecTypeOK, dVars
<1>2. ASSUME dOut # <<>> \/ dPc = "ok"
      PROVE  \E t \in Stream :
                /\ ReadsFrom(t)'
                /\ Len(dOut) <= Len(plain'[t])
                /\ \A i \in 1..Len(dOut) : dOut[i] = plain'[t][i]
                /\ dPc = "ok" => ended'[t] /\ Len(dOut) = Len(plain'[t])
  <2>1. PICK t \in Stream :
           /\ ReadsFrom(t)
           /\ Len(dOut) <= Len(plain[t])
           /\ \A i \in 1..Len(dOut) : dOut[i] = plain[t][i]
           /\ dPc = "ok" => ended[t] /\ Len(dOut) = Len(plain[t])
    BY <1>2 DEF IInv, EncInv, OutInv
  <2>2. Grows(t)
    BY EncryptGrows DEF IInv
  <2>3. ReadsFrom(t)'
    BY <2>1, <2>2 DEF ReadsFrom, Grows, EncKey, dVars
  <2>4. /\ plain[t] \in Seq(Chunk) /\ plain'[t] \in Seq(Chunk) /\ dOut \in Seq(Chunk)
    BY EncryptTypeOK DEF IInv, EncInv, EncTypeOK, DecTypeOK
  <2>5. Len(dOut) <= Len(plain'[t]) /\ \A i \in 1..Len(dOut) : dOut[i] = plain'[t][i]
    BY <2>1, <2>2, <2>4 DEF Grows
  <2> QED
    BY <2>1, <2>2, <2>3, <2>5 DEF Grows
<1>3. ASSUME dKey # None PROVE eHeader'[dKey.comps.call] # None
  <2>1. dKey.comps.call \in Stream /\ eHeader[dKey.comps.call] # None
    BY <1>3 DEF IInv, EncInv, OutInv, TypeOK, DecTypeOK, RootKey, Components
  <2>2. eBundle[dKey.comps.call] # None
    BY <2>1, AbsentAssumption DEF IInv, EncInv, CallInv
  <2> QED
    BY <2>1, <2>2, EncryptGrows DEF Grows, IInv
<1> QED
  BY <1>1, <1>2, <1>3 DEF IInv, EncInv, OutInv, MeetsMinimum, dVars

LEMMA EncryptInv ==
  ASSUME IInv, NEW s \in Stream, Encrypt(s)
  PROVE  IInv'
BY EncryptKeeps, EncryptOut DEF Encrypt, IInv

-----------------------------------------------------------------------------
\* What the medium can offer the decryptor: a ciphertext that was written, or
\* bytes no AEAD call produced; and only headers.
LEMMA OfferedFrame ==
  ASSUME IInv, NEW f \in FramesOffered
  PROVE  \/ f.ct = Garbage
         \/ \E s \in Stream : \E i \in 1..Len(wire[s]) : f.ct = wire[s][i].ct
BY DEF FramesOffered, Written

LEMMA OfferedHeader ==
  ASSUME IInv, NEW h \in HeadersOffered
  PROVE  h \in Header /\ eHeader[h.comps.call] # None
BY DEF HeadersOffered

\* A frame that opens as DATA frame number dSeq was written, by the encryptor
\* whose header and key the decryptor has, for chunk dSeq + 1 of its input.
LEMMA AuthenticData ==
  ASSUME IInv, dPc = "body", NEW f \in FramesOffered, NEW p \in Chunk,
         AcceptsData(f, dKey, dHeader, dSeq, dTotal, p)
  PROVE  \E s \in Stream : /\ ReadsFrom(s)
                           /\ dSeq + 1 <= Len(plain[s])
                           /\ p = plain[s][dSeq + 1]
<1>1. /\ dKey \in RootKey /\ dHeader \in Header /\ dHeader.nonce \in BaseNonce
      /\ dSeq \in Nat
  BY LimitAssumption DEF IInv, EncInv, OutInv, TypeOK, DecTypeOK
<1>2. f.ct = SealedData(dKey, dHeader, dSeq, p) /\ f.ct # Garbage
  BY <1>1, DataType, AbsentAssumption DEF AcceptsData
<1>3. PICK s \in Stream : \E i \in 1..Len(wire[s]) : f.ct = wire[s][i].ct
  BY <1>2, OfferedFrame
<1>4. PICK i \in 1..Len(wire[s]) : f.ct = wire[s][i].ct
  BY <1>3
<1>5. FrameInv(s, i) /\ CallInv(s) /\ wire[s] \in Seq(Frame)
  BY DEF IInv, EncInv, EncTypeOK
<1>6. wire[s][i].ct = SealedData(EncKey(s), eHeader[s], i - 1, plain[s][i]) /\ i <= Len(plain[s])
  BY <1>2, <1>4, <1>5 DEF FrameInv, SealedData, SealedFinal, Seal, ChunkAad
<1>7. eHeader[s] = dHeader /\ EncKey(s) = dKey /\ i - 1 = dSeq /\ p = plain[s][i]
  BY <1>2, <1>4, <1>6 DEF SealedData, Seal, ChunkAad
<1>8. eBundle[s] # None
  BY <1>4, <1>5, AbsentAssumption DEF CallInv
<1> QED
  BY <1>1, <1>5, <1>6, <1>7, <1>8 DEF ReadsFrom

\* One that opens as the FINAL frame was written at the end of that input.
LEMMA AuthenticFinal ==
  ASSUME IInv, dPc = "body", NEW f \in FramesOffered,
         AcceptsFinal(f, dKey, dHeader, dSeq)
  PROVE  \E s \in Stream : /\ ReadsFrom(s)
                           /\ ended[s]
                           /\ dSeq = Len(plain[s])
<1>1. /\ dKey \in RootKey /\ dHeader \in Header /\ dHeader.nonce \in BaseNonce
      /\ dSeq \in Nat
  BY LimitAssumption DEF IInv, EncInv, OutInv, TypeOK, DecTypeOK
<1>2. f.ct = SealedFinal(dKey, dHeader, dSeq) /\ f.ct # Garbage
  BY <1>1, FinalType, AbsentAssumption DEF AcceptsFinal
<1>3. PICK s \in Stream : \E i \in 1..Len(wire[s]) : f.ct = wire[s][i].ct
  BY <1>2, OfferedFrame
<1>4. PICK i \in 1..Len(wire[s]) : f.ct = wire[s][i].ct
  BY <1>3
<1>5. FrameInv(s, i) /\ CallInv(s) /\ wire[s] \in Seq(Frame) /\ plain[s] \in Seq(Chunk)
  BY DEF IInv, EncInv, EncTypeOK
<1>6. /\ wire[s][i].ct = SealedFinal(EncKey(s), eHeader[s], i - 1)
      /\ i = Len(plain[s]) + 1 /\ ended[s]
  BY <1>2, <1>4, <1>5 DEF FrameInv, SealedData, SealedFinal, Seal, ChunkAad
<1>7. eHeader[s] = dHeader /\ EncKey(s) = dKey /\ i - 1 = dSeq
  BY <1>2, <1>4, <1>6 DEF SealedFinal, Seal, ChunkAad
<1>8. eBundle[s] # None
  BY <1>4, <1>5, AbsentAssumption DEF CallInv
<1> QED
  BY <1>1, <1>5, <1>6, <1>7, <1>8 DEF ReadsFrom

-----------------------------------------------------------------------------
\* The witness of OutInv is the same encryptor before and after one more frame.
LEMMA SameOrigin ==
  ASSUME NEW s \in Stream, NEW t \in Stream, ReadsFrom(s), ReadsFrom(t)
  PROVE  s = t
BY DEF ReadsFrom, EncKey, KeyFor

\* A decryption step preserves what the invariant says of the decryptor.
LEMMA DecryptOut ==
  ASSUME IInv, Decrypt
  PROVE  DecTypeOK' /\ OutInv'
<1>0. /\ dOut \in Seq(Chunk) /\ dHandles \in Bundle /\ dMin \in Minimums
      /\ dSeq \in Nat /\ dSeq = Len(dOut) /\ DecTypeOK /\ OutInv
      /\ UNCHANGED eVars /\ eHeader' = eHeader
  BY LimitAssumption DEF IInv, EncInv, DecTypeOK, OutInv, Decrypt, eVars
<1>1. CASE DecUnreadable
  BY <1>0, <1>1 DEF DecUnreadable, DecTypeOK, OutInv
<1>2. ASSUME NEW h \in HeadersOffered, DecOpen(h) PROVE DecTypeOK' /\ OutInv'
  <2>1. h \in Header /\ RecoveredKey(dHandles, h) \in RootKey
    BY <1>0, OfferedHeader, RecoveredType
  <2>2. h.nonce \in BaseNonce
    BY <1>2, <2>1 DEF DecOpen, Admissible, Header
  <2>3. eHeader[RecoveredKey(dHandles, h).comps.call] # None
    BY OfferedHeader DEF RecoveredKey
  <2> QED
    BY <1>0, <1>2, <2>1, <2>2, <2>3
    DEF DecOpen, Admissible, DecTypeOK, OutInv, MeetsMinimum
<1>3. ASSUME NEW h \in HeadersOffered, DecDowngrade(h) \/ DecRefuse(h, TRUE)
      PROVE  DecTypeOK' /\ OutInv'
  BY <1>0, <1>3 DEF DecDowngrade, DecRefuse, DecTypeOK, OutInv
<1>4. ASSUME NEW f \in FramesOffered, DecData(f) PROVE DecTypeOK' /\ OutInv'
  <2>1. PICK p \in Chunk :
           /\ AcceptsData(f, dKey, dHeader, dSeq, dTotal, p)
           /\ dOut' = Append(dOut, p)
           /\ dTotal' = dTotal + Size[p]
    BY <1>4 DEF DecData
  <2>2. /\ dPc = "body" /\ dPc' = "body" /\ dSeq' = dSeq + 1
        /\ UNCHANGED <<dHandles, dMin, dHeader, dKey, dKeyBuf>>
    BY <1>4 DEF DecData
  <2>3. PICK s \in Stream : /\ ReadsFrom(s)
                            /\ dSeq + 1 <= Len(plain[s])
                            /\ p = plain[s][dSeq + 1]
    BY <2>1, <2>2, AuthenticData
  <2>4. \A i \in 1..Len(dOut) : dOut[i] = plain[s][i]
    <3>1. CASE dOut = <<>>
      BY <3>1
    <3>2. CASE dOut # <<>>
      BY <2>3, <3>2, SameOrigin, <1>0 DEF OutInv
    <3> QED
      BY <3>1, <3>2
  <2>5. /\ Len(dOut') = Len(dOut) + 1 /\ dOut' \in Seq(Chunk)
        /\ \A i \in 1..Len(dOut') : dOut'[i] = plain[s][i]
    BY <1>0, <2>1, <2>3, <2>4
  <2>6. ReadsFrom(s)' /\ plain' = plain
    BY <1>0, <2>2, <2>3 DEF ReadsFrom, EncKey, eVars
  <2>7. /\ dSeq' \in 0..MaxFrames /\ dTotal' \in 0..MaxPlain
    <3>1. /\ dSeq < MaxFrames
          /\ dTotal + (f.len - TagLen) <= MaxPlain
          /\ f.len = Size[p] + TagLen
      BY <2>1 DEF AcceptsData
    <3> QED
      BY <1>0, <2>1, <2>2, <3>1, SizeAssumption, LimitAssumption DEF DecTypeOK
  <2>8. DecTypeOK'
    BY <1>0, <2>2, <2>5, <2>7 DEF DecTypeOK
  <2>9. OutInv'
    BY <1>0, <2>2, <2>3, <2>5, <2>6 DEF OutInv, MeetsMinimum
  <2> QED
    BY <2>8, <2>9
<1>5. ASSUME NEW f \in FramesOffered, NEW more \in BOOLEAN, DecFinal(f, more)
      PROVE  DecTypeOK' /\ OutInv'
  <2>1. /\ dPc = "body" /\ AcceptsFinal(f, dKey, dHeader, dSeq)
        /\ dPc' \in {"error", "ok"} /\ dKeyBuf' = "wiped"
        /\ UNCHANGED <<dHandles, dMin, dHeader, dKey, dSeq, dTotal, dOut>>
    BY <1>5 DEF DecFinal, DecReturn
  <2>2. PICK s \in Stream : ReadsFrom(s) /\ ended[s] /\ dSeq = Len(plain[s])
    BY <2>1, AuthenticFinal
  <2>3. \A i \in 1..Len(dOut) : dOut[i] = plain[s][i]
    <3>1. CASE dOut = <<>>
      BY <3>1
    <3>2. CASE dOut # <<>>
      BY <2>2, <3>2, SameOrigin, <1>0 DEF OutInv
    <3> QED
      BY <3>1, <3>2
  <2>4. ReadsFrom(s)' /\ UNCHANGED <<plain, ended>>
    BY <1>0, <2>1, <2>2 DEF ReadsFrom, EncKey, eVars
  <2>5. DecTypeOK'
    BY <1>0, <2>1 DEF DecTypeOK
  <2>6. OutInv'
    BY <1>0, <2>1, <2>2, <2>3, <2>4 DEF OutInv, MeetsMinimum
  <2> QED
    BY <2>5, <2>6
<1>6. ASSUME \/ \E f \in FramesOffered : DecBadFrame(f)
             \/ DecMissingFinal
      PROVE  DecTypeOK' /\ OutInv'
  <2>1. /\ dPc = "body" /\ dPc' = "error" /\ dKeyBuf' = "wiped"
        /\ UNCHANGED <<dHandles, dMin, dHeader, dKey, dSeq, dTotal, dOut>>
    BY <1>6 DEF DecBadFrame, DecMissingFinal, DecReturn
  <2>2. DecTypeOK'
    BY <1>0, <2>1 DEF DecTypeOK
  <2>3. ASSUME NEW s \in Stream, ReadsFrom(s) PROVE ReadsFrom(s)'
    BY <1>0, <2>1, <2>3 DEF ReadsFrom, EncKey, eVars
  <2>4. plain' = plain
    BY <1>0 DEF eVars
  <2> QED
    BY <1>0, <2>1, <2>2, <2>3, <2>4 DEF OutInv, MeetsMinimum
<1> QED
  BY <1>1, <1>2, <1>3, <1>4, <1>5, <1>6 DEF Decrypt

LEMMA DecryptInv ==
  ASSUME IInv, Decrypt
  PROVE  IInv'
BY EncryptStutters, DecryptOut DEF Decrypt, IInv

LEMMA StutterInv ==
  ASSUME IInv, UNCHANGED vars
  PROVE  IInv'
<1>1. UNCHANGED <<eVars, dVars>>
  BY DEF vars
<1>2. EncInv'
  BY <1>1, EncryptStutters DEF IInv
<1>3. DecTypeOK'
  BY <1>1 DEF dVars, IInv, DecTypeOK
<1>4. OutInv'
  BY <1>1 DEF eVars, dVars, IInv, OutInv, ReadsFrom, EncKey, MeetsMinimum
<1> QED
  BY <1>2, <1>3, <1>4 DEF IInv

LEMMA InitInv ==
  ASSUME Init
  PROVE  IInv
<1>1. EncInv
  BY EncryptInit DEF Init
<1>2. DecTypeOK /\ OutInv
  BY LimitAssumption, HandlesAssumption DEF Init, DecInit, DecTypeOK, OutInv
<1> QED
  BY <1>1, <1>2 DEF IInv

\* The inductive invariant holds of every behaviour of the channel.
THEOREM Invariant == Spec => []IInv
<1>1. Init => IInv
  BY InitInv
<1>2. IInv /\ [Next]_vars => IInv'
  BY EncryptInv, DecryptInv, StutterInv DEF Next
<1> QED
  BY <1>1, <1>2, PTL DEF Spec

\* Type correctness of encrypt_stream() and decrypt_stream(): in particular the
\* counters never pass MAX_STREAM_DATA_FRAMES and MAX_STREAM_PLAINTEXT_SIZE.
THEOREM TypeCorrect == Spec => []TypeOK
<1>1. IInv => TypeOK
  BY DEF IInv, EncInv, TypeOK
<1> QED
  BY <1>1, Invariant, PTL

-----------------------------------------------------------------------------
\* The encryptor OutInv speaks of is the one Origin names.
LEMMA OriginIs ==
  ASSUME IInv, NEW s \in Stream, ReadsFrom(s), dOut # <<>> \/ dPc = "ok"
  PROVE  Origin = s
<1>1. dKey = KeyFor(eBundle[s], s)
  BY DEF ReadsFrom, EncKey
<1>2. CallInv(s) /\ eBundle[s] \in Bundle
  BY DEF IInv, EncInv, CallInv, ReadsFrom
<1>3. dKey # None /\ dKey.comps.call = s
  BY <1>1, <1>2, KeyType, AbsentAssumption DEF KeyFor
<1> QED
  BY <1>3 DEF Origin, ReadsFrom

\* Root key and nonce are never used twice: frames are numbered from one
\* counter per call, and each call has a key of its own.
THEOREM NonceUniqueness == Spec => []NonceUnique
<1>1. ASSUME IInv PROVE NonceUnique
  <2> SUFFICES ASSUME NEW s \in Stream, NEW t \in Stream,
                      NEW i \in 1..Len(wire[s]), NEW j \in 1..Len(wire[t]),
                      wire[s][i].ct.key = wire[t][j].ct.key,
                      wire[s][i].ct.nonce = wire[t][j].ct.nonce
               PROVE  s = t /\ i = j
    BY DEF NonceUnique
  <2>1. FrameInv(s, i) /\ FrameInv(t, j)
    BY <1>1 DEF IInv, EncInv
  <2>2. ASSUME NEW u \in Stream, NEW k \in 1..Len(wire[u]), FrameInv(u, k)
        PROVE  wire[u][k].ct.key.comps.call = u /\ wire[u][k].ct.nonce.seq = k - 1
    BY <2>2 DEF FrameInv, SealedData, SealedFinal, Seal, ChunkNonce, EncKey, KeyFor
  <2>3. wire[s] \in Seq(Frame) /\ wire[t] \in Seq(Frame)
    BY <1>1 DEF IInv, EncInv, EncTypeOK
  <2> QED
    <3>1. /\ wire[s][i].ct.key.comps.call = s /\ wire[s][i].ct.nonce.seq = i - 1
          /\ wire[t][j].ct.key.comps.call = t /\ wire[t][j].ct.nonce.seq = j - 1
      BY <2>1, <2>2
    <3>2. s = t /\ i - 1 = j - 1
      BY <3>1
    <3>3. i \in Nat /\ j \in Nat
      BY <2>3
    <3> QED
      BY <3>2, <3>3
<1> QED
  BY <1>1, Invariant, PTL

\* decrypt_stream() writes only a prefix of what one encryptor read.
THEOREM Integrity == Spec => []PrefixIntegrity
<1>1. ASSUME IInv PROVE PrefixIntegrity
  <2> SUFFICES ASSUME dOut # <<>>
               PROVE  /\ Origin # None
                      /\ Len(dOut) <= Len(plain[Origin])
                      /\ \A i \in 1..Len(dOut) : dOut[i] = plain[Origin][i]
    BY DEF PrefixIntegrity
  <2>1. PICK s \in Stream :
           /\ ReadsFrom(s)
           /\ Len(dOut) <= Len(plain[s])
           /\ \A i \in 1..Len(dOut) : dOut[i] = plain[s][i]
    BY <1>1 DEF IInv, EncInv, OutInv
  <2>2. Origin = s
    BY <1>1, <2>1, OriginIs
  <2> QED
    BY <2>1, <2>2, AbsentAssumption
<1> QED
  BY <1>1, Invariant, PTL

\* decrypt_stream() succeeds only with the whole of an input that ended.
THEOREM Completeness == Spec => []CompleteOnSuccess
<1>1. ASSUME IInv PROVE CompleteOnSuccess
  <2> SUFFICES ASSUME dPc = "ok"
               PROVE  Origin # None /\ ended[Origin] /\ dOut = plain[Origin]
    BY DEF CompleteOnSuccess
  <2>1. PICK s \in Stream :
           /\ ReadsFrom(s)
           /\ \A i \in 1..Len(dOut) : dOut[i] = plain[s][i]
           /\ ended[s] /\ Len(dOut) = Len(plain[s])
    BY <1>1 DEF IInv, EncInv, OutInv
  <2>2. Origin = s
    BY <1>1, <2>1, OriginIs
  <2>3. dOut \in Seq(Chunk) /\ plain[s] \in Seq(Chunk)
    BY <1>1 DEF IInv, EncInv, EncTypeOK, DecTypeOK
  <2>4. dOut = plain[s]
    BY <2>1, <2>3
  <2> QED
    BY <2>1, <2>2, <2>4, AbsentAssumption
<1> QED
  BY <1>1, Invariant, PTL

\* min_profile bounds the profile the sender really used, not the claimed one.
THEOREM NoDowngrade == Spec => []DowngradeHonoured
<1>1. ASSUME IInv PROVE DowngradeHonoured
  <2> SUFFICES ASSUME dOut # <<>> \/ dPc = "ok"
               PROVE  \E s \in Stream :
                         /\ eBundle[s] # None
                         /\ s = Origin
                         /\ dMin = None \/ Strength[eBundle[s].profile] >= Strength[dMin]
    BY DEF DowngradeHonoured
  <2>1. PICK s \in Stream : ReadsFrom(s)
    BY <1>1 DEF IInv, EncInv, OutInv
  <2>2. Origin = s
    BY <1>1, <2>1, OriginIs
  <2>3. MeetsMinimum(dHeader, dMin)
    BY <1>1 DEF IInv, EncInv, OutInv
  <2>4. eBundle[s] # None /\ dHeader.profile = eBundle[s].profile
    BY <1>1, <2>1 DEF IInv, EncInv, CallInv, ReadsFrom
  <2> QED
    BY <2>2, <2>3, <2>4 DEF MeetsMinimum
<1> QED
  BY <1>1, Invariant, PTL

\* Both functions leave no live key buffer behind, however they return.
THEOREM BuffersWiped == Spec => []KeyBuffersWiped
<1>1. IInv => KeyBuffersWiped
  BY DEF IInv, EncInv, OutInv, CallInv, KeyBuffersWiped, EncReturned, TypeOK, DecTypeOK
<1> QED
  BY <1>1, Invariant, PTL

-----------------------------------------------------------------------------
\* The channel implements AuthenticChannel.
LEMMA VerdictIs ==
  /\ dPc \in {"header", "body"} => Verdict = "open"
  /\ dPc = "ok" => Verdict = "accepted"
  /\ dPc \in {"error", "downgrade"} => Verdict = "rejected"
BY DEF Verdict

LEMMA VerdictIsNext ==
  /\ dPc' \in {"header", "body"} => Verdict' = "open"
  /\ dPc' = "ok" => Verdict' = "accepted"
  /\ dPc' \in {"error", "downgrade"} => Verdict' = "rejected"
BY DEF Verdict

\* No encryption step changes whose output the decryptor reads.
LEMMA OriginStable ==
  ASSUME IInv, NEW s \in Stream, EncNext(s), UNCHANGED dVars
  PROVE  Origin' = Origin
<1>1. CASE dKey = None
  BY <1>1 DEF Origin, dVars
<1>2. CASE dKey # None
  <2>1. dKey.comps.call \in Stream /\ eHeader[dKey.comps.call] # None
    BY <1>2 DEF IInv, EncInv, OutInv, TypeOK, DecTypeOK, RootKey, Components
  <2>2. eBundle[dKey.comps.call] # None
    BY <2>1, AbsentAssumption DEF IInv, EncInv, CallInv
  <2>3. /\ eBundle'[dKey.comps.call] = eBundle[dKey.comps.call]
        /\ eHeader'[dKey.comps.call] = eHeader[dKey.comps.call]
    BY <2>1, <2>2, EncryptGrows DEF Grows, IInv
  <2> QED
    BY <1>2, <2>3 DEF Origin, dVars, EncKey
<1> QED
  BY <1>1, <1>2

LEMMA EncryptRefines ==
  ASSUME IInv, NEW s \in Stream, Encrypt(s)
  PROVE  [Abstract!Next]_(Abstract!vars)
<1>1. UNCHANGED dVars /\ EncNext(s)
  BY DEF Encrypt
<1>2. Origin' = Origin /\ dOut' = dOut /\ Verdict' = Verdict
  BY <1>1, OriginStable DEF dVars, Verdict
<1>3. plain \in [Stream -> Seq(Chunk)] /\ ended \in [Stream -> BOOLEAN]
  BY DEF IInv, EncInv, EncTypeOK
<1>4. ePc[s] = "body" => ~ended[s]
  BY InLoop DEF IInv
<1>5. \/ plain' = plain /\ ended' = ended
      \/ \E c \in Chunk : /\ ePc[s] = "body" /\ ended' = ended
                          /\ plain' = [plain EXCEPT ![s] = Append(@, c)]
      \/ /\ ePc[s] = "body" /\ plain' = plain
         /\ ended' = [ended EXCEPT ![s] = TRUE]
  <2>1. CASE EncIoError(s)
    <3>1. ePc[s] = "body"
      BY <2>1 DEF EncIoError
    <3> QED
      BY <2>1, <3>1, IoErrorCases DEF IInv
  <2>2. CASE ~EncIoError(s)
    BY <1>1, <2>2 DEF EncNext, EncStart, EncRefuse, EncChunk, EncLimit, EncFinal
  <2> QED
    BY <2>1, <2>2
<1>6. CASE plain' = plain /\ ended' = ended
  BY <1>2, <1>6 DEF Abstract!vars
<1>7. ASSUME NEW c \in Chunk, ePc[s] = "body", ended' = ended,
             plain' = [plain EXCEPT ![s] = Append(@, c)]
      PROVE  Abstract!Send(s, c)
  BY <1>2, <1>4, <1>7 DEF Abstract!Send
<1>8. CASE ePc[s] = "body" /\ plain' = plain /\ ended' = [ended EXCEPT ![s] = TRUE]
  <2>1. Abstract!Close(s)
    BY <1>2, <1>4, <1>8 DEF Abstract!Close
  <2> QED
    BY <2>1 DEF Abstract!Next
<1> QED
  BY <1>5, <1>6, <1>7, <1>8 DEF Abstract!Next

LEMMA DecryptRefines ==
  ASSUME IInv, IInv', Decrypt
  PROVE  [Abstract!Next]_(Abstract!vars)
<1>0. /\ plain' = plain /\ ended' = ended /\ eHeader' = eHeader /\ eBundle' = eBundle
      /\ dOut \in Seq(Chunk) /\ dSeq = Len(dOut)
  BY DEF Decrypt, eVars, IInv, EncInv, DecTypeOK, OutInv
<1>1. ASSUME dHeader' = dHeader, dKey' = dKey PROVE Origin' = Origin
  BY <1>0, <1>1 DEF Origin, EncKey
<1>2. ASSUME dPc \in {"header", "body"}, dPc' \in {"error", "downgrade"},
             UNCHANGED <<dHeader, dKey, dOut>>
      PROVE  Abstract!Reject
  BY <1>0, <1>1, <1>2, VerdictIs, VerdictIsNext DEF Abstract!Reject
<1>3. CASE DecUnreadable \/ DecMissingFinal
  BY <1>2, <1>3 DEF DecUnreadable, DecMissingFinal, DecReturn, Abstract!Next
<1>4. ASSUME NEW h \in HeadersOffered, DecDowngrade(h) \/ DecRefuse(h, TRUE)
      PROVE  Abstract!Next
  BY <1>2, <1>4 DEF DecDowngrade, DecRefuse, Abstract!Next
<1>5. ASSUME NEW f \in FramesOffered, DecBadFrame(f)
      PROVE  Abstract!Next
  BY <1>2, <1>5 DEF DecBadFrame, DecReturn, Abstract!Next
<1>6. ASSUME NEW h \in HeadersOffered, DecOpen(h)
      PROVE  [Abstract!Next]_(Abstract!vars)
  <2>1. dPc = "header" /\ dPc' = "body" /\ dOut' = dOut
    BY <1>6 DEF DecOpen
  <2>2. Verdict = "open" /\ Verdict' = "open"
    BY <2>1, VerdictIs, VerdictIsNext
  <2>3. Origin = None
    BY <2>1 DEF IInv, EncInv, OutInv, Origin
  <2>4. Origin' = None \/ Origin' \in Stream
    BY DEF Origin, IInv, EncInv, DecTypeOK, RootKey, Components
  <2>5. CASE Origin' = None
    BY <1>0, <2>1, <2>2, <2>3, <2>5 DEF Abstract!vars
  <2>6. CASE Origin' \in Stream
    <3>1. Abstract!Attach(Origin')
      BY <1>0, <2>1, <2>2, <2>3 DEF Abstract!Attach
    <3> QED
      BY <2>6, <3>1 DEF Abstract!Next
  <2> QED
    BY <2>4, <2>5, <2>6
<1>7. ASSUME NEW f \in FramesOffered, DecData(f)
      PROVE  Abstract!Deliver
  <2>1. PICK p \in Chunk : /\ AcceptsData(f, dKey, dHeader, dSeq, dTotal, p)
                           /\ dOut' = Append(dOut, p)
    BY <1>7 DEF DecData
  <2>2. /\ dPc = "body" /\ dPc' = "body" /\ UNCHANGED <<dHeader, dKey>>
    BY <1>7 DEF DecData
  <2>3. PICK s \in Stream : /\ ReadsFrom(s)
                            /\ dSeq + 1 <= Len(plain[s])
                            /\ p = plain[s][dSeq + 1]
    BY <2>1, <2>2, AuthenticData
  <2>4. ReadsFrom(s)' /\ dOut' # <<>>
    BY <1>0, <2>1, <2>2, <2>3 DEF ReadsFrom, EncKey
  <2>5. Origin' = Origin /\ Origin = s
    <3>1. Origin' = Origin
      BY <1>1, <2>2
    <3>2. s = Origin'
      <4>1. dKey' = KeyFor(eBundle'[s], s) /\ eBundle'[s] # None
        BY <2>4 DEF ReadsFrom, EncKey
      <4>2. eBundle'[s] \in Bundle
        BY <4>1 DEF IInv, EncInv, CallInv
      <4>3. dKey' # None /\ dKey'.comps.call = s
        BY <4>1, <4>2, KeyType, AbsentAssumption DEF KeyFor
      <4> QED
        BY <2>4, <4>3 DEF Origin, ReadsFrom
    <3> QED
      BY <3>1, <3>2
  <2>6. Verdict = "open" /\ Verdict' = "open"
    BY <2>2, VerdictIs, VerdictIsNext
  <2>7. s # None
    BY AbsentAssumption
  <2>8. plain[s] \in Seq(Chunk)
    BY DEF IInv, EncInv, EncTypeOK
  <2>9. Len(dOut) < Len(plain[s]) /\ dOut' = Append(dOut, plain[s][Len(dOut) + 1])
    BY <1>0, <2>1, <2>3, <2>8
  <2> QED
    BY <1>0, <2>5, <2>6, <2>7, <2>9 DEF Abstract!Deliver
<1>8. ASSUME NEW f \in FramesOffered, NEW more \in BOOLEAN, DecFinal(f, more)
      PROVE  Abstract!Next
  <2>1. /\ dPc = "body" /\ UNCHANGED <<dHeader, dKey, dOut>>
        /\ dPc' = "error" \/ dPc' = "ok"
    BY <1>8 DEF DecFinal, DecReturn
  <2>2. CASE dPc' = "error"
    BY <1>2, <2>1, <2>2 DEF Abstract!Next
  <2>3. CASE dPc' = "ok"
    <3>1. CompleteOnSuccess'
      <4>1. PICK s \in Stream :
               /\ ReadsFrom(s)'
               /\ \A i \in 1..Len(dOut') : dOut'[i] = plain'[s][i]
               /\ ended'[s] /\ Len(dOut') = Len(plain'[s])
        BY <2>3 DEF IInv, EncInv, OutInv
      <4>2. dOut' \in Seq(Chunk) /\ plain'[s] \in Seq(Chunk)
        BY DEF IInv, EncInv, EncTypeOK, DecTypeOK
      <4>3. dOut' = plain'[s]
        BY <4>1, <4>2
      <4>4. dKey' = KeyFor(eBundle'[s], s) /\ eBundle'[s] # None
        BY <4>1 DEF ReadsFrom, EncKey
      <4>5. eBundle'[s] \in Bundle
        BY <4>4 DEF IInv, EncInv, CallInv
      <4>6. dKey' # None /\ dKey'.comps.call = s
        BY <4>4, <4>5, KeyType, AbsentAssumption DEF KeyFor
      <4>7. Origin' = s
        BY <4>1, <4>6 DEF Origin, ReadsFrom
      <4> QED
        BY <4>1, <4>3, <4>7, AbsentAssumption DEF CompleteOnSuccess
    <3>2. Origin # None /\ ended[Origin] /\ dOut = plain[Origin]
      BY <1>0, <1>1, <2>1, <2>3, <3>1 DEF CompleteOnSuccess
    <3>3. Verdict = "open" /\ Verdict' = "accepted"
      BY <2>1, <2>3, VerdictIs, VerdictIsNext
    <3>4. Abstract!Accept
      BY <1>0, <1>1, <2>1, <3>2, <3>3 DEF Abstract!Accept
    <3> QED
      BY <3>4 DEF Abstract!Next
  <2> QED
    BY <2>1, <2>2, <2>3
<1> QED
  BY <1>3, <1>4, <1>5, <1>6, <1>7, <1>8 DEF Decrypt, Abstract!Next

\* encrypt_stream() and decrypt_stream() over any medium implement a channel
\* that delivers, in order and from the first, what one sender sends, and
\* reports success only at its end.
THEOREM Refinement == Spec => Refines
<1>1. Init => Abstract!Init
  <2> SUFFICES ASSUME Init PROVE Abstract!Init
    OBVIOUS
  <2>1. Origin = None /\ Verdict = "open"
    BY VerdictIs DEF Init, DecInit, Origin
  <2> QED
    BY <2>1 DEF Init, EncInit, DecInit, Abstract!Init
<1>2. IInv /\ IInv' /\ [Next]_vars => [Abstract!Next]_(Abstract!vars)
  <2> SUFFICES ASSUME IInv, IInv', [Next]_vars PROVE [Abstract!Next]_(Abstract!vars)
    OBVIOUS
  <2>1. CASE UNCHANGED vars
    <3>1. UNCHANGED <<eVars, dVars>>
      BY <2>1 DEF vars
    <3> QED
      BY <3>1 DEF eVars, dVars, Origin, EncKey, Verdict, Abstract!vars
  <2>2. CASE Next
    BY <2>2, EncryptRefines, DecryptRefines DEF Next
  <2> QED
    BY <2>1, <2>2
<1> QED
  BY <1>1, <1>2, Invariant, PTL DEF Spec, Refines, Abstract!Spec
=============================================================================
