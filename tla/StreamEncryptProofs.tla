-------------------------- MODULE StreamEncryptProofs -------------------------
(***************************************************************************)
(* Proofs about encrypt_stream() alone, for the compositions to build on:  *)
(* what its steps keep, whatever else runs beside it.                      *)
(***************************************************************************)
EXTENDS StreamEncrypt, TLAPS

\* What the AEAD makes and what the writers put on the wire is well typed.
LEMMA DataType ==
  ASSUME NEW k \in RootKey, NEW h \in Header, h.nonce \in BaseNonce,
         NEW seq \in Nat, NEW p \in Chunk
  PROVE  /\ SealedData(k, h, seq, p) \in Ciphertext
         /\ DataFrame(k, h, seq, p) \in Frame
<1>1. ChunkNonce(h.nonce, seq) \in Nonce /\ ChunkAad(h, seq, "DATA") \in Aad
  BY DEF ChunkNonce, ChunkAad, Nonce, Aad
<1>2. SealedData(k, h, seq, p) \in Ciphertext
  BY <1>1 DEF SealedData, Seal, Ciphertext
<1>3. Size[p] + TagLen \in Nat
  BY SizeAssumption, LimitAssumption
<1> QED
  BY <1>2, <1>3 DEF DataFrame, Frame, FrameType

LEMMA FinalType ==
  ASSUME NEW k \in RootKey, NEW h \in Header, h.nonce \in BaseNonce, NEW seq \in Nat
  PROVE  /\ SealedFinal(k, h, seq) \in Ciphertext
         /\ FinalFrame(k, h, seq) \in Frame
<1>1. ChunkNonce(h.nonce, seq) \in Nonce /\ ChunkAad(h, seq, "FINAL") \in Aad
  BY DEF ChunkNonce, ChunkAad, Nonce, Aad
<1>2. SealedFinal(k, h, seq) \in Ciphertext
  BY <1>1 DEF SealedFinal, Seal, Ciphertext
<1> QED
  BY <1>2, LimitAssumption DEF FinalFrame, Frame, FrameType

LEMMA KeyType ==
  ASSUME NEW s \in Stream, NEW b \in Bundle
  PROVE  KeyFor(b, s) \in RootKey
BY DEF KeyFor, RootKey, Components, Bundle

LEMMA HeaderType ==
  ASSUME NEW s \in Stream, NEW b \in Bundle, NEW n \in BaseNonce
  PROVE  /\ HeaderFor(b, s, n) \in Header
         /\ HeaderFor(b, s, n).nonce \in BaseNonce
         /\ HeaderFor(b, s, n).profile = b.profile
         /\ HeaderFor(b, s, n).comps.call = s
BY DEF HeaderFor, Header, Components, Bundle

LEMMA RecoveredType ==
  ASSUME NEW b \in Bundle, NEW h \in Header
  PROVE  RecoveredKey(b, h) \in RootKey
BY DEF RecoveredKey, RootKey, Bundle, Header

\* An encryption step keeps what other calls have, and only ever adds to what
\* call s has read; an input that has ended is never read again.
Grows(t) ==
  /\ eBundle[t] # None => eBundle'[t] = eBundle[t] /\ eHeader'[t] = eHeader[t]
  /\ Len(plain[t]) <= Len(plain'[t])
  /\ \A i \in 1..Len(plain[t]) : plain'[t][i] = plain[t][i]
  /\ ended[t] => ended'[t] /\ plain'[t] = plain[t]

LEMMA EncryptGrows ==
  ASSUME EncInv, NEW s \in Stream, EncNext(s)
  PROVE  \A t \in Stream : Grows(t)
<1> USE DEF EncInv, EncTypeOK
<1> SUFFICES ASSUME NEW t \in Stream PROVE Grows(t)
  OBVIOUS
<1>1. CASE EncStart(s)
  BY <1>1 DEF EncStart, Grows, CallInv
<1>2. CASE EncRefuse(s)
  BY <1>2 DEF EncRefuse, Grows
<1>3. CASE EncChunk(s)
  BY <1>3 DEF EncChunk, Grows, CallInv
<1>4. CASE EncLimit(s)
  BY <1>4 DEF EncLimit, Grows, CallInv
<1>5. CASE EncFinal(s)
  BY <1>5 DEF EncFinal, Grows, CallInv
<1>6. CASE EncIoError(s)
  <2>1. /\ eBundle' = eBundle /\ eHeader' = eHeader
        /\ ePc[s] = "body"
    BY <1>6 DEF EncIoError
  <2>2. ~ended[s]
    BY <2>1 DEF CallInv
  <2>3. \/ plain' = plain
        \/ \E c \in Chunk : plain' = [plain EXCEPT ![s] = Append(@, c)]
    BY <1>6 DEF EncIoError
  <2>4. ended' = ended \/ ended' = [ended EXCEPT ![s] = TRUE]
    BY <1>6 DEF EncIoError
  <2>5. CASE t = s
    <3>1. Len(plain[t]) <= Len(plain'[t]) /\ \A i \in 1..Len(plain[t]) : plain'[t][i] = plain[t][i]
      <4>1. plain[t] \in Seq(Chunk)
        OBVIOUS
      <4>2. plain'[t] = plain[t] \/ \E c \in Chunk : plain'[t] = Append(plain[t], c)
        BY <2>3, <2>5
      <4> QED
        BY <4>1, <4>2
    <3> QED
      BY <2>1, <2>2, <2>5, <3>1 DEF Grows
  <2>6. CASE t # s
    <3>1. plain'[t] = plain[t] /\ ended'[t] = ended[t]
      BY <2>3, <2>4, <2>6
    <3> QED
      BY <2>1, <3>1 DEF Grows
  <2> QED
    BY <2>5, <2>6
<1> QED
  BY <1>1, <1>2, <1>3, <1>4, <1>5, <1>6 DEF EncNext

-----------------------------------------------------------------------------
\* Facts about a call in its loop, for the three actions that write frames.
LEMMA InLoop ==
  ASSUME EncInv, NEW s \in Stream, ePc[s] = "body"
  PROVE  /\ eBundle[s] \in Bundle /\ EncKey(s) \in RootKey
         /\ eHeader[s] \in Header /\ eHeader[s].nonce \in BaseNonce
         /\ eSeq[s] \in Nat /\ eSeq[s] = Len(plain[s]) /\ eSeq[s] = Len(wire[s])
         /\ plain[s] \in Seq(Chunk) /\ wire[s] \in Seq(Frame)
         /\ ~ended[s]
<1>1. CallInv(s)
  BY DEF EncInv
<1>2. eSeq[s] \in 0..MaxFrames
  BY DEF EncInv, EncTypeOK
<1>3. eSeq[s] \in Nat
  BY <1>2, LimitAssumption
<1>4. plain[s] \in Seq(Chunk) /\ wire[s] \in Seq(Frame)
  BY DEF EncInv, EncTypeOK
<1> QED
  BY <1>1, <1>3, <1>4, KeyType DEF CallInv, EncKey

\* What EncIoError may leave: the call's output as it was, or one more frame.
LEMMA IoErrorCases ==
  ASSUME EncInv, NEW s \in Stream, EncIoError(s)
  PROVE  \/ UNCHANGED <<plain, ended, wire>>
         \/ \E c \in Chunk, f \in Frame :
               /\ f.ct = SealedData(EncKey(s), eHeader[s], eSeq[s], c)
               /\ plain' = [plain EXCEPT ![s] = Append(@, c)]
               /\ wire' = [wire EXCEPT ![s] = Append(@, f)]
               /\ ended' = ended
         \/ \E f \in Frame :
               /\ f.ct = SealedFinal(EncKey(s), eHeader[s], eSeq[s])
               /\ wire' = [wire EXCEPT ![s] = Append(@, f)]
               /\ ended' = [ended EXCEPT ![s] = TRUE]
               /\ plain' = plain
<1>1. ePc[s] = "body"
  BY DEF EncIoError
<1>2. /\ EncKey(s) \in RootKey /\ eHeader[s] \in Header
      /\ eHeader[s].nonce \in BaseNonce /\ eSeq[s] \in Nat
  BY <1>1, InLoop
<1>3. CASE \E c \in Chunk, whole \in BOOLEAN :
             /\ plain' = [plain EXCEPT ![s] = Append(@, c)]
             /\ wire' = [wire EXCEPT ![s] = Append(@,
                  [DataFrame(EncKey(s), eHeader[s], eSeq[s], c) EXCEPT !.whole = whole])]
             /\ ended' = ended
  <2>1. PICK c \in Chunk, whole \in BOOLEAN :
             /\ plain' = [plain EXCEPT ![s] = Append(@, c)]
             /\ wire' = [wire EXCEPT ![s] = Append(@,
                  [DataFrame(EncKey(s), eHeader[s], eSeq[s], c) EXCEPT !.whole = whole])]
             /\ ended' = ended
    BY <1>3
  <2> DEFINE f == [DataFrame(EncKey(s), eHeader[s], eSeq[s], c) EXCEPT !.whole = whole]
  <2>2. DataFrame(EncKey(s), eHeader[s], eSeq[s], c) \in Frame
    BY <1>2, DataType
  <2>3. f \in Frame
    BY <2>2 DEF Frame
  <2>4. f.ct = SealedData(EncKey(s), eHeader[s], eSeq[s], c)
    BY DEF DataFrame
  <2> QED
    BY <2>1, <2>3, <2>4
<1>4. CASE \E whole \in BOOLEAN :
             /\ wire' = [wire EXCEPT ![s] = Append(@,
                  [FinalFrame(EncKey(s), eHeader[s], eSeq[s]) EXCEPT !.whole = whole])]
             /\ ended' = [ended EXCEPT ![s] = TRUE]
             /\ plain' = plain
  <2>1. PICK whole \in BOOLEAN :
             /\ wire' = [wire EXCEPT ![s] = Append(@,
                  [FinalFrame(EncKey(s), eHeader[s], eSeq[s]) EXCEPT !.whole = whole])]
             /\ ended' = [ended EXCEPT ![s] = TRUE]
             /\ plain' = plain
    BY <1>4
  <2> DEFINE f == [FinalFrame(EncKey(s), eHeader[s], eSeq[s]) EXCEPT !.whole = whole]
  <2>2. FinalFrame(EncKey(s), eHeader[s], eSeq[s]) \in Frame
    BY <1>2, FinalType
  <2>3. f \in Frame
    BY <2>2 DEF Frame
  <2>4. f.ct = SealedFinal(EncKey(s), eHeader[s], eSeq[s])
    BY DEF FinalFrame
  <2> QED
    BY <2>1, <2>3, <2>4
<1> QED
  BY <1>3, <1>4 DEF EncIoError

-----------------------------------------------------------------------------
\* An encryption step preserves the inductive invariant, part by part.
LEMMA EncryptTypeOK ==
  ASSUME EncInv, NEW s \in Stream, EncNext(s)
  PROVE  EncTypeOK'
<1> USE DEF EncInv, EncTypeOK
<1>1. CASE EncStart(s)
  <2>1. PICK b \in Bundles, n \in BaseNonce, size \in ChunkSizes :
           /\ size > 0 /\ size <= MaxChunk
           /\ eBundle'    = [eBundle EXCEPT ![s] = b]
           /\ eHeader'    = [eHeader EXCEPT ![s] = HeaderFor(b, s, n)]
           /\ eChunkSize' = [eChunkSize EXCEPT ![s] = size]
    BY <1>1 DEF EncStart
  <2>2. b \in Bundle /\ size \in 0..MaxChunk
    BY <2>1, BundlesAssumption, ChunkSizeAssumption, LimitAssumption
  <2> QED
    BY <1>1, <2>1, <2>2, HeaderType DEF EncStart, KeyBuf
<1>2. CASE EncRefuse(s)
  BY <1>2 DEF EncRefuse
<1>3. CASE EncChunk(s)
  <2>1. PICK c \in Chunk :
           /\ ~OverLimit(s, c)
           /\ plain'  = [plain EXCEPT ![s] = Append(@, c)]
           /\ wire'   = [wire EXCEPT ![s] =
                           Append(@, DataFrame(EncKey(s), eHeader[s], eSeq[s], c))]
           /\ eTotal' = [eTotal EXCEPT ![s] = @ + Size[c]]
    BY <1>3 DEF EncChunk
  <2>2. ePc[s] = "body"
    BY <1>3 DEF EncChunk
  <2>3. DataFrame(EncKey(s), eHeader[s], eSeq[s], c) \in Frame
    BY <2>2, InLoop, DataType
  <2>4. /\ eTotal[s] + Size[c] \in 0..MaxPlain
        /\ eSeq[s] + 1 \in 0..MaxFrames
    BY <2>1, SizeAssumption, LimitAssumption DEF OverLimit
  <2>5. /\ plain' \in [Stream -> Seq(Chunk)]
        /\ wire' \in [Stream -> Seq(Frame)]
    BY <2>1, <2>3
  <2>6. /\ eTotal' \in [Stream -> 0..MaxPlain]
        /\ eSeq' \in [Stream -> 0..MaxFrames]
    BY <1>3, <2>1, <2>4 DEF EncChunk
  <2> QED
    BY <1>3, <2>5, <2>6 DEF EncChunk
<1>4. CASE EncLimit(s)
  BY <1>4 DEF EncLimit, EncReturn, KeyBuf
<1>5. CASE EncFinal(s)
  <2>1. FinalFrame(EncKey(s), eHeader[s], eSeq[s]) \in Frame
    BY <1>5, InLoop, FinalType DEF EncFinal
  <2> QED
    BY <1>5, <2>1 DEF EncFinal, EncReturn, KeyBuf
<1>6. CASE EncIoError(s)
  <2>1. /\ plain' \in [Stream -> Seq(Chunk)]
        /\ wire' \in [Stream -> Seq(Frame)]
        /\ ended' \in [Stream -> BOOLEAN]
    <3>1. /\ plain \in [Stream -> Seq(Chunk)]
          /\ wire \in [Stream -> Seq(Frame)]
          /\ ended \in [Stream -> BOOLEAN]
      OBVIOUS
    <3> HIDE DEF EncInv, EncTypeOK
    <3>2. plain' = plain \/ \E c \in Chunk : plain' = [plain EXCEPT ![s] = Append(@, c)]
      BY <1>6, IoErrorCases
    <3>3. wire' = wire \/ \E f \in Frame : wire' = [wire EXCEPT ![s] = Append(@, f)]
      BY <1>6, IoErrorCases
    <3>4. ended' = ended \/ ended' = [ended EXCEPT ![s] = TRUE]
      BY <1>6, IoErrorCases
    <3>5. plain' \in [Stream -> Seq(Chunk)]
      <4>1. \A c \in Chunk : Append(plain[s], c) \in Seq(Chunk)
        BY <3>1
      <4> QED
        BY <3>1, <3>2, <4>1
    <3>6. wire' \in [Stream -> Seq(Frame)]
      <4>1. \A f \in Frame : Append(wire[s], f) \in Seq(Frame)
        BY <3>1
      <4> QED
        BY <3>1, <3>3, <4>1
    <3>7. ended' \in [Stream -> BOOLEAN]
      BY <3>1, <3>4
    <3> QED
      BY <3>5, <3>6, <3>7
  <2>2. EncReturn(s, "failed") /\ UNCHANGED <<eBundle, eChunkSize, eHeader, eSeq, eTotal>>
    BY <1>6 DEF EncIoError
  <2> QED
    BY <2>1, <2>2 DEF EncReturn, KeyBuf
<1> QED
  BY <1>1, <1>2, <1>3, <1>4, <1>5, <1>6 DEF EncNext

LEMMA EncryptCalls ==
  ASSUME EncInv, NEW s \in Stream, EncNext(s)
  PROVE  \A t \in Stream : CallInv(t)'
<1> USE DEF EncInv, EncTypeOK
<1> SUFFICES ASSUME NEW t \in Stream PROVE CallInv(t)'
  OBVIOUS
<1>0. CallInv(t) /\ CallInv(s)
  OBVIOUS
<1>1. CASE EncStart(s)
  <2>1. PICK b \in Bundles, n \in BaseNonce :
           /\ eBundle' = [eBundle EXCEPT ![s] = b]
           /\ eHeader' = [eHeader EXCEPT ![s] = HeaderFor(b, s, n)]
    BY <1>1 DEF EncStart
  <2>2. b \in Bundle
    BY BundlesAssumption
  <2> QED
    BY <1>0, <1>1, <2>1, <2>2, HeaderType DEF EncStart, CallInv
<1>2. CASE EncRefuse(s)
  BY <1>0, <1>2 DEF EncRefuse, CallInv
<1>3. CASE EncChunk(s)
  BY <1>0, <1>3, InLoop DEF EncChunk, CallInv
<1>4. CASE EncLimit(s)
  BY <1>0, <1>4 DEF EncLimit, EncReturn, CallInv
<1>5. CASE EncFinal(s)
  BY <1>0, <1>5 DEF EncFinal, EncReturn, CallInv
<1>6. CASE EncIoError(s)
  <2>1. ePc[s] = "body" /\ EncReturn(s, "failed")
        /\ UNCHANGED <<eBundle, eHeader, eSeq>>
    BY <1>6 DEF EncIoError
  <2>2. CASE t = s
    BY <1>0, <2>1, <2>2 DEF EncReturn, CallInv
  <2>3. CASE t # s
    <3>1. plain'[t] = plain[t] /\ wire'[t] = wire[t] /\ ended'[t] = ended[t]
      <4>1. /\ plain' = plain \/ \E c \in Chunk : plain' = [plain EXCEPT ![s] = Append(@, c)]
            /\ wire' = wire \/ \E f \in Frame : wire' = [wire EXCEPT ![s] = Append(@, f)]
            /\ ended' = ended \/ ended' = [ended EXCEPT ![s] = TRUE]
        BY <1>6, IoErrorCases
      <4> QED
        BY <2>3, <4>1
    <3> QED
      BY <1>0, <2>1, <2>3, <3>1 DEF EncReturn, CallInv
  <2> QED
    BY <2>2, <2>3
<1> QED
  BY <1>1, <1>2, <1>3, <1>4, <1>5, <1>6 DEF EncNext

LEMMA EncryptFrames ==
  ASSUME EncInv, NEW s \in Stream, EncNext(s)
  PROVE  \A t \in Stream : \A i \in 1..Len(wire'[t]) : FrameInv(t, i)'
<1> SUFFICES ASSUME NEW t \in Stream, NEW i \in 1..Len(wire'[t]) PROVE FrameInv(t, i)'
  OBVIOUS
<1>1. Grows(t) /\ CallInv(t) /\ plain[t] \in Seq(Chunk) /\ wire[t] \in Seq(Frame)
  BY EncryptGrows DEF EncInv, EncTypeOK
\* A frame that was there before still is what it was.
<1>2. ASSUME i \in 1..Len(wire[t]), wire'[t][i] = wire[t][i] PROVE FrameInv(t, i)'
  <2>1. FrameInv(t, i)
    BY <1>2 DEF EncInv
  <2>2. eBundle[t] # None
    BY <1>1, <1>2, AbsentAssumption DEF CallInv
  <2>3. EncKey(t)' = EncKey(t) /\ eHeader'[t] = eHeader[t]
    BY <1>1, <2>2 DEF Grows, EncKey
  <2>4. Len(plain[t]) \in Nat /\ Len(plain[t]) <= Len(plain'[t])
        /\ \A j \in 1..Len(plain[t]) : plain'[t][j] = plain[t][j]
    BY <1>1 DEF Grows
  <2>5. CASE /\ i <= Len(plain[t])
             /\ wire[t][i].ct = SealedData(EncKey(t), eHeader[t], i - 1, plain[t][i])
    <3>1. plain'[t] \in Seq(Chunk)
      BY EncryptTypeOK DEF EncTypeOK
    <3>2. Len(plain'[t]) \in Nat
      BY <3>1
    <3>3. i \in 1..Len(plain[t]) /\ i <= Len(plain'[t])
      BY <1>2, <2>4, <2>5, <3>2
    <3>4. plain'[t][i] = plain[t][i]
      BY <2>4, <3>3
    <3> QED
      BY <1>2, <2>3, <2>5, <3>3, <3>4 DEF FrameInv
  <2>6. CASE /\ ended[t]
             /\ i = Len(plain[t]) + 1
             /\ wire[t][i].ct = SealedFinal(EncKey(t), eHeader[t], i - 1)
    BY <1>1, <1>2, <2>3, <2>6 DEF FrameInv, Grows
  <2> QED
    BY <2>1, <2>5, <2>6 DEF FrameInv
<1>3. CASE wire'[t] = wire[t]
  BY <1>2, <1>3
\* Only the last frame is new.
<1>4. CASE wire'[t] # wire[t]
  <2>1. t = s /\ ePc[s] = "body"
    BY <1>4 DEF EncNext, EncStart, EncRefuse, EncChunk, EncLimit, EncFinal, EncIoError,
       EncInv, EncTypeOK
  <2>2. /\ EncKey(s)' = EncKey(s) /\ eHeader'[s] = eHeader[s]
        /\ eSeq[s] = Len(plain[s]) /\ eSeq[s] = Len(wire[s]) /\ eSeq[s] \in Nat
    BY <1>1, <2>1, InLoop, AbsentAssumption DEF Grows, EncKey
  <2>3. \/ \E c \in Chunk, f \in Frame :
             /\ f.ct = SealedData(EncKey(s), eHeader[s], eSeq[s], c)
             /\ plain'[s] = Append(plain[s], c)
             /\ wire'[s] = Append(wire[s], f)
        \/ \E f \in Frame :
             /\ f.ct = SealedFinal(EncKey(s), eHeader[s], eSeq[s])
             /\ wire'[s] = Append(wire[s], f)
             /\ ended'[s] /\ plain'[s] = plain[s]
    <3> USE DEF EncInv, EncTypeOK
    <3>1. CASE EncStart(s) \/ EncRefuse(s) \/ EncLimit(s)
      BY <1>4, <2>1, <3>1 DEF EncStart, EncRefuse, EncLimit
    <3>2. CASE EncChunk(s)
      <4>1. PICK c \in Chunk :
               /\ plain' = [plain EXCEPT ![s] = Append(@, c)]
               /\ wire' = [wire EXCEPT ![s] =
                             Append(@, DataFrame(EncKey(s), eHeader[s], eSeq[s], c))]
        BY <3>2 DEF EncChunk
      <4>2. DataFrame(EncKey(s), eHeader[s], eSeq[s], c) \in Frame
        BY <2>1, InLoop, DataType
      <4>3. DataFrame(EncKey(s), eHeader[s], eSeq[s], c).ct
              = SealedData(EncKey(s), eHeader[s], eSeq[s], c)
        BY DEF DataFrame
      <4> QED
        BY <4>1, <4>2, <4>3
    <3>3. CASE EncFinal(s)
      <4>1. FinalFrame(EncKey(s), eHeader[s], eSeq[s]) \in Frame
        BY <2>1, InLoop, FinalType
      <4>2. FinalFrame(EncKey(s), eHeader[s], eSeq[s]).ct
              = SealedFinal(EncKey(s), eHeader[s], eSeq[s])
        BY DEF FinalFrame
      <4> QED
        BY <3>3, <4>1, <4>2 DEF EncFinal
    <3>4. CASE EncIoError(s)
      <4>1. s \in DOMAIN plain /\ s \in DOMAIN wire /\ s \in DOMAIN ended
        OBVIOUS
      <4> HIDE DEF EncInv, EncTypeOK
      <4> QED
        BY <1>4, <2>1, <3>4, <4>1, IoErrorCases
    <3> QED
      BY <3>1, <3>2, <3>3, <3>4 DEF EncNext
  <2>4. CASE i \in 1..Len(wire[t])
    <3>1. wire'[t][i] = wire[t][i]
      BY <1>1, <2>1, <2>3, <2>4
    <3> QED
      BY <1>2, <2>4, <3>1
  <2>5. CASE i \notin 1..Len(wire[t])
    <3>1. i = Len(wire[s]) + 1 /\ i - 1 = eSeq[s]
      BY <1>1, <2>1, <2>2, <2>3, <2>5
    <3>2. CASE \E c \in Chunk, f \in Frame :
             /\ f.ct = SealedData(EncKey(s), eHeader[s], eSeq[s], c)
             /\ plain'[s] = Append(plain[s], c)
             /\ wire'[s] = Append(wire[s], f)
      <4>1. PICK c \in Chunk, f \in Frame :
             /\ f.ct = SealedData(EncKey(s), eHeader[s], eSeq[s], c)
             /\ plain'[s] = Append(plain[s], c)
             /\ wire'[s] = Append(wire[s], f)
        BY <3>2
      <4>2. wire'[s][i] = f
        BY <1>1, <2>1, <3>1, <4>1
      <4>3. i = Len(plain[s]) + 1
        BY <2>2, <3>1
      <4>4. plain[s] \in Seq(Chunk)
        BY <1>1, <2>1
      <4>5. plain'[s][i] = c /\ i <= Len(plain'[s])
        BY <4>1, <4>3, <4>4
      <4> QED
        BY <2>1, <2>2, <3>1, <4>1, <4>2, <4>5 DEF FrameInv
    <3>3. CASE \E f \in Frame :
             /\ f.ct = SealedFinal(EncKey(s), eHeader[s], eSeq[s])
             /\ wire'[s] = Append(wire[s], f)
             /\ ended'[s] /\ plain'[s] = plain[s]
      <4>1. PICK f \in Frame :
             /\ f.ct = SealedFinal(EncKey(s), eHeader[s], eSeq[s])
             /\ wire'[s] = Append(wire[s], f)
             /\ ended'[s] /\ plain'[s] = plain[s]
        BY <3>3
      <4>2. wire'[s][i] = f
        BY <1>1, <2>1, <3>1, <4>1
      <4> QED
        BY <2>1, <2>2, <3>1, <4>1, <4>2 DEF FrameInv
    <3> QED
      BY <2>3, <3>2, <3>3
  <2> QED
    BY <2>4, <2>5
<1> QED
  BY <1>3, <1>4

\* An encryption step preserves the invariant of encrypt_stream().
LEMMA EncryptKeeps ==
  ASSUME EncInv, NEW s \in Stream, EncNext(s)
  PROVE  EncInv'
BY EncryptTypeOK, EncryptCalls, EncryptFrames DEF EncInv

\* It holds before any call.
LEMMA EncryptInit ==
  ASSUME EncInit
  PROVE  EncInv
<1>1. EncTypeOK
  BY LimitAssumption DEF EncInit, EncTypeOK, KeyBuf
<1>2. \A s \in Stream : CallInv(s) /\ wire[s] = <<>>
  BY DEF EncInit, CallInv
<1> QED
  BY <1>1, <1>2 DEF EncInv

\* A step that leaves encrypt_stream()'s state alone keeps it.
LEMMA EncryptStutters ==
  ASSUME EncInv, UNCHANGED eVars
  PROVE  EncInv'
<1>1. EncTypeOK'
  BY DEF eVars, EncInv, EncTypeOK
<1>2. \A s \in Stream : CallInv(s)'
  BY DEF eVars, EncInv, CallInv
<1>3. \A s \in Stream : \A i \in 1..Len(wire'[s]) : FrameInv(s, i)'
  BY DEF eVars, EncInv, FrameInv, EncKey
<1> QED
  BY <1>1, <1>2, <1>3 DEF EncInv
=============================================================================
