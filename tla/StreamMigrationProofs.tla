----------------------- MODULE StreamMigrationProofs -----------------------
(***************************************************************************)
(* Proofs about StreamMigration: any number of encryptors, one migrator    *)
(* and one decryptor, over the medium that may do anything and over the    *)
(* one that only delivers.  MigrationInv is inductive over either, and all *)
(* safety follows from it except that nothing is refused without a reason: *)
(* DeliveryInv, at the end, adds that for the medium that only delivers.   *)
(***************************************************************************)
EXTENDS StreamMigration, StreamEncryptProofs

-----------------------------------------------------------------------------
\* The inductive invariant.  It treats the two kinds of writer alike: whoever
\* wrote it, frame i of an output carries number i - 1 and chunk i of what some
\* encryptor read, or comes after the last chunk of an input that has ended.

\* The encryptor whose input the output of s carries.
RootOf(s) == IF s = Target THEN MigOrigin ELSE s

OutputInv(s, i) ==
  /\ RootOf(s) # None
  /\ \/ /\ i <= Len(plain[RootOf(s)])
        /\ OutputOf(s)[i].ct = SealedData(KeyFor(BundleOf(s), s), HeaderOf(s),
                                          i - 1, plain[RootOf(s)][i])
     \/ /\ ended[RootOf(s)]
        /\ i = Len(plain[RootOf(s)]) + 1
        /\ OutputOf(s)[i].ct = SealedFinal(KeyFor(BundleOf(s), s), HeaderOf(s), i - 1)

\* Before it has opened a header the migrator has neither key and has written
\* nothing; from then on both keys, and the headers they go with, stay, the old
\* key being that of an encryptor and never of the migrator itself.
KeysInv ==
  IF mOldKey = None
  THEN /\ mPc \in {"header", "error", "downgrade"}
       /\ mOldHeader = None /\ mNewHeader = None /\ mNewBundle = None
       /\ mOut = <<>> /\ mSeq = 0 /\ mNewSeq = 0
       /\ mPc = "error" \/ (mOldBuf = "none" /\ mNewBuf = "none")
  ELSE /\ mPc \in {"body", "ok", "error"}
       /\ mOldHeader \in Header /\ mOldHeader.nonce \in BaseNonce
       /\ MeetsMinimum(mOldHeader, mMin)
       /\ mOldKey.comps.call # Target
       /\ eHeader[mOldKey.comps.call] # None
       /\ mNewBundle \in Bundle
       /\ \E n \in BaseNonce : mNewHeader = HeaderFor(mNewBundle, Target, n)
       /\ mPc # "body" => mOldBuf = "wiped" /\ mNewBuf = "wiped"

\* In the loop both counters are the number of frames written, and these are
\* the very frames encrypt_stream() would have written of the same chunks.
LoopInv ==
  mPc = "body" =>
    /\ mSeq = Len(mOut) /\ mNewSeq = Len(mOut)
    /\ mOut # <<>> => MigOrigin # None /\ Len(mOut) <= Len(plain[MigOrigin])
    /\ \A i \in 1..Len(mOut) :
          mOut[i] = DataFrame(NewKey, mNewHeader, i - 1, plain[MigOrigin][i])

MigInv ==
  /\ MigTypeOK
  /\ KeysInv
  /\ LoopInv
  /\ \A i \in 1..Len(mOut) : OutputInv(Target, i)
  /\ MigratedComplete

\* The decryptor has a key of some writer, and has written a prefix of what the
\* encryptor at the far end has read; all of it, once it has returned.
ReadInv ==
  /\ dSeq = Len(dOut)
  /\ dPc = "header" => dOut = <<>> /\ dKey = None
  /\ dKey # None => HeaderOf(dKey.comps.call) # None
  /\ dPc \in {"body", "ok"} =>
       /\ dHeader \in Header /\ dKey \in RootKey
       /\ dHeader.nonce \in BaseNonce
  /\ dOut # <<>> \/ dPc = "ok" =>
       /\ EndToEnd # None
       /\ Len(dOut) <= Len(plain[EndToEnd])
       /\ \A i \in 1..Len(dOut) : dOut[i] = plain[EndToEnd][i]
       /\ dPc = "ok" => ended[EndToEnd] /\ Len(dOut) = Len(plain[EndToEnd])

MigrationInv == EncInv /\ MigInv /\ DecTypeOK /\ ReadInv

-----------------------------------------------------------------------------
\* Writers and what they have written.

LEMMA TargetIs ==
  /\ Target \in Stream /\ Source \in Stream /\ Source # Target
  /\ None # Target /\ None \notin Stream
BY TargetAssumption, SourceAssumption, AbsentAssumption

\* The migrator's key, if it names a writer at all, names an encryptor.
LEMMA MigOriginIs ==
  ASSUME MigInv, MigOrigin # None
  PROVE  /\ MigOrigin \in Stream \ {Target}
         /\ mOldKey # None /\ mOldKey.comps.call = MigOrigin
         /\ eHeader[MigOrigin] = mOldHeader
         /\ eBundle[MigOrigin] # None
         /\ EncKey(MigOrigin) = mOldKey
<1>1. mOldKey # None /\ mOldKey \in RootKey
  BY DEF MigOrigin, OriginOf, MigInv, MigTypeOK
<1>2. mOldKey.comps.call \in Stream /\ mOldKey.comps.call # Target
  BY <1>1 DEF MigInv, KeysInv, RootKey, Components
<1> QED
  BY <1>1, <1>2 DEF MigOrigin, OriginOf, HeaderOf, BundleOf, EncKey

\* A key and a header that are those of a writer name it.
LEMMA OriginIs ==
  ASSUME NEW s \in Stream, BundleOf(s) \in Bundle
  PROVE  OriginOf(KeyFor(BundleOf(s), s), HeaderOf(s)) = s
<1>1. KeyFor(BundleOf(s), s) # None /\ BundleOf(s) # None
  BY KeyType, AbsentAssumption
<1>2. KeyFor(BundleOf(s), s).comps.call = s
  BY DEF KeyFor
<1> QED
  BY <1>1, <1>2 DEF OriginOf

\* A writer with a header has a bundle the header agrees with.
LEMMA WriterInv ==
  ASSUME EncInv, MigInv, NEW s \in Stream, HeaderOf(s) # None
  PROVE  /\ HeaderOf(s) \in Header /\ HeaderOf(s).nonce \in BaseNonce
         /\ HeaderOf(s).comps.call = s
         /\ HeaderOf(s).profile = BundleOf(s).profile
         /\ BundleOf(s) \in Bundle /\ BundleOf(s) # None
         /\ s = Target => mOldKey # None
<1>1. CASE s = Target
  <2>1. mNewHeader # None /\ HeaderOf(s) = mNewHeader /\ BundleOf(s) = mNewBundle
    BY <1>1 DEF HeaderOf, BundleOf
  <2>2. mOldKey # None
    BY <2>1 DEF MigInv, KeysInv
  <2>3. mNewBundle \in Bundle /\ \E n \in BaseNonce : mNewHeader = HeaderFor(mNewBundle, Target, n)
    BY <2>2 DEF MigInv, KeysInv
  <2> QED
    BY <1>1, <2>1, <2>2, <2>3, HeaderType, AbsentAssumption
<1>2. CASE s # Target
  <2>1. HeaderOf(s) = eHeader[s] /\ BundleOf(s) = eBundle[s] /\ CallInv(s)
    BY <1>2 DEF HeaderOf, BundleOf, EncInv
  <2> QED
    BY <1>2, <2>1, AbsentAssumption DEF CallInv
<1> QED
  BY <1>1, <1>2

\* Every frame in an output is one the invariant describes.
LEMMA FrameWritten ==
  ASSUME EncInv, MigInv, NEW s \in Stream, NEW i \in 1..Len(OutputOf(s))
  PROVE  OutputInv(s, i) /\ HeaderOf(s) # None /\ i \in Nat \ {0}
<1>1. CASE s = Target
  <2>1. OutputOf(s) = mOut /\ mOut \in Seq(Frame)
    BY <1>1 DEF OutputOf, MigInv, MigTypeOK
  <2>2. mOut # <<>>
    BY <2>1
  <2>3. mOldKey # None
    BY <2>2 DEF MigInv, KeysInv
  <2>4. mNewBundle \in Bundle /\ \E n \in BaseNonce : mNewHeader = HeaderFor(mNewBundle, Target, n)
    BY <2>3 DEF MigInv, KeysInv
  <2>5. mNewHeader # None
    BY <2>4, HeaderType, TargetIs, AbsentAssumption
  <2> QED
    BY <1>1, <2>1, <2>5 DEF HeaderOf, MigInv
<1>2. CASE s # Target
  <2>1. /\ OutputOf(s) = wire[s] /\ HeaderOf(s) = eHeader[s]
        /\ BundleOf(s) = eBundle[s] /\ RootOf(s) = s
    BY <1>2 DEF OutputOf, HeaderOf, BundleOf, RootOf
  <2>2. FrameInv(s, i) /\ CallInv(s) /\ wire[s] \in Seq(Frame)
    BY <2>1 DEF EncInv, EncTypeOK
  <2>3. eHeader[s] # None
    BY <2>1, <2>2, AbsentAssumption DEF CallInv
  <2> QED
    BY <2>1, <2>2, <2>3, TargetIs DEF OutputInv, FrameInv, EncKey
<1> QED
  BY <1>1, <1>2

LEMMA OutputType ==
  ASSUME EncInv, MigInv, NEW s \in Stream
  PROVE  OutputOf(s) \in Seq(Frame)
BY DEF OutputOf, EncInv, EncTypeOK, MigInv, MigTypeOK

-----------------------------------------------------------------------------
\* What either medium can offer a reader of the output of r.
LEMMA OfferedFrame ==
  ASSUME NEW r \in Stream, NEW n, NEW f \in FramesOffered(r, n)
  PROVE  \/ f.ct = Garbage
         \/ \E s \in Stream : \E i \in 1..Len(OutputOf(s)) : f.ct = OutputOf(s)[i].ct
<1>1. CASE Faulty
  BY <1>1 DEF FramesOffered, AllWritten
<1>2. CASE ~Faulty
  BY <1>2 DEF FramesOffered
<1> QED
  BY <1>1, <1>2

LEMMA OfferedHeader ==
  ASSUME EncInv, MigInv, NEW r \in Stream, NEW h \in HeadersOffered(r)
  PROVE  /\ h \in Header /\ h.comps.call \in Stream
         /\ HeaderOf(h.comps.call) # None
<1>1. h \in Header /\ HeaderOf(h.comps.call) # None
  <2>1. CASE Faulty
    BY <2>1 DEF HeadersOffered
  <2>2. CASE ~Faulty
    BY <2>2, WriterInv DEF HeadersOffered
  <2> QED
    BY <2>1, <2>2
<1> QED
  BY <1>1 DEF Header, Components

\* A frame that opens as DATA frame number seq was written, by the writer whose
\* header and key the reader has, for chunk seq + 1 of what its encryptor read.
LEMMA AuthenticData ==
  ASSUME EncInv, MigInv, NEW r \in Stream, NEW n, NEW f \in FramesOffered(r, n),
         NEW k \in RootKey, NEW h \in Header, h.nonce \in BaseNonce,
         NEW seq \in Nat, NEW p \in Chunk,
         f.ct = SealedData(k, h, seq, p)
  PROVE  /\ OriginOf(k, h) \in Stream
         /\ k.comps.call = OriginOf(k, h)
         /\ LET o == RootOf(OriginOf(k, h)) IN
              o # None /\ seq + 1 <= Len(plain[o]) /\ p = plain[o][seq + 1]
<1>1. f.ct # Garbage
  BY DataType, AbsentAssumption
<1>2. PICK s \in Stream : \E i \in 1..Len(OutputOf(s)) : f.ct = OutputOf(s)[i].ct
  BY <1>1, OfferedFrame
<1>3. PICK i \in 1..Len(OutputOf(s)) : f.ct = OutputOf(s)[i].ct
  BY <1>2
<1>4. OutputInv(s, i) /\ HeaderOf(s) # None /\ i \in Nat \ {0}
  BY FrameWritten
<1>5. /\ i <= Len(plain[RootOf(s)])
      /\ OutputOf(s)[i].ct = SealedData(KeyFor(BundleOf(s), s), HeaderOf(s),
                                        i - 1, plain[RootOf(s)][i])
  BY <1>3, <1>4 DEF OutputInv, SealedData, SealedFinal, Seal, ChunkAad
<1>6. /\ k = KeyFor(BundleOf(s), s) /\ h = HeaderOf(s) /\ seq = i - 1
      /\ p = plain[RootOf(s)][i]
  BY <1>3, <1>5 DEF SealedData, Seal, ChunkAad
<1>7. OriginOf(k, h) = s
  BY <1>4, <1>6, WriterInv, OriginIs
<1>8. seq + 1 = i
  BY <1>4, <1>6
<1>9. k.comps.call = s
  BY <1>6 DEF KeyFor
<1> QED
  BY <1>4, <1>5, <1>6, <1>7, <1>8, <1>9 DEF OutputInv

\* One that opens as the FINAL frame was written at the end of that input.
LEMMA AuthenticFinal ==
  ASSUME EncInv, MigInv, NEW r \in Stream, NEW n, NEW f \in FramesOffered(r, n),
         NEW k \in RootKey, NEW h \in Header, h.nonce \in BaseNonce,
         NEW seq \in Nat,
         f.ct = SealedFinal(k, h, seq)
  PROVE  /\ OriginOf(k, h) \in Stream
         /\ k.comps.call = OriginOf(k, h)
         /\ LET o == RootOf(OriginOf(k, h)) IN
              o # None /\ ended[o] /\ seq = Len(plain[o])
<1>1. f.ct # Garbage
  BY FinalType, AbsentAssumption
<1>2. PICK s \in Stream : \E i \in 1..Len(OutputOf(s)) : f.ct = OutputOf(s)[i].ct
  BY <1>1, OfferedFrame
<1>3. PICK i \in 1..Len(OutputOf(s)) : f.ct = OutputOf(s)[i].ct
  BY <1>2
<1>4. OutputInv(s, i) /\ HeaderOf(s) # None /\ i \in Nat \ {0}
  BY FrameWritten
<1>5. /\ ended[RootOf(s)] /\ i = Len(plain[RootOf(s)]) + 1
      /\ OutputOf(s)[i].ct = SealedFinal(KeyFor(BundleOf(s), s), HeaderOf(s), i - 1)
  BY <1>3, <1>4 DEF OutputInv, SealedData, SealedFinal, Seal, ChunkAad
<1>6. k = KeyFor(BundleOf(s), s) /\ h = HeaderOf(s) /\ seq = i - 1
  BY <1>3, <1>5 DEF SealedFinal, Seal, ChunkAad
<1>7. OriginOf(k, h) = s
  BY <1>4, <1>6, WriterInv, OriginIs
<1>8. RootOf(s) \in Stream
  BY <1>4, MigOriginIs DEF RootOf, OutputInv
<1>9. plain[RootOf(s)] \in Seq(Chunk)
  BY <1>8 DEF EncInv, EncTypeOK
<1>10. seq = Len(plain[RootOf(s)])
  BY <1>4, <1>5, <1>6, <1>9
<1>11. k.comps.call = s
  BY <1>6 DEF KeyFor
<1> QED
  BY <1>4, <1>5, <1>7, <1>10, <1>11 DEF OutputInv

-----------------------------------------------------------------------------
\* What a step may not do to a writer that has its header.
Kept(s) ==
  HeaderOf(s) # None =>
    /\ HeaderOf(s)' = HeaderOf(s)
    /\ BundleOf(s)' = BundleOf(s)
    /\ RootOf(s)' = RootOf(s)

LEMMA StutterGrows ==
  ASSUME EncInv, UNCHANGED eVars
  PROVE  \A t \in Stream : Grows(t)
<1> SUFFICES ASSUME NEW t \in Stream PROVE Grows(t)
  OBVIOUS
<1>1. plain[t] \in Seq(Chunk)
  BY DEF EncInv, EncTypeOK
<1>2. /\ eBundle' = eBundle /\ eHeader' = eHeader
      /\ plain' = plain /\ ended' = ended
  BY DEF eVars
<1>3. Len(plain[t]) <= Len(plain'[t])
  BY <1>1, <1>2
<1> QED
  BY <1>2, <1>3 DEF Grows

\* Once it has its key, whose stream the migrator reads does not change.
LEMMA MigOriginKept ==
  ASSUME EncInv, MigInv, mOldKey' = mOldKey, mOldHeader' = mOldHeader,
         \A t \in Stream : Grows(t)
  PROVE  MigOrigin' = MigOrigin
<1>1. CASE mOldKey = None
  BY <1>1 DEF MigOrigin, OriginOf
<1>2. CASE mOldKey # None
  <2>1. mOldKey \in RootKey
    BY <1>2 DEF MigInv, MigTypeOK
  <2>2. PICK c \in Stream : c = mOldKey.comps.call
    BY <2>1 DEF RootKey, Components
  <2>3. c # Target /\ eHeader[c] # None
    BY <1>2, <2>2 DEF MigInv, KeysInv
  <2>4. eBundle[c] # None
    BY <2>3, AbsentAssumption DEF EncInv, CallInv
  <2>5. eBundle'[c] = eBundle[c] /\ eHeader'[c] = eHeader[c]
    BY <2>4 DEF Grows
  <2> QED
    BY <2>2, <2>3, <2>5 DEF MigOrigin, OriginOf, HeaderOf, BundleOf
<1> QED
  BY <1>1, <1>2

LEMMA EncryptKept ==
  ASSUME EncInv, MigInv, NEW s \in Stream, EncNext(s), UNCHANGED mVars
  PROVE  \A t \in Stream : Kept(t)
<1> SUFFICES ASSUME NEW t \in Stream, HeaderOf(t) # None PROVE Kept(t)
  BY DEF Kept
<1>1. \A u \in Stream : Grows(u)
  BY EncryptGrows
<1>2. /\ mOldKey' = mOldKey /\ mOldHeader' = mOldHeader
      /\ mNewHeader' = mNewHeader /\ mNewBundle' = mNewBundle
  BY DEF mVars
<1>3. MigOrigin' = MigOrigin
  BY <1>1, <1>2, MigOriginKept
<1>4. CASE t = Target
  BY <1>2, <1>3, <1>4 DEF Kept, HeaderOf, BundleOf, RootOf
<1>5. CASE t # Target
  <2>1. eHeader[t] # None /\ eBundle[t] # None
    BY <1>5, WriterInv DEF HeaderOf, BundleOf
  <2>2. eBundle'[t] = eBundle[t] /\ eHeader'[t] = eHeader[t]
    BY <1>1, <2>1 DEF Grows
  <2> QED
    BY <1>5, <2>2 DEF Kept, HeaderOf, BundleOf, RootOf
<1> QED
  BY <1>4, <1>5

\* Only MigOpen gives the migrator its keys, and only when it had none.
LEMMA MigrateKeys ==
  ASSUME Migrate
  PROVE  \/ UNCHANGED <<mOldHeader, mOldKey, mNewBundle, mNewHeader>>
         \/ mPc = "header" /\ \E h \in HeadersOffered(Source) : MigOpen(h)
BY DEF Migrate, MigUnreadable, MigOpen, MigDowngrade, MigRefuse, MigSetupFails,
       MigData, MigFinal, MigBadFrame, MigWriteFails, MigMissingFinal, MigReturn, mKeys

LEMMA MigrateKept ==
  ASSUME EncInv, MigInv, Migrate
  PROVE  \A t \in Stream : Kept(t)
<1> SUFFICES ASSUME NEW t \in Stream, HeaderOf(t) # None PROVE Kept(t)
  BY DEF Kept
<1>1. UNCHANGED eVars /\ eHeader' = eHeader /\ eBundle' = eBundle
  BY DEF Migrate, eVars
<1>2. CASE t # Target
  BY <1>1, <1>2 DEF Kept, HeaderOf, BundleOf, RootOf
<1>3. CASE t = Target
  <2>1. mNewHeader # None
    BY <1>3 DEF HeaderOf
  <2>2. mPc # "header"
    BY <2>1 DEF MigInv, KeysInv
  <2>3. /\ mOldKey' = mOldKey /\ mOldHeader' = mOldHeader
        /\ mNewHeader' = mNewHeader /\ mNewBundle' = mNewBundle
    BY <2>2, MigrateKeys
  <2>4. MigOrigin' = MigOrigin
    BY <1>1, <2>3, StutterGrows, MigOriginKept
  <2> QED
    BY <1>3, <2>3, <2>4 DEF Kept, HeaderOf, BundleOf, RootOf
<1> QED
  BY <1>2, <1>3

\* So whose stream the decryptor reads does not change either.
LEMMA EndToEndKept ==
  ASSUME DecTypeOK, ReadInv, \A t \in Stream : Kept(t),
         dKey' = dKey, dHeader' = dHeader
  PROVE  /\ EndToEnd' = EndToEnd
         /\ dKey # None => HeaderOf(dKey.comps.call)' # None
<1>1. CASE dKey = None
  BY <1>1, TargetIs DEF EndToEnd, OriginOf
<1>2. CASE dKey # None
  <2>1. dKey \in RootKey
    BY <1>2 DEF DecTypeOK
  <2>2. PICK c \in Stream : c = dKey.comps.call
    BY <2>1 DEF RootKey, Components
  <2>3. HeaderOf(c) # None
    BY <1>2, <2>2 DEF ReadInv
  <2>4. /\ HeaderOf(c)' = HeaderOf(c) /\ BundleOf(c)' = BundleOf(c)
        /\ RootOf(c)' = RootOf(c)
    BY <2>3 DEF Kept
  <2>5. HeaderOf(dKey.comps.call)' = HeaderOf(c)' /\ BundleOf(dKey.comps.call)' = BundleOf(c)'
    BY <2>2
  <2>6. OriginOf(dKey, dHeader)' = OriginOf(dKey, dHeader)
    BY <2>2, <2>4, <2>5 DEF OriginOf
  <2>7. OriginOf(dKey, dHeader) = c \/ OriginOf(dKey, dHeader) = None
    BY <2>2 DEF OriginOf
  <2>8. EndToEnd' = EndToEnd
    BY <2>4, <2>6, <2>7, TargetIs DEF EndToEnd, RootOf
  <2> QED
    BY <2>2, <2>3, <2>4, <2>5, <2>8
<1> QED
  BY <1>1, <1>2

\* EndToEnd is the encryptor behind the writer the decryptor reads.
LEMMA EndToEndIs ==
  /\ EndToEnd = RootOf(OriginOf(dKey, dHeader))
  /\ MigInv /\ DecTypeOK /\ EndToEnd # None => EndToEnd \in Stream
<1>1. EndToEnd = RootOf(OriginOf(dKey, dHeader))
  BY DEF EndToEnd, RootOf
<1>2. ASSUME MigInv, DecTypeOK, EndToEnd # None PROVE EndToEnd \in Stream
  <2>1. OriginOf(dKey, dHeader) = None \/ OriginOf(dKey, dHeader) \in Stream
    BY <1>2 DEF OriginOf, DecTypeOK, RootKey, Components
  <2> QED
    BY <1>1, <1>2, <2>1, MigOriginIs DEF RootOf
<1> QED
  BY <1>1, <1>2

\* The decryptor's part of the invariant survives what writers do.
LEMMA ReadKept ==
  ASSUME EncInv, EncInv', MigInv, DecTypeOK, ReadInv, UNCHANGED dVars,
         \A t \in Stream : Kept(t), \A t \in Stream : Grows(t)
  PROVE  DecTypeOK' /\ ReadInv'
<1>0. /\ dPc' = dPc /\ dHandles' = dHandles /\ dMin' = dMin /\ dHeader' = dHeader
      /\ dKey' = dKey /\ dSeq' = dSeq /\ dTotal' = dTotal /\ dOut' = dOut
      /\ dKeyBuf' = dKeyBuf
  BY DEF dVars
<1>1. DecTypeOK'
  BY <1>0 DEF DecTypeOK
<1>2. EndToEnd' = EndToEnd /\ (dKey # None => HeaderOf(dKey.comps.call)' # None)
  BY <1>0, EndToEndKept
<1>3. ASSUME dOut # <<>> \/ dPc = "ok"
      PROVE  /\ EndToEnd # None
             /\ Len(dOut) <= Len(plain'[EndToEnd])
             /\ \A i \in 1..Len(dOut) : dOut[i] = plain'[EndToEnd][i]
             /\ dPc = "ok" => ended'[EndToEnd] /\ Len(dOut) = Len(plain'[EndToEnd])
  <2>1. /\ EndToEnd # None
        /\ Len(dOut) <= Len(plain[EndToEnd])
        /\ \A i \in 1..Len(dOut) : dOut[i] = plain[EndToEnd][i]
        /\ dPc = "ok" => ended[EndToEnd] /\ Len(dOut) = Len(plain[EndToEnd])
    BY <1>3 DEF ReadInv
  <2>2. PICK o \in Stream : o = EndToEnd
    BY <2>1, EndToEndIs
  <2>3. plain[o] \in Seq(Chunk) /\ plain'[o] \in Seq(Chunk) /\ dOut \in Seq(Chunk)
    BY DEF EncInv, EncTypeOK, DecTypeOK
  <2>4. Grows(o)
    OBVIOUS
  <2>5. Len(dOut) <= Len(plain'[o]) /\ \A i \in 1..Len(dOut) : dOut[i] = plain'[o][i]
    BY <2>1, <2>2, <2>3, <2>4 DEF Grows
  <2> QED
    BY <2>1, <2>2, <2>4, <2>5 DEF Grows
<1>4. ReadInv'
  BY <1>0, <1>2, <1>3 DEF ReadInv
<1> QED
  BY <1>1, <1>4

-----------------------------------------------------------------------------
\* The migrator's part survives what encryptors do.
LEMMA EncryptMig ==
  ASSUME EncInv, EncInv', MigInv, UNCHANGED mVars, \A t \in Stream : Grows(t)
  PROVE  MigInv'
<1>0. /\ mPc' = mPc /\ mHandles' = mHandles /\ mMin' = mMin /\ mOldHeader' = mOldHeader
      /\ mOldKey' = mOldKey /\ mNewBundle' = mNewBundle /\ mNewHeader' = mNewHeader
      /\ mSeq' = mSeq /\ mNewSeq' = mNewSeq /\ mTotal' = mTotal /\ mOldBuf' = mOldBuf
      /\ mNewBuf' = mNewBuf /\ mOut' = mOut
  BY DEF mVars
<1>1. MigTypeOK'
  BY <1>0 DEF MigInv, MigTypeOK
<1>2. MigOrigin' = MigOrigin
  BY <1>0, MigOriginKept
<1>3. KeysInv'
  <2>1. ASSUME mOldKey # None PROVE eHeader'[mOldKey.comps.call] # None
    <3>1. mOldKey.comps.call \in Stream /\ eHeader[mOldKey.comps.call] # None
      BY <2>1 DEF MigInv, MigTypeOK, KeysInv, RootKey, Components
    <3>2. eBundle[mOldKey.comps.call] # None
      BY <3>1, AbsentAssumption DEF EncInv, CallInv
    <3> QED
      BY <3>1, <3>2 DEF Grows
  <2> QED
    BY <1>0, <2>1 DEF MigInv, KeysInv, MeetsMinimum
\* The input the migrator's chunks come from only grows, and stays ended.
<1>4. ASSUME MigOrigin # None
      PROVE  /\ MigOrigin \in Stream
             /\ Grows(MigOrigin)
             /\ Len(plain[MigOrigin]) \in Nat /\ Len(plain'[MigOrigin]) \in Nat
  <2>1. MigOrigin \in Stream
    BY <1>4, MigOriginIs
  <2> QED
    BY <2>1 DEF EncInv, EncTypeOK
<1>5. mOut \in Seq(Frame)
  BY DEF MigInv, MigTypeOK
<1>6. LoopInv'
  <2> SUFFICES ASSUME mPc = "body", mOut # <<>>
               PROVE  /\ MigOrigin # None /\ Len(mOut) <= Len(plain'[MigOrigin])
                      /\ \A i \in 1..Len(mOut) :
                           mOut[i] = DataFrame(NewKey, mNewHeader, i - 1, plain'[MigOrigin][i])
    BY <1>0, <1>2, <1>5 DEF LoopInv, MigInv, NewKey
  <2>1. /\ MigOrigin # None /\ Len(mOut) <= Len(plain[MigOrigin])
        /\ \A i \in 1..Len(mOut) :
             mOut[i] = DataFrame(NewKey, mNewHeader, i - 1, plain[MigOrigin][i])
    BY DEF MigInv, LoopInv
  <2>2. Len(mOut) \in Nat
    BY <1>5
  <2>3. \A i \in 1..Len(mOut) : plain'[MigOrigin][i] = plain[MigOrigin][i]
    BY <1>4, <2>1, <2>2 DEF Grows
  <2>4. Len(mOut) <= Len(plain'[MigOrigin])
    BY <1>4, <2>1, <2>2 DEF Grows
  <2> QED
    BY <2>1, <2>3, <2>4
<1>7. ASSUME NEW i \in 1..Len(mOut) PROVE OutputInv(Target, i)'
  <2>1. OutputInv(Target, i) /\ RootOf(Target) = MigOrigin /\ RootOf(Target)' = MigOrigin
    BY <1>2 DEF MigInv, RootOf
  <2>2. /\ BundleOf(Target)' = BundleOf(Target) /\ HeaderOf(Target)' = HeaderOf(Target)
        /\ OutputOf(Target)' = OutputOf(Target)
    BY <1>0 DEF BundleOf, HeaderOf, OutputOf
  <2>3. MigOrigin # None /\ i \in Nat \ {0}
    BY <1>5, <2>1 DEF OutputInv
  <2>4. CASE i <= Len(plain[MigOrigin])
    <3>1. plain'[MigOrigin][i] = plain[MigOrigin][i] /\ i <= Len(plain'[MigOrigin])
      BY <1>4, <2>3, <2>4 DEF Grows
    <3>2. i # Len(plain[MigOrigin]) + 1
      BY <1>4, <2>3, <2>4
    <3> QED
      BY <2>1, <2>2, <2>3, <3>1, <3>2 DEF OutputInv
  <2>5. CASE ~(i <= Len(plain[MigOrigin]))
    <3>1. ended[MigOrigin]
      BY <2>1, <2>5 DEF OutputInv
    <3>2. ended'[MigOrigin] /\ plain'[MigOrigin] = plain[MigOrigin]
      BY <1>4, <2>3, <3>1 DEF Grows
    <3> QED
      BY <2>1, <2>2, <2>3, <2>5, <3>2 DEF OutputInv
  <2> QED
    BY <2>4, <2>5
<1>8. MigratedComplete'
  <2> SUFFICES ASSUME mPc = "ok" PROVE MigratedComplete'
    BY <1>0 DEF MigratedComplete
  <2>1. MigOrigin # None /\ ended[MigOrigin]
    BY DEF MigInv, MigratedComplete
  <2>2. ended'[MigOrigin] /\ plain'[MigOrigin] = plain[MigOrigin]
    BY <1>4, <2>1 DEF Grows
  <2> QED
    BY <1>0, <1>2, <2>1, <2>2 DEF MigInv, MigratedComplete, NewKey
<1>9. \A i \in 1..Len(mOut') : OutputInv(Target, i)'
  BY <1>0, <1>7
<1> QED
  BY <1>1, <1>3, <1>6, <1>8, <1>9 DEF MigInv

-----------------------------------------------------------------------------
\* The migrator's own steps.

\* In its loop the migrator has both keys, with the headers they go with.
LEMMA InLoopMig ==
  ASSUME MigInv, mPc = "body"
  PROVE  /\ mOldKey \in RootKey /\ mOldKey # None
         /\ mOldHeader \in Header /\ mOldHeader.nonce \in BaseNonce
         /\ mOldKey.comps.call # Target
         /\ mNewBundle \in Bundle /\ NewKey \in RootKey
         /\ mNewHeader \in Header /\ mNewHeader.nonce \in BaseNonce
         /\ mSeq \in Nat /\ mSeq = Len(mOut) /\ mNewSeq = Len(mOut)
         /\ mOut \in Seq(Frame)
         /\ \A i \in 1..Len(mOut) :
               mOut[i] = DataFrame(NewKey, mNewHeader, i - 1, plain[MigOrigin][i])
<1>1. mOldKey # None
  BY DEF MigInv, KeysInv
<1>2. mNewBundle \in Bundle /\ \E n \in BaseNonce : mNewHeader = HeaderFor(mNewBundle, Target, n)
  BY <1>1 DEF MigInv, KeysInv
<1>3. /\ NewKey \in RootKey
      /\ mNewHeader \in Header /\ mNewHeader.nonce \in BaseNonce
  BY <1>2, KeyType, HeaderType, TargetIs DEF NewKey
<1>4. mSeq \in Nat
  BY LimitAssumption DEF MigInv, MigTypeOK
<1> QED
  BY <1>1, <1>2, <1>3, <1>4 DEF MigInv, MigTypeOK, KeysInv, LoopInv

\* What authenticates for the migrator is the next chunk of the encryptor whose
\* key and header it has, or the end of that encryptor's input.
LEMMA MigAuthenticData ==
  ASSUME EncInv, MigInv, mPc = "body",
         NEW f \in FramesOffered(Source, mSeq), NEW p \in Chunk, MigAccepts(f, p)
  PROVE  /\ MigOrigin # None
         /\ mSeq + 1 <= Len(plain[MigOrigin])
         /\ p = plain[MigOrigin][mSeq + 1]
         /\ mSeq < MaxFrames
         /\ mTotal + (f.len - TagLen) \in 0..MaxPlain
<1>1. /\ f.ct = SealedData(mOldKey, mOldHeader, mSeq, p)
      /\ mSeq < MaxFrames
      /\ mTotal + (f.len - TagLen) <= MaxPlain
      /\ f.len = Size[p] + TagLen
  BY DEF MigAccepts, AcceptsData
<1>2. mTotal \in Nat
  BY LimitAssumption DEF MigInv, MigTypeOK
<1>3. mTotal + (f.len - TagLen) \in 0..MaxPlain
  BY <1>1, <1>2, SizeAssumption, LimitAssumption
<1>4. /\ MigOrigin \in Stream /\ mOldKey.comps.call = MigOrigin
      /\ LET o == RootOf(MigOrigin) IN
           o # None /\ mSeq + 1 <= Len(plain[o]) /\ p = plain[o][mSeq + 1]
  BY <1>1, InLoopMig, AuthenticData, TargetIs DEF MigOrigin
<1>5. RootOf(MigOrigin) = MigOrigin
  BY <1>4, InLoopMig DEF RootOf
<1> QED
  BY <1>1, <1>3, <1>4, <1>5

LEMMA MigAuthenticFinal ==
  ASSUME EncInv, MigInv, mPc = "body",
         NEW f \in FramesOffered(Source, mSeq), MigAcceptsFinal(f)
  PROVE  /\ MigOrigin # None
         /\ ended[MigOrigin]
         /\ mSeq = Len(plain[MigOrigin])
<1>1. f.ct = SealedFinal(mOldKey, mOldHeader, mSeq)
  BY DEF MigAcceptsFinal, AcceptsFinal
<1>2. /\ MigOrigin \in Stream /\ mOldKey.comps.call = MigOrigin
      /\ LET o == RootOf(MigOrigin) IN
           o # None /\ ended[o] /\ mSeq = Len(plain[o])
  BY <1>1, InLoopMig, AuthenticFinal, TargetIs DEF MigOrigin
<1>3. RootOf(MigOrigin) = MigOrigin
  BY <1>2, InLoopMig DEF RootOf
<1> QED
  BY <1>2, <1>3

\* A step that writes no frame and takes no key keeps the invariant, if it ends
\* with the buffers the invariant asks for.
LEMMA MigQuiet ==
  ASSUME EncInv, MigInv, UNCHANGED eVars,
         UNCHANGED <<mHandles, mMin>>,
         UNCHANGED <<mOldHeader, mOldKey, mNewBundle, mNewHeader>>,
         UNCHANGED <<mSeq, mNewSeq, mTotal>>, mOut' = mOut,
         mPc' \in {"error", "downgrade"},
         mPc' = "downgrade" => mPc = "header" /\ UNCHANGED <<mOldBuf, mNewBuf>>,
         mOldBuf' \in {"none", "live", "wiped"}, mNewBuf' \in {"none", "live", "wiped"},
         mPc = "header" \/ (mPc = "body" /\ mOldBuf' = "wiped" /\ mNewBuf' = "wiped")
  PROVE  MigInv'
<1>1. eHeader' = eHeader /\ plain' = plain /\ ended' = ended
  BY DEF eVars
<1>2. MigOrigin' = MigOrigin
  BY StutterGrows, MigOriginKept
<1>3. MigTypeOK'
  BY DEF MigInv, MigTypeOK
<1>4. KeysInv'
  BY <1>1 DEF MigInv, KeysInv, MeetsMinimum
<1>5. LoopInv' /\ MigratedComplete'
  BY DEF LoopInv, MigratedComplete
<1>6. ASSUME NEW i \in 1..Len(mOut) PROVE OutputInv(Target, i)'
  <2>1. OutputInv(Target, i)
    BY DEF MigInv
  <2>2. /\ RootOf(Target)' = RootOf(Target) /\ BundleOf(Target)' = BundleOf(Target)
        /\ HeaderOf(Target)' = HeaderOf(Target) /\ OutputOf(Target)' = OutputOf(Target)
    BY <1>2 DEF RootOf, BundleOf, HeaderOf, OutputOf
  <2> QED
    BY <1>1, <2>1, <2>2 DEF OutputInv
<1> QED
  BY <1>3, <1>4, <1>5, <1>6 DEF MigInv

\* A step that writes one frame, for what the migrator has just authenticated.
LEMMA MigWrites ==
  ASSUME EncInv, MigInv, UNCHANGED eVars, mPc = "body", MigOrigin # None,
         UNCHANGED <<mHandles, mMin>>,
         UNCHANGED <<mOldHeader, mOldKey, mNewBundle, mNewHeader>>,
         NEW g \in Frame, mOut' = Append(mOut, g),
         \/ /\ mSeq + 1 <= Len(plain[MigOrigin])
            /\ g.ct = SealedData(NewKey, mNewHeader, mSeq, plain[MigOrigin][mSeq + 1])
         \/ /\ ended[MigOrigin] /\ mSeq = Len(plain[MigOrigin])
            /\ g.ct = SealedFinal(NewKey, mNewHeader, mSeq)
  PROVE  /\ mOut' \in Seq(Frame) /\ Len(mOut') = mSeq + 1
         /\ \A i \in 1..Len(mOut) : mOut'[i] = mOut[i]
         /\ mOut'[mSeq + 1] = g
         /\ MigOrigin' = MigOrigin /\ plain' = plain /\ ended' = ended
         /\ \A i \in 1..Len(mOut') : OutputInv(Target, i)'
<1>1. eHeader' = eHeader /\ plain' = plain /\ ended' = ended
  BY DEF eVars
<1>2. MigOrigin' = MigOrigin
  BY StutterGrows, MigOriginKept
<1>3. mOut \in Seq(Frame) /\ mSeq \in Nat /\ mSeq = Len(mOut)
  BY InLoopMig
<1>4. /\ mOut' \in Seq(Frame) /\ Len(mOut') = mSeq + 1
      /\ \A i \in 1..Len(mOut) : mOut'[i] = mOut[i]
      /\ mOut'[mSeq + 1] = g
  BY <1>3
<1>5. /\ RootOf(Target) = MigOrigin /\ RootOf(Target)' = MigOrigin
      /\ BundleOf(Target) = mNewBundle /\ BundleOf(Target)' = mNewBundle
      /\ HeaderOf(Target) = mNewHeader /\ HeaderOf(Target)' = mNewHeader
      /\ OutputOf(Target) = mOut /\ OutputOf(Target)' = mOut'
  BY <1>2 DEF RootOf, BundleOf, HeaderOf, OutputOf
<1>6. ASSUME NEW i \in 1..Len(mOut') PROVE OutputInv(Target, i)'
  <2>1. CASE i \in 1..Len(mOut)
    <3>1. OutputInv(Target, i) /\ mOut'[i] = mOut[i]
      BY <1>4, <2>1 DEF MigInv
    <3> QED
      BY <1>1, <1>5, <3>1 DEF OutputInv
  <2>2. CASE i \notin 1..Len(mOut)
    <3>1. i = mSeq + 1 /\ i - 1 = mSeq
      BY <1>3, <1>4, <2>2
    <3>2. MigOrigin \in Stream
      BY MigOriginIs
    <3>3. Len(plain[MigOrigin]) \in Nat
      BY <3>2 DEF EncInv, EncTypeOK
    <3> QED
      BY <1>1, <1>4, <1>5, <3>1, <3>3 DEF OutputInv, NewKey
  <2> QED
    BY <2>1, <2>2
<1> QED
  BY <1>1, <1>2, <1>4, <1>6

\* The header is opened, and both keys taken.
LEMMA MigOpenInv ==
  ASSUME EncInv, MigInv, UNCHANGED eVars, NEW h \in HeadersOffered(Source), MigOpen(h)
  PROVE  MigInv'
<1>1. PICK b \in NewBundles, n \in BaseNonce :
         mNewBundle' = b /\ mNewHeader' = HeaderFor(b, Target, n)
  BY DEF MigOpen
<1>2. /\ mPc = "header" /\ mPc' = "body" /\ mOldHeader' = h
      /\ mOldKey' = RecoveredKey(mHandles, h)
      /\ mOldBuf' = "live" /\ mNewBuf' = "live"
      /\ mHandles' = mHandles /\ mMin' = mMin
      /\ mSeq' = mSeq /\ mNewSeq' = mNewSeq /\ mTotal' = mTotal /\ mOut' = mOut
      /\ MeetsMinimum(h, mMin) /\ h.nonce # None
  BY DEF MigOpen, MigAdmissible, mArgs, mCounts
<1>3. mOldKey = None /\ mNewHeader = None /\ mOut = <<>> /\ mSeq = 0 /\ mNewSeq = 0
  BY <1>2 DEF MigInv, KeysInv
<1>4. h \in Header /\ h.comps.call \in Stream /\ HeaderOf(h.comps.call) # None
  BY OfferedHeader, TargetIs
<1>5. h.comps.call # Target /\ eHeader[h.comps.call] # None /\ h.nonce \in BaseNonce
  BY <1>2, <1>3, <1>4 DEF HeaderOf, Header
<1>6. b \in Bundle /\ mHandles \in Bundle
  BY NewBundlesAssumption DEF MigInv, MigTypeOK
<1>7. /\ RecoveredKey(mHandles, h) \in RootKey /\ HeaderFor(b, Target, n) \in Header
      /\ RecoveredKey(mHandles, h) # None
  BY <1>4, <1>6, RecoveredType, HeaderType, TargetIs, AbsentAssumption
<1>8. MigTypeOK'
  BY <1>1, <1>2, <1>4, <1>7 DEF MigInv, MigTypeOK
<1>9. KeysInv'
  <2>1. RecoveredKey(mHandles, h).comps.call = h.comps.call
    BY DEF RecoveredKey
  <2>2. eHeader' = eHeader
    BY DEF eVars
  <2>3. MeetsMinimum(mOldHeader, mMin)'
    BY <1>2 DEF MeetsMinimum
  <2> QED
    BY <1>1, <1>2, <1>4, <1>5, <1>6, <1>7, <2>1, <2>2, <2>3 DEF KeysInv
<1>10. LoopInv' /\ MigratedComplete' /\ \A i \in 1..Len(mOut') : OutputInv(Target, i)'
  BY <1>2, <1>3 DEF LoopInv, MigratedComplete
<1> QED
  BY <1>8, <1>9, <1>10 DEF MigInv

\* A DATA frame is migrated.
LEMMA MigDataInv ==
  ASSUME EncInv, MigInv, UNCHANGED eVars,
         NEW f \in FramesOffered(Source, mSeq), MigData(f)
  PROVE  MigInv'
<1>1. PICK p \in Chunk :
         /\ MigAccepts(f, p)
         /\ mOut' = Append(mOut, DataFrame(NewKey, mNewHeader, mNewSeq, p))
         /\ mTotal' = mTotal + (f.len - TagLen)
  BY DEF MigData
<1>2. /\ mPc = "body" /\ mPc' = "body"
      /\ mSeq' = mSeq + 1 /\ mNewSeq' = mNewSeq + 1
      /\ mHandles' = mHandles /\ mMin' = mMin
      /\ mOldHeader' = mOldHeader /\ mOldKey' = mOldKey
      /\ mNewBundle' = mNewBundle /\ mNewHeader' = mNewHeader
      /\ mOldBuf' = mOldBuf /\ mNewBuf' = mNewBuf
  BY DEF MigData, mArgs, mKeys
<1>3. /\ MigOrigin # None
      /\ mSeq + 1 <= Len(plain[MigOrigin])
      /\ p = plain[MigOrigin][mSeq + 1]
      /\ mSeq < MaxFrames
      /\ mTotal + (f.len - TagLen) \in 0..MaxPlain
  BY <1>1, <1>2, MigAuthenticData
<1> DEFINE g == DataFrame(NewKey, mNewHeader, mSeq, p)
<1>4. /\ g \in Frame /\ mOut' = Append(mOut, g)
      /\ g.ct = SealedData(NewKey, mNewHeader, mSeq, plain[MigOrigin][mSeq + 1])
      /\ mSeq \in Nat /\ mSeq = Len(mOut) /\ mNewSeq = mSeq
  <2>1. g \in Frame
    BY <1>2, InLoopMig, DataType
  <2>2. g.ct = SealedData(NewKey, mNewHeader, mSeq, p)
    BY DEF DataFrame
  <2> QED
    BY <1>1, <1>2, <1>3, <2>1, <2>2, InLoopMig
<1> HIDE DEF g
<1>5. /\ mOut' \in Seq(Frame) /\ Len(mOut') = mSeq + 1
      /\ \A i \in 1..Len(mOut) : mOut'[i] = mOut[i]
      /\ mOut'[mSeq + 1] = g
      /\ MigOrigin' = MigOrigin /\ plain' = plain /\ ended' = ended
      /\ \A i \in 1..Len(mOut') : OutputInv(Target, i)'
  BY <1>2, <1>3, <1>4, MigWrites
<1>6. MigTypeOK'
  <2>1. mSeq' \in 0..MaxFrames /\ mNewSeq' \in 0..MaxFrames /\ mTotal' \in 0..MaxPlain
    BY <1>1, <1>2, <1>3, <1>4, LimitAssumption
  <2> QED
    BY <1>2, <1>5, <2>1 DEF MigInv, MigTypeOK
<1>7. KeysInv'
  BY <1>2 DEF MigInv, KeysInv, MeetsMinimum, eVars
<1>8. LoopInv'
  <2>1. NewKey' = NewKey
    BY <1>2 DEF NewKey
  <2>2. ASSUME NEW i \in 1..Len(mOut')
        PROVE  mOut'[i] = DataFrame(NewKey, mNewHeader, i - 1, plain[MigOrigin][i])
    <3>1. CASE i \in 1..Len(mOut)
      BY <1>2, <1>5, <3>1, InLoopMig
    <3>2. CASE i \notin 1..Len(mOut)
      <4>1. i = mSeq + 1 /\ i - 1 = mSeq
        BY <1>4, <1>5, <3>2
      <4> QED
        BY <1>3, <1>5, <4>1 DEF g
    <3> QED
      BY <3>1, <3>2
  <2> QED
    BY <1>2, <1>3, <1>4, <1>5, <2>1, <2>2 DEF LoopInv
<1>9. MigratedComplete'
  BY <1>2 DEF MigratedComplete
<1> QED
  BY <1>5, <1>6, <1>7, <1>8, <1>9 DEF MigInv

\* The FINAL frame is migrated: what has been written is then all of it.
LEMMA MigFinalInv ==
  ASSUME EncInv, MigInv, UNCHANGED eVars,
         NEW f \in FramesOffered(Source, mSeq), NEW more \in BOOLEAN, MigFinal(f, more)
  PROVE  MigInv'
<1>1. /\ mPc = "body" /\ mPc' \in {"error", "ok"}
      /\ mSeq' = mSeq /\ mNewSeq' = mNewSeq /\ mTotal' = mTotal
      /\ mHandles' = mHandles /\ mMin' = mMin
      /\ mOldHeader' = mOldHeader /\ mOldKey' = mOldKey
      /\ mNewBundle' = mNewBundle /\ mNewHeader' = mNewHeader
      /\ mOldBuf' = "wiped" /\ mNewBuf' = "wiped"
      /\ mOut' = Append(mOut, FinalFrame(NewKey, mNewHeader, mNewSeq))
      /\ MigAcceptsFinal(f)
  BY DEF MigFinal, MigReturn, mArgs, mKeys, mCounts
<1>2. MigOrigin # None /\ ended[MigOrigin] /\ mSeq = Len(plain[MigOrigin])
  BY <1>1, MigAuthenticFinal
<1> DEFINE g == FinalFrame(NewKey, mNewHeader, mSeq)
<1>3. /\ g \in Frame /\ mOut' = Append(mOut, g)
      /\ g.ct = SealedFinal(NewKey, mNewHeader, mSeq)
      /\ mSeq \in Nat /\ mSeq = Len(mOut) /\ mNewSeq = mSeq /\ mOut \in Seq(Frame)
  <2>1. g \in Frame
    BY <1>1, InLoopMig, FinalType
  <2>2. g.ct = SealedFinal(NewKey, mNewHeader, mSeq)
    BY DEF FinalFrame
  <2> QED
    BY <1>1, <2>1, <2>2, InLoopMig
<1> HIDE DEF g
<1>4. /\ mOut' \in Seq(Frame) /\ Len(mOut') = mSeq + 1
      /\ MigOrigin' = MigOrigin /\ plain' = plain /\ ended' = ended
      /\ \A i \in 1..Len(mOut') : OutputInv(Target, i)'
  BY <1>1, <1>2, <1>3, MigWrites
<1>5. MigTypeOK'
  BY <1>1, <1>4 DEF MigInv, MigTypeOK
<1>6. KeysInv'
  BY <1>1 DEF MigInv, KeysInv, MeetsMinimum, eVars
<1>7. LoopInv'
  BY <1>1 DEF LoopInv
<1>8. MigratedComplete'
  <2> DEFINE p == plain[MigOrigin]
             d == [i \in 1..Len(p) |-> DataFrame(NewKey, mNewHeader, i - 1, p[i])]
  <2>1. \A i \in 1..Len(mOut) : mOut[i] = DataFrame(NewKey, mNewHeader, i - 1, p[i])
    BY <1>1, InLoopMig
  <2>2. Len(p) = Len(mOut)
    BY <1>2, <1>3
  <2>3. \A i \in 1..Len(mOut) : mOut[i] \in Frame
    BY <1>3
  <2>4. d = [i \in 1..Len(mOut) |-> mOut[i]]
    BY <2>1, <2>2
  <2>5. mOut = [i \in 1..Len(mOut) |-> mOut[i]]
    BY <1>3
  <2>6. mOut' = d \o <<g>>
    <3>1. mOut = d
      BY <2>4, <2>5
    <3>2. mOut' = mOut \o <<g>>
      BY <1>3
    <3> QED
      BY <3>1, <3>2
  <2>7. g = FinalFrame(NewKey, mNewHeader, Len(p))
    BY <1>2 DEF g
  <2>8. NewKey' = NewKey
    BY <1>1 DEF NewKey
  <2> QED
    BY <1>1, <1>2, <1>4, <2>6, <2>7, <2>8 DEF MigratedComplete
<1> QED
  BY <1>4, <1>5, <1>6, <1>7, <1>8 DEF MigInv

\* A write fails with some or all of the frame in the output.
LEMMA MigWriteFailsInv ==
  ASSUME EncInv, MigInv, UNCHANGED eVars,
         NEW f \in FramesOffered(Source, mSeq), MigWriteFails(f)
  PROVE  MigInv'
<1>1. /\ mPc = "body" /\ mPc' = "error"
      /\ mSeq' = mSeq /\ mNewSeq' = mNewSeq /\ mTotal' = mTotal
      /\ mHandles' = mHandles /\ mMin' = mMin
      /\ mOldHeader' = mOldHeader /\ mOldKey' = mOldKey
      /\ mNewBundle' = mNewBundle /\ mNewHeader' = mNewHeader
      /\ mOldBuf' = "wiped" /\ mNewBuf' = "wiped"
  BY DEF MigWriteFails, MigReturn, mArgs, mKeys, mCounts
<1>2. mSeq \in Nat /\ mNewSeq = mSeq
  BY <1>1, InLoopMig
<1>3. /\ mOut' \in Seq(Frame)
      /\ MigOrigin' = MigOrigin /\ plain' = plain /\ ended' = ended
      /\ \A i \in 1..Len(mOut') : OutputInv(Target, i)'
  <2>1. PICK whole \in BOOLEAN :
          \/ \E p \in Chunk :
                /\ MigAccepts(f, p)
                /\ mOut' = Append(mOut, [DataFrame(NewKey, mNewHeader, mNewSeq, p)
                                           EXCEPT !.whole = whole])
          \/ /\ MigAcceptsFinal(f)
             /\ mOut' = Append(mOut, [FinalFrame(NewKey, mNewHeader, mNewSeq)
                                        EXCEPT !.whole = whole])
    BY DEF MigWriteFails
  <2>2. CASE \E p \in Chunk :
                /\ MigAccepts(f, p)
                /\ mOut' = Append(mOut, [DataFrame(NewKey, mNewHeader, mNewSeq, p)
                                           EXCEPT !.whole = whole])
    <3>1. PICK p \in Chunk :
                /\ MigAccepts(f, p)
                /\ mOut' = Append(mOut, [DataFrame(NewKey, mNewHeader, mNewSeq, p)
                                           EXCEPT !.whole = whole])
      BY <2>2
    <3>2. /\ MigOrigin # None
          /\ mSeq + 1 <= Len(plain[MigOrigin])
          /\ p = plain[MigOrigin][mSeq + 1]
      BY <1>1, <3>1, MigAuthenticData
    <3> DEFINE g == [DataFrame(NewKey, mNewHeader, mSeq, p) EXCEPT !.whole = whole]
    <3>3. DataFrame(NewKey, mNewHeader, mSeq, p) \in Frame
      BY <1>1, <1>2, InLoopMig, DataType
    <3>4. g \in Frame
      BY <3>3 DEF Frame
    <3>5. g.ct = SealedData(NewKey, mNewHeader, mSeq, plain[MigOrigin][mSeq + 1])
      BY <3>2 DEF DataFrame
    <3>6. mOut' = Append(mOut, g)
      BY <1>2, <3>1
    <3> HIDE DEF g
    <3> QED
      BY <1>1, <3>2, <3>4, <3>5, <3>6, MigWrites
  <2>3. CASE /\ MigAcceptsFinal(f)
             /\ mOut' = Append(mOut, [FinalFrame(NewKey, mNewHeader, mNewSeq)
                                        EXCEPT !.whole = whole])
    <3>1. MigOrigin # None /\ ended[MigOrigin] /\ mSeq = Len(plain[MigOrigin])
      BY <1>1, <2>3, MigAuthenticFinal
    <3> DEFINE g == [FinalFrame(NewKey, mNewHeader, mSeq) EXCEPT !.whole = whole]
    <3>2. FinalFrame(NewKey, mNewHeader, mSeq) \in Frame
      BY <1>1, <1>2, InLoopMig, FinalType
    <3>3. g \in Frame
      BY <3>2 DEF Frame
    <3>4. g.ct = SealedFinal(NewKey, mNewHeader, mSeq)
      BY DEF FinalFrame
    <3>5. mOut' = Append(mOut, g)
      BY <1>2, <2>3
    <3> HIDE DEF g
    <3> QED
      BY <1>1, <3>1, <3>3, <3>4, <3>5, MigWrites
  <2> QED
    BY <2>1, <2>2, <2>3
<1>4. MigTypeOK'
  BY <1>1, <1>3 DEF MigInv, MigTypeOK
<1>5. KeysInv'
  BY <1>1 DEF MigInv, KeysInv, MeetsMinimum, eVars
<1>6. LoopInv' /\ MigratedComplete'
  BY <1>1 DEF LoopInv, MigratedComplete
<1> QED
  BY <1>3, <1>4, <1>5, <1>6 DEF MigInv

\* Every step of the migrator keeps its part of the invariant.
LEMMA MigrateMig ==
  ASSUME EncInv, MigInv, Migrate
  PROVE  MigInv'
<1>1. UNCHANGED eVars
  BY DEF Migrate
<1>2. CASE MigUnreadable
  BY <1>1, <1>2, MigQuiet DEF MigUnreadable, mArgs, mKeys, mCounts, MigInv, MigTypeOK
<1>3. ASSUME NEW h \in HeadersOffered(Source),
             MigDowngrade(h) \/ MigRefuse(h, Faulty) \/ MigSetupFails(h)
      PROVE  MigInv'
  BY <1>1, <1>3, MigQuiet
  DEF MigDowngrade, MigRefuse, MigSetupFails, mArgs, mKeys, mCounts, MigInv, MigTypeOK
<1>4. ASSUME NEW f \in FramesOffered(Source, mSeq), MigBadFrame(f)
      PROVE  MigInv'
  BY <1>1, <1>4, MigQuiet DEF MigBadFrame, MigReturn, mArgs, mKeys, mCounts
<1>5. CASE MigMissingFinal
  BY <1>1, <1>5, MigQuiet DEF MigMissingFinal, MigReturn, mArgs, mKeys, mCounts
<1> QED
  BY <1>1, <1>2, <1>3, <1>4, <1>5, MigOpenInv, MigDataInv, MigFinalInv,
     MigWriteFailsInv DEF Migrate

-----------------------------------------------------------------------------
\* A decryption step changes nothing of the writers.
LEMMA DecryptKept ==
  ASSUME EncInv, MigInv, Decrypt
  PROVE  /\ \A c \in Stream : HeaderOf(c)' = HeaderOf(c)
         /\ \A c \in Stream : BundleOf(c)' = BundleOf(c)
         /\ MigOrigin' = MigOrigin
         /\ \A c \in Stream : Kept(c)
<1>1. UNCHANGED <<eVars, mVars>>
  BY DEF Decrypt
<1>2. /\ eHeader' = eHeader /\ eBundle' = eBundle /\ mNewHeader' = mNewHeader
      /\ mNewBundle' = mNewBundle /\ mOldKey' = mOldKey /\ mOldHeader' = mOldHeader
  BY <1>1 DEF eVars, mVars
<1>3. \A s \in Stream : Grows(s)
  BY <1>1, StutterGrows
<1>4. MigOrigin' = MigOrigin
  BY <1>2, <1>3, MigOriginKept
<1> QED
  BY <1>2, <1>4 DEF HeaderOf, BundleOf, Kept, RootOf

\* A decryption step keeps what the invariant says of the decryptor.
LEMMA DecryptRead ==
  ASSUME EncInv, MigInv, DecTypeOK, ReadInv, Decrypt
  PROVE  DecTypeOK' /\ ReadInv'
<1>0. /\ dOut \in Seq(Chunk) /\ dHandles \in Bundle /\ dMin \in Minimums
      /\ dSeq \in Nat /\ dSeq = Len(dOut) /\ dTotal \in Nat
      /\ UNCHANGED <<eVars, mVars>>
      /\ plain' = plain /\ ended' = ended
  BY LimitAssumption DEF DecTypeOK, ReadInv, Decrypt, eVars
<1>1. /\ \A c \in Stream : HeaderOf(c)' = HeaderOf(c)
      /\ \A s \in Stream : Kept(s)
  BY DecryptKept
\* The steps that write nothing and do not succeed.
<1>2. ASSUME dPc' \in {"error", "downgrade"}, dKeyBuf' \in {"none", "live", "wiped"},
             UNCHANGED <<dHandles, dMin, dHeader, dKey, dSeq, dTotal, dOut>>
      PROVE  DecTypeOK' /\ ReadInv'
  <2>1. EndToEnd' = EndToEnd /\ (dKey # None => HeaderOf(dKey.comps.call)' # None)
    BY <1>1, <1>2, EndToEndKept
  <2>2. DecTypeOK'
    BY <1>2 DEF DecTypeOK
  <2>3. dOut # <<>> => /\ EndToEnd # None
                       /\ Len(dOut) <= Len(plain[EndToEnd])
                       /\ \A i \in 1..Len(dOut) : dOut[i] = plain[EndToEnd][i]
    BY DEF ReadInv
  <2> QED
    BY <1>0, <1>2, <2>1, <2>2, <2>3 DEF ReadInv
<1>3. CASE DecUnreadable
  BY <1>2, <1>3 DEF DecUnreadable, DecTypeOK
<1>4. ASSUME NEW h \in HeadersOffered(Target), DecDowngrade(h) \/ DecRefuse(h, Faulty)
      PROVE  DecTypeOK' /\ ReadInv'
  BY <1>2, <1>4 DEF DecDowngrade, DecRefuse, DecTypeOK
<1>5. ASSUME NEW f \in FramesOffered(Target, dSeq), DecBadFrame(f)
      PROVE  DecTypeOK' /\ ReadInv'
  BY <1>2, <1>5 DEF DecBadFrame, DecReturn
<1>6. CASE DecMissingFinal
  BY <1>2, <1>6 DEF DecMissingFinal, DecReturn
<1>7. ASSUME NEW h \in HeadersOffered(Target), DecOpen(h) PROVE DecTypeOK' /\ ReadInv'
  <2>1. /\ dPc = "header" /\ dPc' = "body" /\ dHeader' = h
        /\ dKey' = RecoveredKey(dHandles, h) /\ dKeyBuf' = "live"
        /\ UNCHANGED <<dHandles, dMin, dSeq, dTotal, dOut>>
        /\ h.nonce # None
    BY <1>7 DEF DecOpen, Admissible
  <2>2. h \in Header /\ h.comps.call \in Stream /\ HeaderOf(h.comps.call) # None
    BY OfferedHeader, TargetIs
  <2>3. RecoveredKey(dHandles, h) \in RootKey /\ RecoveredKey(dHandles, h).comps.call = h.comps.call
    BY <1>0, <2>2, RecoveredType DEF RecoveredKey
  <2>4. h.nonce \in BaseNonce
    BY <2>1, <2>2 DEF Header
  <2>5. PICK c \in Stream : c = h.comps.call
    BY <2>2
  <2>6. HeaderOf(dKey.comps.call)' # None
    <3>1. dKey'.comps.call = c
      BY <2>1, <2>3, <2>5
    <3>2. HeaderOf(c)' # None
      BY <1>1, <2>2, <2>5
    <3> QED
      BY <3>1, <3>2 DEF HeaderOf
  <2>7. dOut = <<>>
    BY <2>1 DEF ReadInv
  <2>8. DecTypeOK'
    BY <1>0, <2>1, <2>2, <2>3 DEF DecTypeOK
  <2>9. ReadInv'
    BY <1>0, <2>1, <2>2, <2>3, <2>4, <2>6, <2>7 DEF ReadInv
  <2> QED
    BY <2>8, <2>9
<1>8. ASSUME NEW f \in FramesOffered(Target, dSeq), DecData(f)
       PROVE  DecTypeOK' /\ ReadInv'
  <2>1. PICK p \in Chunk :
           /\ AcceptsData(f, dKey, dHeader, dSeq, dTotal, p)
           /\ dOut' = Append(dOut, p)
           /\ dTotal' = dTotal + Size[p]
    BY <1>8 DEF DecData
  <2>2. /\ dPc = "body" /\ dPc' = "body" /\ dSeq' = dSeq + 1
        /\ UNCHANGED <<dHandles, dMin, dHeader, dKey, dKeyBuf>>
    BY <1>8 DEF DecData
  <2>3. /\ f.ct = SealedData(dKey, dHeader, dSeq, p)
        /\ dSeq < MaxFrames
        /\ dTotal + (f.len - TagLen) <= MaxPlain
        /\ f.len = Size[p] + TagLen
    BY <2>1 DEF AcceptsData
  <2>4. /\ dHeader \in Header /\ dKey \in RootKey /\ dHeader.nonce \in BaseNonce
    BY <2>2 DEF ReadInv
  <2>5. /\ EndToEnd # None /\ dSeq + 1 <= Len(plain[EndToEnd])
        /\ p = plain[EndToEnd][dSeq + 1]
    BY <1>0, <2>3, <2>4, AuthenticData, EndToEndIs, TargetIs
  <2>6. EndToEnd' = EndToEnd /\ (dKey # None => HeaderOf(dKey.comps.call)' # None)
    BY <1>1, <2>2, EndToEndKept
  <2>7. dSeq' \in 0..MaxFrames /\ dTotal' \in 0..MaxPlain
    BY <1>0, <2>1, <2>2, <2>3, SizeAssumption, LimitAssumption
  <2>8. /\ Len(dOut') = Len(dOut) + 1 /\ dOut' \in Seq(Chunk)
        /\ \A i \in 1..Len(dOut') : dOut'[i] = plain[EndToEnd][i]
    <3>1. \A i \in 1..Len(dOut) : dOut[i] = plain[EndToEnd][i]
      BY <1>0 DEF ReadInv
    <3> QED
      BY <1>0, <2>1, <2>5, <3>1
  <2>9. DecTypeOK'
    BY <1>0, <2>2, <2>7, <2>8 DEF DecTypeOK
  <2>10. ReadInv'
    BY <1>0, <2>2, <2>4, <2>5, <2>6, <2>8 DEF ReadInv
  <2> QED
    BY <2>9, <2>10
<1>9. ASSUME NEW f \in FramesOffered(Target, dSeq), NEW more \in BOOLEAN, DecFinal(f, more)
       PROVE  DecTypeOK' /\ ReadInv'
  <2>1. /\ dPc = "body" /\ AcceptsFinal(f, dKey, dHeader, dSeq)
        /\ dPc' \in {"error", "ok"} /\ dKeyBuf' = "wiped"
        /\ UNCHANGED <<dHandles, dMin, dHeader, dKey, dSeq, dTotal, dOut>>
    BY <1>9 DEF DecFinal, DecReturn
  <2>2. f.ct = SealedFinal(dKey, dHeader, dSeq)
    BY <2>1 DEF AcceptsFinal
  <2>3. /\ dHeader \in Header /\ dKey \in RootKey /\ dHeader.nonce \in BaseNonce
    BY <2>1 DEF ReadInv
  <2>4. EndToEnd # None /\ ended[EndToEnd] /\ dSeq = Len(plain[EndToEnd])
    BY <1>0, <2>2, <2>3, AuthenticFinal, EndToEndIs, TargetIs
  <2>5. EndToEnd' = EndToEnd /\ (dKey # None => HeaderOf(dKey.comps.call)' # None)
    BY <1>1, <2>1, EndToEndKept
  <2>6. \A i \in 1..Len(dOut) : dOut[i] = plain[EndToEnd][i]
    BY <1>0 DEF ReadInv
  <2>7. DecTypeOK'
    BY <1>0, <2>1 DEF DecTypeOK
  <2>8. ReadInv'
    BY <1>0, <2>1, <2>3, <2>4, <2>5, <2>6 DEF ReadInv
  <2> QED
    BY <2>7, <2>8
<1> QED
  BY <1>3, <1>4, <1>5, <1>6, <1>7, <1>8, <1>9 DEF Decrypt

-----------------------------------------------------------------------------
\* The inductive invariant.
LEMMA EncryptInv ==
  ASSUME MigrationInv, NEW s \in Stream \ {Target}, Encrypt(s)
  PROVE  MigrationInv'
<1>1. EncNext(s) /\ UNCHANGED mVars /\ UNCHANGED dVars
  BY DEF Encrypt
<1>2. EncInv'
  BY <1>1, EncryptKeeps DEF MigrationInv
<1>3. (\A t \in Stream : Grows(t)) /\ (\A t \in Stream : Kept(t))
  BY <1>1, EncryptGrows, EncryptKept DEF MigrationInv
<1>4. MigInv' /\ DecTypeOK' /\ ReadInv'
  BY <1>1, <1>2, <1>3, EncryptMig, ReadKept DEF MigrationInv
<1> QED
  BY <1>2, <1>4 DEF MigrationInv

LEMMA MigrateInv ==
  ASSUME MigrationInv, Migrate
  PROVE  MigrationInv'
<1>1. UNCHANGED eVars /\ UNCHANGED dVars
  BY DEF Migrate
<1>2. EncInv' /\ MigInv'
  BY <1>1, EncryptStutters, MigrateMig DEF MigrationInv
<1>3. (\A t \in Stream : Grows(t)) /\ (\A t \in Stream : Kept(t))
  BY <1>1, StutterGrows, MigrateKept DEF MigrationInv
<1>4. DecTypeOK' /\ ReadInv'
  BY <1>1, <1>2, <1>3, ReadKept DEF MigrationInv
<1> QED
  BY <1>2, <1>4 DEF MigrationInv

LEMMA DecryptInv ==
  ASSUME MigrationInv, Decrypt
  PROVE  MigrationInv'
<1>1. UNCHANGED eVars /\ UNCHANGED mVars
  BY DEF Decrypt
<1>2. EncInv' /\ (\A t \in Stream : Grows(t))
  BY <1>1, EncryptStutters, StutterGrows DEF MigrationInv
<1>3. MigInv'
  BY <1>1, <1>2, EncryptMig DEF MigrationInv
<1> QED
  BY <1>2, <1>3, DecryptRead DEF MigrationInv

LEMMA StutterInv ==
  ASSUME MigrationInv, UNCHANGED vars
  PROVE  MigrationInv'
<1>1. UNCHANGED eVars /\ UNCHANGED mVars /\ UNCHANGED dVars
  BY DEF vars
<1>2. EncInv' /\ (\A t \in Stream : Grows(t))
  BY <1>1, EncryptStutters, StutterGrows DEF MigrationInv
<1>3. MigInv'
  BY <1>1, <1>2, EncryptMig DEF MigrationInv
<1>4. \A t \in Stream : Kept(t)
  <2>1. MigOrigin' = MigOrigin
    BY <1>1, <1>2, MigOriginKept DEF MigrationInv, mVars
  <2> QED
    BY <1>1, <2>1 DEF Kept, HeaderOf, BundleOf, RootOf, eVars, mVars
<1>5. DecTypeOK' /\ ReadInv'
  BY <1>1, <1>2, <1>4, ReadKept DEF MigrationInv
<1> QED
  BY <1>2, <1>3, <1>5 DEF MigrationInv

LEMMA InitInv ==
  ASSUME Init
  PROVE  MigrationInv
<1>1. EncInv
  BY EncryptInit DEF Init
<1>2. MigInv
  <2>1. MigTypeOK
    BY LimitAssumption DEF Init, MigInit, MigTypeOK
  <2>2. KeysInv /\ LoopInv /\ MigratedComplete /\ mOut = <<>>
    BY DEF Init, MigInit, KeysInv, LoopInv, MigratedComplete
  <2> QED
    BY <2>1, <2>2 DEF MigInv
<1>3. DecTypeOK /\ ReadInv
  BY LimitAssumption, HandlesAssumption DEF Init, DecInit, DecTypeOK, ReadInv
<1> QED
  BY <1>1, <1>2, <1>3 DEF MigrationInv

\* The inductive invariant holds of every behaviour, over either medium.
THEOREM MigrationInvariant == Spec => []MigrationInv
<1>1. Init => MigrationInv
  BY InitInv
<1>2. MigrationInv /\ [Next]_vars => MigrationInv'
  BY EncryptInv, MigrateInv, DecryptInv, StutterInv DEF Next
<1> QED
  BY <1>1, <1>2, PTL DEF Spec

-----------------------------------------------------------------------------
\* Type correctness of the three functions: in particular the counters of
\* migrate_stream() pass neither MAX_STREAM_DATA_FRAMES nor
\* MAX_STREAM_PLAINTEXT_SIZE.
THEOREM TypeCorrect == Spec => []TypeOK
<1>1. MigrationInv => TypeOK
  BY DEF MigrationInv, EncInv, MigInv, TypeOK
<1> QED
  BY <1>1, MigrationInvariant, PTL

\* Root key and nonce are never used twice, in the encrypted streams and in the
\* migrated one taken together.
THEOREM NonceUniqueness == Spec => []NonceUnique
<1>1. ASSUME MigrationInv PROVE NonceUnique
  <2> SUFFICES ASSUME NEW s \in Stream, NEW t \in Stream,
                      NEW i \in 1..Len(OutputOf(s)), NEW j \in 1..Len(OutputOf(t)),
                      OutputOf(s)[i].ct.key = OutputOf(t)[j].ct.key,
                      OutputOf(s)[i].ct.nonce = OutputOf(t)[j].ct.nonce
               PROVE  s = t /\ i = j
    BY DEF NonceUnique
  <2>1. OutputInv(s, i) /\ OutputInv(t, j) /\ i \in Nat /\ j \in Nat
    BY <1>1, FrameWritten DEF MigrationInv
  <2>2. ASSUME NEW u \in Stream, NEW k \in 1..Len(OutputOf(u)), OutputInv(u, k)
        PROVE  OutputOf(u)[k].ct.key.comps.call = u /\ OutputOf(u)[k].ct.nonce.seq = k - 1
    BY <2>2 DEF OutputInv, SealedData, SealedFinal, Seal, ChunkNonce, KeyFor
  <2>3. /\ OutputOf(s)[i].ct.key.comps.call = s /\ OutputOf(s)[i].ct.nonce.seq = i - 1
        /\ OutputOf(t)[j].ct.key.comps.call = t /\ OutputOf(t)[j].ct.nonce.seq = j - 1
    BY <2>1, <2>2
  <2>4. s = t /\ i - 1 = j - 1
    BY <2>3
  <2> QED
    BY <2>1, <2>4
<1> QED
  BY <1>1, MigrationInvariant, PTL

\* migrate_stream() returns only when its output is, frame for frame, what
\* encrypt_stream() would have written of the whole of an input that ended.
THEOREM WholeMigrations == Spec => []MigratedComplete
<1>1. MigrationInv => MigratedComplete
  BY DEF MigrationInv, MigInv
<1> QED
  BY <1>1, MigrationInvariant, PTL

\* min_profile bounds the profile the sender of the source really used.
THEOREM NoLaundering == Spec => []MigrationHonoursMinimum
<1>1. ASSUME MigrationInv PROVE MigrationHonoursMinimum
  <2> SUFFICES ASSUME mOut # <<>>, mMin # None
               PROVE  /\ MigOrigin # None
                      /\ Strength[eBundle[MigOrigin].profile] >= Strength[mMin]
    BY DEF MigrationHonoursMinimum
  <2>1. mOut \in Seq(Frame)
    BY <1>1 DEF MigrationInv, MigInv, MigTypeOK
  <2>2. 1 \in 1..Len(mOut)
    BY <2>1
  <2>3. OutputInv(Target, 1)
    BY <1>1, <2>2 DEF MigrationInv, MigInv
  <2>4. MigOrigin # None
    BY <2>3 DEF OutputInv, RootOf
  <2>5. /\ MigOrigin \in Stream /\ eHeader[MigOrigin] = mOldHeader
        /\ mOldKey # None /\ eBundle[MigOrigin] # None
    BY <1>1, <2>4, MigOriginIs DEF MigrationInv
  <2>6. MeetsMinimum(mOldHeader, mMin)
    BY <1>1, <2>5 DEF MigrationInv, MigInv, KeysInv
  <2>7. eBundle[MigOrigin].profile = mOldHeader.profile
    BY <1>1, <2>5 DEF MigrationInv, EncInv, CallInv
  <2> QED
    BY <2>4, <2>6, <2>7 DEF MeetsMinimum
<1> QED
  BY <1>1, MigrationInvariant, PTL

\* Every exit of migrate_stream()'s loop has zeroized both key buffers: a call
\* that leaves one live raised before the loop, with no frame written.
THEOREM BuffersWiped == Spec => []LoopBuffersWiped
<1>1. MigrationInv => LoopBuffersWiped
  BY DEF MigrationInv, MigInv, KeysInv, LoopBuffersWiped, Returned
<1> QED
  BY <1>1, MigrationInvariant, PTL

-----------------------------------------------------------------------------
\* End to end the three implement AuthenticChannel.
LEMMA VerdictIs ==
  /\ dPc \in {"header", "body"} => Verdict = "open"
  /\ dPc = "ok" => Verdict = "accepted"
  /\ dPc \in {"error", "downgrade"} => Verdict = "rejected"
BY DEF Verdict

LEMMA VerdictIsNext ==
  /\ dPc' \in {"header", "body"} => Verdict' = "open"
  /\ dPc' = "ok" => Verdict' = "accepted"
  /\ dPc' \in {"error", "downgrade"} => Verdict' = "rejected"
BY DEF Verdict

LEMMA EncryptRefines ==
  ASSUME MigrationInv, NEW s \in Stream \ {Target}, Encrypt(s)
  PROVE  [Abstract!Next]_(Abstract!vars)
<1>1. EncNext(s) /\ UNCHANGED mVars /\ UNCHANGED dVars
  BY DEF Encrypt
<1>2. EndToEnd' = EndToEnd /\ dOut' = dOut /\ Verdict' = Verdict
  <2>1. \A t \in Stream : Kept(t)
    BY <1>1, EncryptKept DEF MigrationInv
  <2> QED
    BY <1>1, <2>1, EndToEndKept DEF MigrationInv, dVars, Verdict
<1>3. plain \in [Stream -> Seq(Chunk)] /\ ended \in [Stream -> BOOLEAN]
  BY DEF MigrationInv, EncInv, EncTypeOK
<1>4. ePc[s] = "body" => ~ended[s]
  BY InLoop DEF MigrationInv
<1>5. \/ plain' = plain /\ ended' = ended
      \/ \E c \in Chunk : /\ ePc[s] = "body" /\ ended' = ended
                          /\ plain' = [plain EXCEPT ![s] = Append(@, c)]
      \/ /\ ePc[s] = "body" /\ plain' = plain
         /\ ended' = [ended EXCEPT ![s] = TRUE]
  <2>1. CASE EncIoError(s)
    <3>1. ePc[s] = "body"
      BY <2>1 DEF EncIoError
    <3> QED
      BY <2>1, <3>1, IoErrorCases DEF MigrationInv
  <2>2. CASE ~EncIoError(s)
    BY <1>1, <2>2 DEF EncNext, EncStart, EncRefuse, EncChunk, EncLimit, EncFinal
  <2> QED
    BY <2>1, <2>2
<1>6. CASE plain' = plain /\ ended' = ended
  BY <1>2, <1>6 DEF Abstract!vars
<1>7. ASSUME NEW c \in Chunk, ePc[s] = "body", ended' = ended,
             plain' = [plain EXCEPT ![s] = Append(@, c)]
      PROVE  Abstract!Send(s, c)
  BY <1>2, <1>4, <1>7 DEF Abstract!Send
<1>8. CASE ePc[s] = "body" /\ plain' = plain /\ ended' = [ended EXCEPT ![s] = TRUE]
  <2>1. Abstract!Close(s)
    BY <1>2, <1>4, <1>8 DEF Abstract!Close
  <2> QED
    BY <2>1 DEF Abstract!Next
<1> QED
  BY <1>5, <1>6, <1>7, <1>8 DEF Abstract!Next

\* The migrator's steps are invisible end to end.
LEMMA MigrateRefines ==
  ASSUME MigrationInv, Migrate
  PROVE  UNCHANGED Abstract!vars
<1>1. UNCHANGED eVars /\ UNCHANGED dVars
  BY DEF Migrate
<1>2. \A t \in Stream : Kept(t)
  BY MigrateKept DEF MigrationInv
<1>3. EndToEnd' = EndToEnd
  BY <1>1, <1>2, EndToEndKept DEF MigrationInv, dVars
<1> QED
  BY <1>1, <1>3 DEF Abstract!vars, eVars, dVars, Verdict

LEMMA DecryptRefines ==
  ASSUME MigrationInv, MigrationInv', Decrypt
  PROVE  [Abstract!Next]_(Abstract!vars)
<1>0. /\ plain' = plain /\ ended' = ended
      /\ dOut \in Seq(Chunk) /\ dSeq = Len(dOut) /\ dSeq \in Nat
  BY LimitAssumption DEF Decrypt, eVars, MigrationInv, DecTypeOK, ReadInv
<1>1. ASSUME dHeader' = dHeader, dKey' = dKey PROVE EndToEnd' = EndToEnd
  BY <1>1, DecryptKept, EndToEndKept DEF MigrationInv
<1>2. ASSUME dPc \in {"header", "body"}, dPc' \in {"error", "downgrade"},
             UNCHANGED <<dHeader, dKey, dOut>>
      PROVE  Abstract!Reject
  BY <1>0, <1>1, <1>2, VerdictIs, VerdictIsNext DEF Abstract!Reject
<1>3. CASE DecUnreadable \/ DecMissingFinal
  BY <1>2, <1>3 DEF DecUnreadable, DecMissingFinal, DecReturn, Abstract!Next
<1>4. ASSUME NEW h \in HeadersOffered(Target), DecDowngrade(h) \/ DecRefuse(h, Faulty)
      PROVE  Abstract!Next
  BY <1>2, <1>4 DEF DecDowngrade, DecRefuse, Abstract!Next
<1>5. ASSUME NEW f \in FramesOffered(Target, dSeq), DecBadFrame(f)
      PROVE  Abstract!Next
  BY <1>2, <1>5 DEF DecBadFrame, DecReturn, Abstract!Next
<1>6. ASSUME NEW h \in HeadersOffered(Target), DecOpen(h)
      PROVE  [Abstract!Next]_(Abstract!vars)
  <2>1. dPc = "header" /\ dPc' = "body" /\ dOut' = dOut
    BY <1>6 DEF DecOpen
  <2>2. Verdict = "open" /\ Verdict' = "open"
    BY <2>1, VerdictIs, VerdictIsNext
  <2>3. dKey = None
    BY <2>1 DEF MigrationInv, ReadInv
  <2>4. EndToEnd = None
    BY <2>3, TargetIs DEF EndToEnd, OriginOf
  <2>5. EndToEnd' = None \/ EndToEnd' \in Stream
    <3>1. dKey' = None \/ dKey'.comps.call \in Stream
      BY DEF MigrationInv, DecTypeOK, RootKey, Components
    <3>2. MigOrigin' = None \/ MigOrigin' \in Stream
      BY DecryptKept, MigOriginIs DEF MigrationInv
    <3> QED
      BY <3>1, <3>2 DEF EndToEnd, OriginOf
  <2>6. CASE EndToEnd' = None
    BY <1>0, <2>1, <2>2, <2>4, <2>6 DEF Abstract!vars
  <2>7. CASE EndToEnd' \in Stream
    <3>1. Abstract!Attach(EndToEnd')
      BY <1>0, <2>1, <2>2, <2>4 DEF Abstract!Attach
    <3> QED
      BY <2>7, <3>1 DEF Abstract!Next
  <2> QED
    BY <2>5, <2>6, <2>7
<1>7. ASSUME NEW f \in FramesOffered(Target, dSeq), DecData(f)
      PROVE  Abstract!Deliver
  <2>1. PICK p \in Chunk : /\ AcceptsData(f, dKey, dHeader, dSeq, dTotal, p)
                           /\ dOut' = Append(dOut, p)
    BY <1>7 DEF DecData
  <2>2. /\ dPc = "body" /\ dPc' = "body" /\ UNCHANGED <<dHeader, dKey>>
    BY <1>7 DEF DecData
  <2>3. /\ f.ct = SealedData(dKey, dHeader, dSeq, p)
        /\ dHeader \in Header /\ dKey \in RootKey /\ dHeader.nonce \in BaseNonce
    BY <2>1, <2>2 DEF AcceptsData, MigrationInv, ReadInv
  <2>4. /\ EndToEnd # None /\ dSeq + 1 <= Len(plain[EndToEnd])
        /\ p = plain[EndToEnd][dSeq + 1]
    BY <1>0, <2>3, AuthenticData, EndToEndIs, TargetIs DEF MigrationInv
  <2>5. EndToEnd' = EndToEnd
    BY <1>1, <2>2
  <2>6. Verdict = "open" /\ Verdict' = "open"
    BY <2>2, VerdictIs, VerdictIsNext
  <2>7. PICK o \in Stream : o = EndToEnd
    BY <2>4, EndToEndIs DEF MigrationInv
  <2>8. plain[o] \in Seq(Chunk)
    BY DEF MigrationInv, EncInv, EncTypeOK
  <2>9. Len(dOut) < Len(plain[o]) /\ dOut' = Append(dOut, plain[o][Len(dOut) + 1])
    BY <1>0, <2>1, <2>4, <2>7, <2>8
  <2> QED
    BY <1>0, <2>4, <2>5, <2>6, <2>7, <2>9 DEF Abstract!Deliver
<1>8. ASSUME NEW f \in FramesOffered(Target, dSeq), NEW more \in BOOLEAN, DecFinal(f, more)
      PROVE  Abstract!Next
  <2>1. /\ dPc = "body" /\ UNCHANGED <<dHeader, dKey, dOut>>
        /\ dPc' = "error" \/ dPc' = "ok"
        /\ f.ct = SealedFinal(dKey, dHeader, dSeq)
    BY <1>8 DEF DecFinal, DecReturn, AcceptsFinal
  <2>2. CASE dPc' = "error"
    BY <1>2, <2>1, <2>2 DEF Abstract!Next
  <2>3. CASE dPc' = "ok"
    <3>1. /\ dHeader \in Header /\ dKey \in RootKey /\ dHeader.nonce \in BaseNonce
      BY <2>1 DEF MigrationInv, ReadInv
    <3>2. EndToEnd # None /\ ended[EndToEnd] /\ dSeq = Len(plain[EndToEnd])
      BY <1>0, <2>1, <3>1, AuthenticFinal, EndToEndIs, TargetIs DEF MigrationInv
    <3>3. PICK o \in Stream : o = EndToEnd
      BY <3>2, EndToEndIs DEF MigrationInv
    <3>4. \A i \in 1..Len(dOut) : dOut[i] = plain[o][i]
      BY <1>0, <3>3 DEF MigrationInv, ReadInv
    <3>5. plain[o] \in Seq(Chunk)
      BY DEF MigrationInv, EncInv, EncTypeOK
    <3>6. dOut = plain[o]
      <4>1. Len(dOut) = Len(plain[o]) /\ dOut \in Seq(Chunk)
        BY <1>0, <3>2, <3>3
      <4> QED
        BY <3>4, <3>5, <4>1
    <3>7. Verdict = "open" /\ Verdict' = "accepted"
      BY <2>1, <2>3, VerdictIs, VerdictIsNext
    <3>8. EndToEnd' = EndToEnd
      BY <1>1, <2>1
    <3>9. Abstract!Accept
      BY <1>0, <2>1, <3>2, <3>3, <3>6, <3>7, <3>8 DEF Abstract!Accept
    <3> QED
      BY <3>9 DEF Abstract!Next
  <2> QED
    BY <2>1, <2>2, <2>3
<1> QED
  BY <1>3, <1>4, <1>5, <1>6, <1>7, <1>8 DEF Decrypt, Abstract!Next

\* encrypt_stream(), migrate_stream() and decrypt_stream() over either medium
\* implement the channel that the first and the last implement without it.
THEOREM Refinement == Spec => Refines
<1>1. Init => Abstract!Init
  <2> SUFFICES ASSUME Init PROVE Abstract!Init
    OBVIOUS
  <2>1. dKey = None /\ Verdict = "open"
    BY VerdictIs DEF Init, DecInit
  <2>2. EndToEnd = None
    BY <2>1, TargetIs DEF EndToEnd, OriginOf
  <2> QED
    BY <2>1, <2>2 DEF Init, EncInit, DecInit, Abstract!Init
<1>2. MigrationInv /\ MigrationInv' /\ [Next]_vars => [Abstract!Next]_(Abstract!vars)
  <2> SUFFICES ASSUME MigrationInv, MigrationInv', [Next]_vars
               PROVE  [Abstract!Next]_(Abstract!vars)
    OBVIOUS
  <2>1. CASE UNCHANGED vars
    <3>1. UNCHANGED <<eVars, mVars, dVars>>
      BY <2>1 DEF vars
    <3>2. /\ plain' = plain /\ ended' = ended /\ dOut' = dOut /\ dPc' = dPc
          /\ dKey' = dKey /\ dHeader' = dHeader /\ eHeader' = eHeader
          /\ eBundle' = eBundle /\ mNewHeader' = mNewHeader /\ mNewBundle' = mNewBundle
          /\ mOldKey' = mOldKey /\ mOldHeader' = mOldHeader
      BY <3>1 DEF eVars, mVars, dVars
    <3>3. EndToEnd' = EndToEnd /\ Verdict' = Verdict
      BY <3>2 DEF EndToEnd, MigOrigin, OriginOf, HeaderOf, BundleOf, Verdict
    <3> QED
      BY <3>2, <3>3 DEF Abstract!vars
  <2>2. CASE Next
    BY <2>2, EncryptRefines, MigrateRefines, DecryptRefines DEF Next
  <2> QED
    BY <2>1, <2>2
<1> QED
  BY <1>1, <1>2, MigrationInvariant, PTL DEF Spec, Refines, Abstract!Spec

-----------------------------------------------------------------------------
\* Acceptance, over the medium that only delivers.

Counts == [Nat -> Nat]

\* f[i] is how many bytes the first i chunks of the source are, and each of the
\* three totals is what it should be.
Totals(f) ==
  /\ f[0] = 0 /\ f[eSeq[Source]] = eTotal[Source]
  /\ \A i \in 1..eSeq[Source] : f[i] = f[i - 1] + Size[plain[Source][i]]
  /\ \A i \in 0..eSeq[Source] : f[i] <= eTotal[Source]
  /\ mTotal = f[mSeq] /\ dTotal = f[dSeq]

\* A reader is not ahead of what it reads.
Ordered == dSeq <= mSeq /\ mSeq <= eSeq[Source]

\* The source is its header, a DATA frame for each chunk that was within the
\* limits and, if it is done, a FINAL frame.
SourceInv ==
  /\ eHeader[Source] # None =>
        \E n \in BaseNonce : eHeader[Source] = HeaderFor(eBundle[Source], Source, n)
  /\ Len(wire[Source]) = eSeq[Source] + (IF ePc[Source] = "done" THEN 1 ELSE 0)
  /\ eSeq[Source] <= Len(plain[Source])
  /\ \A i \in 1..eSeq[Source] :
        /\ wire[Source][i] = DataFrame(EncKey(Source), eHeader[Source], i - 1, plain[Source][i])
        /\ Size[plain[Source][i]] <= MaxChunk
  /\ ePc[Source] = "done" =>
        wire[Source][eSeq[Source] + 1] = FinalFrame(EncKey(Source), eHeader[Source], eSeq[Source])

\* What the migrator was given fits what it was called with.
MigMatching ==
  /\ eHeader[Source] # None
  /\ mHandles = eBundle[Source] /\ MeetsMinimum(eHeader[Source], mMin)

\* The migrated stream likewise, as far as the migrator has come; it refuses the
\* source only for a reason that lasts.
TargetInv ==
  /\ mPc # "header" => eHeader[Source] # None \/ ePc[Source] = "refused"
  /\ mOldKey # None => /\ eHeader[Source] # None /\ mOldHeader = eHeader[Source]
                       /\ mOldKey = RecoveredKey(mHandles, mOldHeader)
  /\ Len(mOut) = mSeq + (IF mPc = "ok" THEN 1 ELSE 0)
  /\ \A i \in 1..mSeq : mOut[i] = DataFrame(NewKey, mNewHeader, i - 1, plain[Source][i])
  /\ mPc = "ok" => mOut[mSeq + 1] = FinalFrame(NewKey, mNewHeader, mSeq)
  /\ mPc \in {"error", "downgrade"} => ~MigMatching \/ ePc[Source] = "failed"

\* The decryptor reads that stream, and refuses it only for a reason that lasts.
ReaderInv ==
  /\ dPc # "header" => mNewHeader # None \/ mPc \in {"error", "downgrade"}
  /\ dKey # None => /\ mNewHeader # None /\ dHeader = mNewHeader
                    /\ dKey = RecoveredKey(dHandles, dHeader)
  /\ dPc \in {"error", "downgrade"} => ~Matching \/ ePc[Source] = "failed"

DeliveryInv ==
  SourceInv /\ TargetInv /\ ReaderInv /\ Ordered /\ \E f \in Counts : Totals(f)

-----------------------------------------------------------------------------
\* What the three functions hold, in the types that the arithmetic needs.
LEMMA SourceIs ==
  ASSUME MigrationInv
  PROVE  /\ Source \in Stream /\ Target \in Stream /\ Source # Target
         /\ OutputOf(Source) = wire[Source] /\ HeaderOf(Source) = eHeader[Source]
         /\ PcOf(Source) = ePc[Source] /\ OutputOf(Target) = mOut
         /\ HeaderOf(Target) = mNewHeader /\ PcOf(Target) = mPc
         /\ CallInv(Source)
         /\ ePc[Source] \in {"idle", "body", "done", "failed", "refused"}
         /\ eSeq[Source] \in Nat /\ eSeq[Source] <= MaxFrames
         /\ eTotal[Source] \in Nat /\ eTotal[Source] <= MaxPlain
         /\ eChunkSize[Source] \in Nat /\ eChunkSize[Source] <= MaxChunk
         /\ plain[Source] \in Seq(Chunk) /\ wire[Source] \in Seq(Frame)
         /\ mSeq \in Nat /\ dSeq \in Nat /\ mTotal \in Nat /\ dTotal \in Nat
         /\ mOut \in Seq(Frame)
         /\ None \notin Header /\ None \notin Bundle
<1>1. Source \in Stream /\ Target \in Stream /\ Source # Target
  BY TargetIs
<1>2. /\ OutputOf(Source) = wire[Source] /\ HeaderOf(Source) = eHeader[Source]
      /\ PcOf(Source) = ePc[Source] /\ OutputOf(Target) = mOut
      /\ HeaderOf(Target) = mNewHeader /\ PcOf(Target) = mPc
  BY <1>1 DEF OutputOf, HeaderOf, PcOf
<1>3. EncTypeOK /\ CallInv(Source)
  BY <1>1 DEF MigrationInv, EncInv
<1>4. /\ eSeq[Source] \in 0..MaxFrames /\ eTotal[Source] \in 0..MaxPlain
      /\ eChunkSize[Source] \in 0..MaxChunk
      /\ ePc[Source] \in {"idle", "body", "done", "failed", "refused"}
      /\ plain[Source] \in Seq(Chunk) /\ wire[Source] \in Seq(Frame)
  BY <1>1, <1>3 DEF EncTypeOK
<1>5. mSeq \in 0..MaxFrames /\ mTotal \in 0..MaxPlain /\ mOut \in Seq(Frame)
  BY DEF MigrationInv, MigInv, MigTypeOK
<1>6. dSeq \in 0..MaxFrames /\ dTotal \in 0..MaxPlain
  BY DEF MigrationInv, DecTypeOK
<1> QED
  BY <1>1, <1>2, <1>3, <1>4, <1>5, <1>6, LimitAssumption, AbsentAssumption

\* The medium offers the next frame of the output as it is.
LEMMA Offered ==
  ASSUME ~Faulty, NEW s \in Stream, OutputOf(s) \in Seq(Frame), NEW n \in Nat,
         NEW f \in FramesOffered(s, n)
  PROVE  n + 1 <= Len(OutputOf(s)) /\ f = OutputOf(s)[n + 1]
<1>1. PICK i \in {n + 1} \cap 1..Len(OutputOf(s)) : f = OutputOf(s)[i]
  BY DEF FramesOffered
<1>2. i = n + 1 /\ i \in 1..Len(OutputOf(s))
  BY <1>1
<1>3. Len(OutputOf(s)) \in Nat
  OBVIOUS
<1> QED
  BY <1>1, <1>2, <1>3

\* As long as the migrator has not read a header, nobody behind it has begun.
LEMMA AtHeader ==
  ASSUME MigrationInv, ReaderInv, mPc = "header"
  PROVE  /\ mOldKey = None /\ mOldHeader = None /\ mNewHeader = None
         /\ mOut = <<>> /\ mSeq = 0 /\ mNewSeq = 0
         /\ dPc = "header" /\ dKey = None
<1>1. /\ mOldKey = None /\ mOldHeader = None /\ mNewHeader = None
      /\ mOut = <<>> /\ mSeq = 0 /\ mNewSeq = 0
  BY DEF MigrationInv, MigInv, KeysInv
<1>2. dPc = "header"
  BY <1>1 DEF ReaderInv
<1> QED
  BY <1>1, <1>2 DEF MigrationInv, ReadInv

-----------------------------------------------------------------------------
\* A step of an encryptor leaves migrator and decryptor in the right.
LEMMA EncryptReaders ==
  ASSUME MigrationInv, MigrationInv', SourceInv, Ordered, TargetInv, ReaderInv,
         UNCHANGED mVars, UNCHANGED dVars, Grows(Source),
         ePc[Source] \in {"failed", "refused"} => ePc'[Source] = ePc[Source]
  PROVE  TargetInv' /\ ReaderInv'
<1>0. /\ mPc' = mPc /\ mOldKey' = mOldKey /\ mOldHeader' = mOldHeader
      /\ mHandles' = mHandles /\ mMin' = mMin /\ mOut' = mOut /\ mSeq' = mSeq
      /\ mNewHeader' = mNewHeader /\ mNewBundle' = mNewBundle
      /\ dPc' = dPc /\ dKey' = dKey /\ dHeader' = dHeader
      /\ dHandles' = dHandles /\ dMin' = dMin
      /\ NewKey' = NewKey
  BY DEF mVars, dVars, NewKey
<1>1. CASE mPc = "header"
  <2>1. /\ mOldKey = None /\ mOut = <<>> /\ mSeq = 0 /\ dPc = "header" /\ dKey = None
    BY <1>1, AtHeader
  <2>2. TargetInv'
    BY <1>0, <1>1, <2>1 DEF TargetInv
  <2>3. ReaderInv'
    BY <1>0, <1>1, <2>1 DEF ReaderInv
  <2> QED
    BY <2>2, <2>3
<1>2. CASE mPc # "header" /\ eHeader[Source] # None
  <2>1. eBundle[Source] # None
    BY <1>2, SourceIs DEF CallInv
  <2>2. eHeader'[Source] = eHeader[Source] /\ eBundle'[Source] = eBundle[Source]
    BY <2>1 DEF Grows
  <2>3. MigMatching' <=> MigMatching
    BY <1>0, <2>2 DEF MigMatching, MeetsMinimum
  <2>4. Matching' <=> Matching
    BY <1>0, <2>2 DEF Matching, MeetsMinimum
  <2>5. \A i \in 1..mSeq : plain'[Source][i] = plain[Source][i]
    <3>1. mSeq \in Nat /\ mSeq <= Len(plain[Source]) /\ Len(plain[Source]) \in Nat
      BY SourceIs DEF Ordered, SourceInv
    <3> QED
      BY <3>1 DEF Grows
  <2>6. TargetInv'
    BY <1>0, <1>2, <2>2, <2>3, <2>5 DEF TargetInv
  <2>7. ReaderInv'
    BY <1>0, <2>4 DEF ReaderInv
  <2> QED
    BY <2>6, <2>7
<1>3. CASE mPc # "header" /\ eHeader[Source] = None
  <2>1. ePc[Source] = "refused" /\ ePc'[Source] = "refused"
    BY <1>3 DEF TargetInv
  <2>2. mOldKey = None
    BY <1>3 DEF TargetInv
  <2>3. mSeq = 0 /\ mOut = <<>> /\ mNewHeader = None /\ mPc \in {"error", "downgrade"}
    BY <1>3, <2>2 DEF MigrationInv, MigInv, KeysInv
  <2>4. eHeader'[Source] = None
    BY <2>1, TargetIs DEF MigrationInv, EncInv, CallInv
  <2>5. ~MigMatching' /\ ~Matching'
    BY <2>4 DEF MigMatching, Matching
  <2>6. TargetInv'
    BY <1>0, <2>1, <2>2, <2>3, <2>5 DEF TargetInv
  <2>7. dKey = None
    BY <2>3 DEF ReaderInv
  <2>8. ReaderInv'
    BY <1>0, <2>3, <2>5, <2>7 DEF ReaderInv
  <2> QED
    BY <2>6, <2>8
<1> QED
  BY <1>1, <1>2, <1>3

-----------------------------------------------------------------------------
\* An encryptor that is not the source changes nothing of it.
LEMMA OtherEncryptor ==
  ASSUME MigrationInv, ~Faulty, NEW s \in Stream, s # Source, EncNext(s)
  PROVE  /\ ePc'[Source] = ePc[Source] /\ eBundle'[Source] = eBundle[Source]
         /\ eHeader'[Source] = eHeader[Source] /\ eSeq'[Source] = eSeq[Source]
         /\ eTotal'[Source] = eTotal[Source] /\ plain'[Source] = plain[Source]
         /\ wire'[Source] = wire[Source]
<1>1. EncTypeOK /\ Source \in Stream
  BY TargetIs DEF MigrationInv, EncInv
<1>2. ~EncIoError(s)
  BY DEF EncIoError
<1>3. CASE EncStart(s)
  BY <1>1, <1>3 DEF EncStart, EncTypeOK
<1>4. CASE EncRefuse(s)
  BY <1>1, <1>4 DEF EncRefuse, EncTypeOK
<1>5. CASE EncChunk(s)
  BY <1>1, <1>5 DEF EncChunk, EncTypeOK
<1>6. CASE EncLimit(s)
  BY <1>1, <1>6 DEF EncLimit, EncReturn, EncTypeOK
<1>7. CASE EncFinal(s)
  BY <1>1, <1>7 DEF EncFinal, EncReturn, EncTypeOK
<1> QED
  BY <1>2, <1>3, <1>4, <1>5, <1>6, <1>7 DEF EncNext

\* The totals are right as long as nobody counts on.
LEMMA TotalsStay ==
  ASSUME NEW f, Totals(f),
         eSeq'[Source] = eSeq[Source], eTotal'[Source] = eTotal[Source],
         \A i \in 1..eSeq[Source] : plain'[Source][i] = plain[Source][i],
         mTotal' = mTotal, mSeq' = mSeq, dTotal' = dTotal, dSeq' = dSeq
  PROVE  Totals(f)'
BY DEF Totals

\* The source, when its call begins or is refused.
LEMMA SourceBegins ==
  ASSUME MigrationInv, SourceInv, EncStart(Source) \/ EncRefuse(Source)
  PROVE  /\ SourceInv'
         /\ ePc[Source] = "idle" /\ eSeq'[Source] = eSeq[Source]
         /\ eTotal'[Source] = eTotal[Source] /\ plain'[Source] = plain[Source]
<1>1. EncTypeOK /\ Source \in Stream /\ CallInv(Source)
  BY SourceIs DEF MigrationInv, EncInv
<1>2. ePc[Source] = "idle"
  BY DEF EncStart, EncRefuse
<1>3. /\ eHeader[Source] = None /\ plain[Source] = <<>> /\ wire[Source] = <<>>
      /\ eSeq[Source] = 0
  BY <1>1, <1>2 DEF CallInv
<1>4. /\ eSeq' = eSeq /\ eTotal' = eTotal /\ plain' = plain /\ wire' = wire
  BY DEF EncStart, EncRefuse
<1>5. ePc'[Source] \in {"body", "refused"}
  BY <1>1 DEF EncStart, EncRefuse, EncTypeOK
<1>6. \/ eHeader'[Source] = None
      \/ \E n \in BaseNonce : eHeader'[Source] = HeaderFor(eBundle'[Source], Source, n)
  <2>1. CASE EncStart(Source)
    BY <1>1, <2>1 DEF EncStart, EncTypeOK
  <2>2. CASE EncRefuse(Source)
    BY <1>3, <2>2 DEF EncRefuse
  <2> QED
    BY <2>1, <2>2
<1>7. SourceInv'
  BY <1>3, <1>4, <1>5, <1>6 DEF SourceInv
<1> QED
  BY <1>2, <1>4, <1>7

\* A sequence with one element more.
LEMMA Appended ==
  ASSUME NEW S, NEW p \in Seq(S), NEW c \in S
  PROVE  /\ Len(Append(p, c)) = Len(p) + 1 /\ Append(p, c)[Len(p) + 1] = c
         /\ \A i \in 1..Len(p) : Append(p, c)[i] = p[i]
OBVIOUS

\* A function of the numbers, with one value more.
LEMMA NextValue ==
  ASSUME NEW n \in Nat, NEW f \in Counts, NEW k \in Nat
  PROVE  \E g \in Counts : g[n + 1] = k /\ \A i \in 0..n : g[i] = f[i]
<1> DEFINE g == [f EXCEPT ![n + 1] = k]
<1>1. g \in Counts /\ g[n + 1] = k /\ \A i \in 0..n : g[i] = f[i]
  BY DEF Counts
<1> HIDE DEF g
<1> QED
  BY <1>1

\* The source, with a chunk more.
LEMMA SourceReads ==
  ASSUME MigrationInv, EncChunk(Source)
  PROVE  /\ ePc[Source] = "body" /\ ePc'[Source] = "body"
         /\ eHeader' = eHeader /\ eBundle' = eBundle
         /\ EncKey(Source)' = EncKey(Source)
         /\ eSeq[Source] \in Nat /\ eSeq'[Source] = eSeq[Source] + 1
         /\ eTotal[Source] \in Nat
         /\ Len(plain'[Source]) = eSeq[Source] + 1 /\ Len(wire'[Source]) = eSeq[Source] + 1
         /\ \A i \in 1..eSeq[Source] : /\ plain'[Source][i] = plain[Source][i]
                                       /\ wire'[Source][i] = wire[Source][i]
         /\ \E c \in Chunk :
               /\ plain'[Source][eSeq[Source] + 1] = c
               /\ wire'[Source][eSeq[Source] + 1] =
                     DataFrame(EncKey(Source), eHeader[Source], eSeq[Source], c)
               /\ Size[c] \in Nat /\ Size[c] <= MaxChunk
               /\ eTotal'[Source] = eTotal[Source] + Size[c]
<1>1. EncTypeOK /\ Source \in Stream /\ ePc[Source] = "body"
  BY SourceIs DEF MigrationInv, EncInv, EncChunk
<1>2. /\ eSeq[Source] \in Nat /\ eSeq[Source] = Len(plain[Source])
      /\ eSeq[Source] = Len(wire[Source])
      /\ plain[Source] \in Seq(Chunk) /\ wire[Source] \in Seq(Frame)
      /\ EncKey(Source) \in RootKey
      /\ eHeader[Source] \in Header /\ eHeader[Source].nonce \in BaseNonce
  BY <1>1, InLoop DEF MigrationInv
<1>3. /\ eTotal[Source] \in Nat /\ eChunkSize[Source] \in Nat /\ eChunkSize[Source] <= MaxChunk
  BY SourceIs
<1>4. PICK c \in Chunk :
        /\ Size[c] <= eChunkSize[Source]
        /\ plain' = [plain EXCEPT ![Source] = Append(@, c)]
        /\ wire' = [wire EXCEPT ![Source] =
                       Append(@, DataFrame(EncKey(Source), eHeader[Source], eSeq[Source], c))]
        /\ eTotal' = [eTotal EXCEPT ![Source] = @ + Size[c]]
  BY DEF EncChunk
<1>5. PICK d : d = DataFrame(EncKey(Source), eHeader[Source], eSeq[Source], c)
  OBVIOUS
<1>6. d \in Frame
  BY <1>2, <1>5, DataType
<1>7. /\ plain'[Source] = Append(plain[Source], c) /\ wire'[Source] = Append(wire[Source], d)
      /\ eTotal'[Source] = eTotal[Source] + Size[c]
  BY <1>1, <1>4, <1>5 DEF EncTypeOK
<1>8. /\ eSeq'[Source] = eSeq[Source] + 1 /\ ePc'[Source] = "body"
      /\ eHeader' = eHeader /\ eBundle' = eBundle /\ EncKey(Source)' = EncKey(Source)
  BY <1>1 DEF EncChunk, EncTypeOK, EncKey
<1>9. /\ Len(plain'[Source]) = eSeq[Source] + 1 /\ plain'[Source][eSeq[Source] + 1] = c
      /\ \A i \in 1..eSeq[Source] : plain'[Source][i] = plain[Source][i]
  <2>1. PICK p \in Seq(Chunk) : p = plain[Source]
    BY <1>2
  <2>2. /\ Len(Append(p, c)) = Len(p) + 1 /\ Append(p, c)[Len(p) + 1] = c
        /\ \A i \in 1..Len(p) : Append(p, c)[i] = p[i]
    BY Appended
  <2> QED
    BY <1>2, <1>7, <2>1, <2>2
<1>10. /\ Len(wire'[Source]) = eSeq[Source] + 1 /\ wire'[Source][eSeq[Source] + 1] = d
       /\ \A i \in 1..eSeq[Source] : wire'[Source][i] = wire[Source][i]
  BY <1>2, <1>6, <1>7, Appended
<1>11. Size[c] \in Nat /\ Size[c] <= MaxChunk
  <2>1. Size[c] \in Nat /\ Size[c] <= eChunkSize[Source] /\ MaxChunk \in Nat
    BY <1>4, SizeAssumption, LimitAssumption
  <2> QED
    BY <1>3, <2>1
<1> QED
  BY <1>1, <1>2, <1>3, <1>5, <1>7, <1>8, <1>9, <1>10, <1>11

\* Its frame is the next one.
LEMMA SourceWrites ==
  ASSUME MigrationInv, SourceInv, EncChunk(Source)
  PROVE  SourceInv'
<1>1. PICK n \in Nat : n = eSeq[Source]
  BY SourceReads
<1>2. PICK c \in Chunk :
        /\ plain'[Source][n + 1] = c
        /\ wire'[Source][n + 1] = DataFrame(EncKey(Source), eHeader[Source], n, c)
        /\ Size[c] <= MaxChunk
  BY <1>1, SourceReads
<1>3. /\ eSeq'[Source] = n + 1 /\ ePc'[Source] = "body"
      /\ eHeader' = eHeader /\ eBundle' = eBundle /\ EncKey(Source)' = EncKey(Source)
      /\ Len(plain'[Source]) = n + 1 /\ Len(wire'[Source]) = n + 1
      /\ \A i \in 1..n : plain'[Source][i] = plain[Source][i] /\ wire'[Source][i] = wire[Source][i]
  BY <1>1, SourceReads
<1>4. ASSUME NEW i \in 1..(n + 1)
      PROVE  /\ wire'[Source][i] = DataFrame(EncKey(Source)', eHeader'[Source], i - 1, plain'[Source][i])
             /\ Size[plain'[Source][i]] <= MaxChunk
  <2>1. CASE i = n + 1
    <3>1. i - 1 = n
      BY <2>1
    <3> QED
      BY <1>2, <1>3, <2>1, <3>1
  <2>2. CASE i # n + 1
    <3>1. i \in 1..n
      BY <2>2
    <3> QED
      BY <1>1, <1>3, <3>1 DEF SourceInv
  <2> QED
    BY <2>1, <2>2
<1>5. eHeader'[Source] # None =>
        \E m \in BaseNonce : eHeader'[Source] = HeaderFor(eBundle'[Source], Source, m)
  BY <1>3 DEF SourceInv
<1>6. /\ Len(wire'[Source]) = eSeq'[Source] + (IF ePc'[Source] = "done" THEN 1 ELSE 0)
      /\ eSeq'[Source] <= Len(plain'[Source])
  BY <1>3
<1> QED
  BY <1>3, <1>4, <1>5, <1>6 DEF SourceInv

\* And the totals go on.
LEMMA SourceCounts ==
  ASSUME MigrationInv, Ordered, NEW f \in Counts, Totals(f),
         EncChunk(Source), UNCHANGED mVars, UNCHANGED dVars
  PROVE  Ordered' /\ \E g \in Counts : Totals(g)'
<1>1. PICK n \in Nat : n = eSeq[Source]
  BY SourceReads
<1>2. PICK t \in Nat : t = eTotal[Source]
  BY SourceReads
<1>3. PICK k \in Nat : /\ eTotal'[Source] = t + k /\ Size[plain'[Source][n + 1]] = k
  BY <1>1, <1>2, SourceReads
<1>4. /\ eSeq'[Source] = n + 1
      /\ \A i \in 1..n : plain'[Source][i] = plain[Source][i]
  BY <1>1, SourceReads
<1>5. /\ mSeq' = mSeq /\ dSeq' = dSeq /\ mTotal' = mTotal /\ dTotal' = dTotal
      /\ mSeq \in 0..n /\ dSeq \in 0..n /\ dSeq <= mSeq
  <2>1. mSeq \in Nat /\ dSeq \in Nat
    BY SourceIs
  <2>2. dSeq <= mSeq /\ mSeq <= n
    BY <1>1 DEF Ordered
  <2>3. mSeq \in 0..n /\ dSeq \in 0..n
    BY <2>1, <2>2
  <2> QED
    BY <2>2, <2>3 DEF mVars, dVars
<1>6. /\ f[0] = 0 /\ f[n] = t /\ mTotal = f[mSeq] /\ dTotal = f[dSeq]
      /\ \A i \in 1..n : f[i] = f[i - 1] + Size[plain[Source][i]]
      /\ \A i \in 0..n : f[i] <= t
  BY <1>1, <1>2 DEF Totals
<1>7. t + k \in Nat
  OBVIOUS
<1>8. PICK g \in Counts : g[n + 1] = t + k /\ \A i \in 0..n : g[i] = f[i]
  <2>1. PICK u \in Nat : u = t + k
    BY <1>7
  <2>2. \E g \in Counts : g[n + 1] = u /\ \A i \in 0..n : g[i] = f[i]
    BY NextValue
  <2> QED
    BY <2>1, <2>2
<1>9. ASSUME NEW i \in 1..(n + 1)
      PROVE  g[i] = g[i - 1] + Size[plain'[Source][i]]
  <2>1. CASE i = n + 1
    <3>1. i - 1 = n /\ n \in 0..n
      BY <2>1
    <3>2. g[i - 1] = t
      BY <1>6, <1>8, <3>1
    <3> QED
      BY <1>3, <1>8, <2>1, <3>2
  <2>2. CASE i # n + 1
    <3>1. i \in 1..n /\ i \in 0..n /\ i - 1 \in 0..n
      BY <2>2
    <3> QED
      BY <1>4, <1>6, <1>8, <3>1
  <2> QED
    BY <2>1, <2>2
<1>10. ASSUME NEW i \in 0..(n + 1)
       PROVE  g[i] <= t + k
  <2>1. CASE i = n + 1
    BY <1>7, <1>8, <2>1
  <2>2. CASE i # n + 1
    <3>1. i \in 0..n /\ i \in Nat
      BY <2>2
    <3>2. g[i] <= t /\ g[i] \in Nat
      BY <1>6, <1>8, <3>1 DEF Counts
    <3> QED
      BY <3>2
  <2> QED
    BY <2>1, <2>2
<1>11. g[0] = 0 /\ mTotal' = g[mSeq'] /\ dTotal' = g[dSeq']
  <2>1. 0 \in 0..n
    OBVIOUS
  <2> QED
    BY <1>5, <1>6, <1>8, <2>1
<1>12. Totals(g)'
  BY <1>3, <1>4, <1>8, <1>9, <1>10, <1>11 DEF Totals
<1>13. Ordered'
  <2>1. mSeq <= n + 1
    BY <1>5
  <2> QED
    BY <1>4, <1>5, <2>1 DEF Ordered
<1> QED
  BY <1>12, <1>13

\* The last of the source's steps: a chunk that is over a limit, or the end.
LEMMA SourceEnds ==
  ASSUME MigrationInv, SourceInv, EncLimit(Source) \/ EncFinal(Source)
  PROVE  /\ SourceInv'
         /\ ePc[Source] = "body" /\ eSeq'[Source] = eSeq[Source]
         /\ eTotal'[Source] = eTotal[Source]
         /\ \A i \in 1..eSeq[Source] : plain'[Source][i] = plain[Source][i]
<1>1. EncTypeOK /\ Source \in Stream /\ ePc[Source] = "body"
  BY SourceIs DEF MigrationInv, EncInv, EncLimit, EncFinal
<1> DEFINE n == eSeq[Source]
<1>2. /\ n \in Nat /\ n = Len(plain[Source]) /\ n = Len(wire[Source])
      /\ plain[Source] \in Seq(Chunk) /\ wire[Source] \in Seq(Frame)
  BY <1>1, InLoop DEF MigrationInv
<1>3. /\ eSeq' = eSeq /\ eTotal' = eTotal /\ eHeader' = eHeader /\ eBundle' = eBundle
      /\ EncKey(Source)' = EncKey(Source)
  BY DEF EncLimit, EncFinal, EncKey
<1>4. CASE EncLimit(Source)
  <2>1. PICK c \in Chunk : plain' = [plain EXCEPT ![Source] = Append(@, c)]
    BY <1>4 DEF EncLimit
  <2>2. /\ plain'[Source] = Append(plain[Source], c) /\ wire' = wire
        /\ ePc'[Source] = "failed"
    BY <1>1, <1>4, <2>1 DEF EncLimit, EncReturn, EncTypeOK
  <2>3. /\ Len(plain'[Source]) = n + 1
        /\ \A i \in 1..n : plain'[Source][i] = plain[Source][i]
    <3>1. PICK p \in Seq(Chunk) : p = plain[Source]
      BY <1>2
    <3>2. /\ Len(Append(p, c)) = Len(p) + 1
          /\ \A i \in 1..Len(p) : Append(p, c)[i] = p[i]
      BY Appended
    <3> QED
      BY <1>2, <2>2, <3>1, <3>2
  <2>4. SourceInv'
    <3>1. n <= Len(plain'[Source])
      BY <1>2, <2>3
    <3>2. Len(wire'[Source]) = n + 0
      BY <1>2, <2>2
    <3> QED
      BY <1>3, <2>2, <2>3, <3>1, <3>2 DEF SourceInv, n
  <2> QED
    BY <1>1, <1>3, <2>3, <2>4
<1>5. CASE EncFinal(Source)
  <2> DEFINE d == FinalFrame(EncKey(Source), eHeader[Source], n)
  <2>1. /\ wire'[Source] = Append(wire[Source], d) /\ plain' = plain
        /\ ePc'[Source] = "done"
    BY <1>1, <1>5 DEF EncFinal, EncReturn, EncTypeOK
  <2>2. /\ Len(wire'[Source]) = n + 1 /\ wire'[Source][n + 1] = d
        /\ \A i \in 1..n : wire'[Source][i] = wire[Source][i]
    BY <1>2, <2>1
  <2>3. SourceInv'
    BY <1>2, <1>3, <2>1, <2>2 DEF SourceInv
  <2> QED
    BY <1>1, <1>3, <2>1, <2>3
<1> QED
  BY <1>4, <1>5

\* A step of any encryptor.
LEMMA EncryptDelivers ==
  ASSUME MigrationInv, MigrationInv', DeliveryInv, ~Faulty,
         NEW s \in Stream \ {Target}, Encrypt(s)
  PROVE  DeliveryInv'
<1>1. EncNext(s) /\ UNCHANGED mVars /\ UNCHANGED dVars
  BY DEF Encrypt
<1>2. SourceInv /\ TargetInv /\ ReaderInv /\ Ordered
  BY DEF DeliveryInv
<1>3. PICK f \in Counts : Totals(f)
  BY DEF DeliveryInv
<1>4. Grows(Source)
  BY <1>1, EncryptGrows, TargetIs DEF MigrationInv
<1>5. mSeq' = mSeq /\ dSeq' = dSeq /\ mTotal' = mTotal /\ dTotal' = dTotal
  BY <1>1 DEF mVars, dVars
<1>6. ASSUME SourceInv', eSeq'[Source] = eSeq[Source], eTotal'[Source] = eTotal[Source],
             \A i \in 1..eSeq[Source] : plain'[Source][i] = plain[Source][i],
             ePc[Source] \in {"failed", "refused"} => ePc'[Source] = ePc[Source]
      PROVE  DeliveryInv'
  <2>1. Totals(f)'
    BY <1>3, <1>5, <1>6, TotalsStay
  <2>2. TargetInv' /\ ReaderInv'
    BY <1>1, <1>2, <1>4, <1>6, EncryptReaders
  <2>3. Ordered'
    BY <1>2, <1>5, <1>6 DEF Ordered
  <2> QED
    BY <1>6, <2>1, <2>2, <2>3 DEF DeliveryInv
<1>7. CASE s # Source
  <2>1. /\ ePc'[Source] = ePc[Source] /\ eBundle'[Source] = eBundle[Source]
        /\ eHeader'[Source] = eHeader[Source] /\ eSeq'[Source] = eSeq[Source]
        /\ eTotal'[Source] = eTotal[Source] /\ plain'[Source] = plain[Source]
        /\ wire'[Source] = wire[Source]
    BY <1>1, <1>7, OtherEncryptor
  <2>2. EncKey(Source)' = EncKey(Source)
    BY <2>1 DEF EncKey
  <2>3. SourceInv'
    BY <1>2, <2>1, <2>2 DEF SourceInv
  <2> QED
    BY <1>6, <2>1, <2>3
<1>8. CASE s = Source /\ (EncStart(s) \/ EncRefuse(s))
  BY <1>2, <1>6, <1>8, SourceBegins
<1>9. CASE s = Source /\ EncChunk(s)
  <2>1. SourceInv' /\ Ordered' /\ \E g \in Counts : Totals(g)'
    BY <1>1, <1>2, <1>3, <1>9, SourceWrites, SourceCounts
  <2>2. ePc[Source] = "body"
    BY <1>9 DEF EncChunk
  <2>3. TargetInv' /\ ReaderInv'
    BY <1>1, <1>2, <1>4, <2>2, EncryptReaders
  <2> QED
    BY <2>1, <2>3 DEF DeliveryInv
<1>10. CASE s = Source /\ (EncLimit(s) \/ EncFinal(s))
  BY <1>2, <1>6, <1>10, SourceEnds
<1> QED
  BY <1>1, <1>7, <1>8, <1>9, <1>10 DEF EncNext, EncIoError

-----------------------------------------------------------------------------
\* What a reader with the right key and counters accepts.
LEMMA GoodData ==
  ASSUME NEW k, NEW h, NEW seq \in Nat, NEW total \in Nat, NEW p \in Chunk,
         seq < MaxFrames, Size[p] <= MaxChunk, total + Size[p] <= MaxPlain
  PROVE  AcceptsData(DataFrame(k, h, seq, p), k, h, seq, total, p)
<1>1. PICK f : f = DataFrame(k, h, seq, p)
  OBVIOUS
<1>2. /\ f.type = "DATA" /\ f.whole /\ f.len = Size[p] + TagLen
      /\ f.ct = SealedData(k, h, seq, p)
  BY <1>1 DEF DataFrame
<1>3. PICK z \in Nat \ {0} : z = Size[p]
  BY SizeAssumption
<1>4. /\ f.len > TagLen /\ f.len <= MaxChunk + TagLen
      /\ total + (f.len - TagLen) <= MaxPlain
  BY <1>2, <1>3, LimitAssumption
<1> QED
  BY <1>1, <1>2, <1>4 DEF AcceptsData

LEMMA GoodFinal ==
  ASSUME NEW k, NEW h, NEW seq \in Nat, seq <= MaxFrames
  PROVE  AcceptsFinal(FinalFrame(k, h, seq), k, h, seq)
BY LimitAssumption DEF AcceptsFinal, FinalFrame

\* A frame of one type is not accepted as one of the other.
LEMMA OtherType ==
  ASSUME NEW k, NEW h, NEW seq, NEW p, NEW k2, NEW h2, NEW seq2, NEW q, NEW total
  PROVE  /\ ~AcceptsFinal(DataFrame(k, h, seq, p), k2, h2, seq2)
         /\ ~AcceptsData(FinalFrame(k, h, seq), k2, h2, seq2, total, q)
         /\ AcceptsData(DataFrame(k, h, seq, p), k2, h2, seq2, total, q) =>
               q = p /\ seq2 = seq /\ DataFrame(k, h, seq, p).len = Size[p] + TagLen
BY DEF AcceptsFinal, AcceptsData, DataFrame, FinalFrame, SealedData, Seal, ChunkAad

\* The migrator in its loop.
LEMMA MigratorIs ==
  ASSUME MigrationInv, DeliveryInv, mPc = "body"
  PROVE  /\ mOldKey # None /\ mSeq = mNewSeq /\ mSeq = Len(mOut) /\ mNewHeader # None
         /\ eHeader[Source] # None /\ mOldHeader = eHeader[Source]
         /\ mOldKey = RecoveredKey(mHandles, mOldHeader)
         /\ ePc[Source] \notin {"idle", "refused"}
         /\ MigMatching => mOldKey = EncKey(Source)
         /\ \A i \in 1..mSeq :
               mOut[i] = DataFrame(NewKey, mNewHeader, i - 1, plain[Source][i])
<1>1. mOldKey # None /\ \E n \in BaseNonce : mNewHeader = HeaderFor(mNewBundle, Target, n)
  BY DEF MigrationInv, MigInv, KeysInv
<1>2. mNewHeader # None
  <2>1. mNewBundle \in Bundle
    BY <1>1 DEF MigrationInv, MigInv, KeysInv
  <2> QED
    BY <1>1, <2>1, HeaderType, TargetIs, AbsentAssumption
<1>3. mSeq = mNewSeq /\ mSeq = Len(mOut)
  BY DEF MigrationInv, MigInv, LoopInv
<1>4. /\ eHeader[Source] # None /\ mOldHeader = eHeader[Source]
      /\ mOldKey = RecoveredKey(mHandles, mOldHeader)
      /\ \A i \in 1..mSeq : mOut[i] = DataFrame(NewKey, mNewHeader, i - 1, plain[Source][i])
  BY <1>1 DEF DeliveryInv, TargetInv
<1>5. ePc[Source] \notin {"idle", "refused"}
  BY <1>4, SourceIs DEF CallInv
<1>6. MigMatching => mOldKey = EncKey(Source)
  <2>1. PICK n \in BaseNonce : eHeader[Source] = HeaderFor(eBundle[Source], Source, n)
    BY <1>4 DEF DeliveryInv, SourceInv
  <2>2. RecoveredKey(eBundle[Source], HeaderFor(eBundle[Source], Source, n)) = EncKey(Source)
    BY DEF RecoveredKey, HeaderFor, EncKey, KeyFor
  <2> QED
    BY <1>4, <2>1, <2>2 DEF MigMatching
<1> QED
  BY <1>1, <1>2, <1>3, <1>4, <1>5, <1>6

\* What the migrator is offered next.
LEMMA NextOfSource ==
  ASSUME MigrationInv, DeliveryInv, ~Faulty, mPc = "body", NEW f \in FramesOffered(Source, mSeq)
  PROVE  \/ /\ mSeq + 1 <= eSeq[Source]
            /\ plain[Source][mSeq + 1] \in Chunk
            /\ f = DataFrame(EncKey(Source), eHeader[Source], mSeq, plain[Source][mSeq + 1])
            /\ Size[plain[Source][mSeq + 1]] <= MaxChunk
            /\ mTotal + Size[plain[Source][mSeq + 1]] <= MaxPlain
         \/ /\ mSeq = eSeq[Source] /\ ePc[Source] = "done" /\ Len(wire[Source]) = mSeq + 1
            /\ f = FinalFrame(EncKey(Source), eHeader[Source], mSeq)
<1>1. PICK n \in Nat : n = eSeq[Source]
  BY SourceIs
<1>2. PICK m \in Nat : m = mSeq
  BY SourceIs
<1>3. m <= n
  BY <1>1, <1>2 DEF DeliveryInv, Ordered
<1>4. m + 1 <= Len(wire[Source]) /\ f = wire[Source][m + 1]
  BY <1>2, SourceIs, Offered
<1>5. Len(wire[Source]) = n + (IF ePc[Source] = "done" THEN 1 ELSE 0)
  BY <1>1 DEF DeliveryInv, SourceInv
<1>6. CASE m + 1 <= n
  <2>1. m + 1 \in 1..n /\ (m + 1) - 1 = m
    BY <1>6
  <2>2. /\ wire[Source][m + 1] = DataFrame(EncKey(Source), eHeader[Source], m, plain[Source][m + 1])
        /\ Size[plain[Source][m + 1]] <= MaxChunk
    BY <1>1, <2>1 DEF DeliveryInv, SourceInv
  <2>3. plain[Source][m + 1] \in Chunk
    <3>1. n <= Len(plain[Source])
      BY <1>1 DEF DeliveryInv, SourceInv
    <3>2. PICK p \in Seq(Chunk) : p = plain[Source]
      BY SourceIs
    <3>3. m + 1 \in 1..Len(p)
      BY <2>1, <3>1, <3>2
    <3> QED
      BY <3>2, <3>3
  <2>4. mTotal + Size[plain[Source][m + 1]] <= MaxPlain
    <3>1. PICK g \in Counts : Totals(g)
      BY DEF DeliveryInv
    <3>2. mTotal = g[m] /\ g[m + 1] = g[m] + Size[plain[Source][m + 1]]
      BY <1>1, <1>2, <2>1, <3>1 DEF Totals
    <3>3. g[m + 1] <= eTotal[Source]
      <4>1. m + 1 \in 0..n
        BY <2>1
      <4> QED
        BY <1>1, <3>1, <4>1 DEF Totals
    <3>4. PICK t \in Nat : t = eTotal[Source] /\ t <= MaxPlain
      BY SourceIs
    <3>5. g[m + 1] \in Nat
      BY DEF Counts
    <3>6. g[m + 1] <= MaxPlain
      BY <3>3, <3>4, <3>5, LimitAssumption
    <3> QED
      BY <3>2, <3>6
  <2> QED
    BY <1>1, <1>2, <1>4, <1>6, <2>2, <2>3, <2>4
<1>7. CASE ~(m + 1 <= n)
  <2>1. ePc[Source] = "done" /\ m = n /\ Len(wire[Source]) = m + 1
    BY <1>3, <1>4, <1>5, <1>7
  <2>2. wire[Source][n + 1] = FinalFrame(EncKey(Source), eHeader[Source], n)
    BY <1>1, <2>1 DEF DeliveryInv, SourceInv
  <2> QED
    BY <1>1, <1>2, <1>4, <2>1, <2>2
<1> QED
  BY <1>6, <1>7

\* If what it was called with fits, it accepts that.
LEMMA MigratorAccepts ==
  ASSUME MigrationInv, DeliveryInv, ~Faulty, mPc = "body",
         NEW f \in FramesOffered(Source, mSeq), MigBadFrame(f)
  PROVE  ~MigMatching
<1> SUFFICES ASSUME MigMatching PROVE FALSE
  OBVIOUS
<1>1. mOldKey = EncKey(Source) /\ mOldHeader = eHeader[Source] /\ mSeq = mNewSeq
  BY MigratorIs
<1>2. mSeq \in Nat /\ mTotal \in Nat /\ eSeq[Source] \in Nat /\ eSeq[Source] <= MaxFrames
  BY SourceIs
<1>3. ~MigAcceptsFinal(f) /\ \A p \in Chunk : ~MigAccepts(f, p)
  BY DEF MigBadFrame
<1>4. CASE /\ mSeq + 1 <= eSeq[Source]
           /\ plain[Source][mSeq + 1] \in Chunk
           /\ f = DataFrame(EncKey(Source), eHeader[Source], mSeq, plain[Source][mSeq + 1])
           /\ Size[plain[Source][mSeq + 1]] <= MaxChunk
           /\ mTotal + Size[plain[Source][mSeq + 1]] <= MaxPlain
  <2>1. mSeq < MaxFrames
    BY <1>2, <1>4, LimitAssumption
  <2>2. PICK p \in Chunk : p = plain[Source][mSeq + 1]
    BY <1>4
  <2>3. AcceptsData(f, mOldKey, mOldHeader, mSeq, mTotal, p)
    BY <1>1, <1>2, <1>4, <2>1, <2>2, GoodData
  <2> QED
    BY <1>1, <1>3, <2>3 DEF MigAccepts
<1>5. CASE mSeq = eSeq[Source] /\ f = FinalFrame(EncKey(Source), eHeader[Source], mSeq)
  <2>1. AcceptsFinal(f, mOldKey, mOldHeader, mSeq)
    BY <1>1, <1>2, <1>5, GoodFinal
  <2> QED
    BY <1>1, <1>3, <2>1 DEF MigAcceptsFinal
<1> QED
  BY <1>4, <1>5, NextOfSource

-----------------------------------------------------------------------------
\* The steps of the migrator before its loop.
LEMMA MigrateBegins ==
  ASSUME MigrationInv, DeliveryInv, ~Faulty, mPc = "header", UNCHANGED eVars, UNCHANGED dVars,
         \/ HeaderMissing(Source) /\ MigUnreadable
         \/ \E h \in HeadersOffered(Source) :
               MigOpen(h) \/ MigDowngrade(h) \/ MigRefuse(h, Faulty)
  PROVE  DeliveryInv'
<1>0. /\ SourceInv /\ TargetInv /\ ReaderInv /\ Ordered
  BY DEF DeliveryInv
<1>1. /\ mOldKey = None /\ mOut = <<>> /\ mSeq = 0 /\ dPc = "header" /\ dKey = None
  BY <1>0, AtHeader
<1>2. /\ ePc' = ePc /\ eHeader' = eHeader /\ eBundle' = eBundle /\ eSeq' = eSeq
      /\ eTotal' = eTotal /\ plain' = plain /\ wire' = wire
      /\ dPc' = dPc /\ dKey' = dKey /\ dSeq' = dSeq /\ dTotal' = dTotal
  BY DEF eVars, dVars
<1>3. /\ mOut' = mOut /\ mSeq' = mSeq /\ mTotal' = mTotal
      /\ mHandles' = mHandles /\ mMin' = mMin
  BY DEF MigUnreadable, MigOpen, MigDowngrade, MigRefuse, mCounts, mArgs
<1>4. SourceInv'
  <2>1. EncKey(Source)' = EncKey(Source)
    BY <1>2 DEF EncKey
  <2> QED
    BY <1>0, <1>2, <2>1 DEF SourceInv
<1>5. Ordered'
  BY <1>0, <1>2, <1>3 DEF Ordered
<1>6. \E f \in Counts : Totals(f)'
  <2>1. PICK f \in Counts : Totals(f)
    BY DEF DeliveryInv
  <2>2. Totals(f)'
    BY <1>2, <1>3, <2>1, TotalsStay
  <2> QED
    BY <2>2
<1>7. ReaderInv'
  BY <1>1, <1>2 DEF ReaderInv
<1>8. TargetInv'
  <2>1. CASE HeaderMissing(Source) /\ MigUnreadable
    <3>1. mPc' = "error" /\ mOldKey' = mOldKey
      BY <2>1 DEF MigUnreadable, mKeys
    <3>2. eHeader[Source] = None /\ ePc[Source] = "refused"
      BY <2>1, SourceIs DEF HeaderMissing, Returned, CallInv
    <3>3. ~MigMatching'
      BY <1>2, <3>2 DEF MigMatching
    <3> QED
      BY <1>1, <1>2, <1>3, <3>1, <3>2, <3>3 DEF TargetInv
  <2>2. ASSUME NEW h \in HeadersOffered(Source),
               MigOpen(h) \/ MigDowngrade(h) \/ MigRefuse(h, Faulty)
        PROVE  TargetInv'
    <3>1. h = eHeader[Source] /\ eHeader[Source] # None
      BY SourceIs DEF HeadersOffered
    <3>2. CASE MigOpen(h)
      <4>1. mPc' = "body" /\ mOldHeader' = h /\ mOldKey' = RecoveredKey(mHandles, h)
        BY <3>2 DEF MigOpen
      <4> QED
        BY <1>1, <1>2, <1>3, <3>1, <4>1 DEF TargetInv
    <3>3. CASE MigDowngrade(h) \/ MigRefuse(h, Faulty)
      <4>1. mPc' \in {"error", "downgrade"} /\ mOldKey' = mOldKey
        BY <3>3 DEF MigDowngrade, MigRefuse, mKeys
      <4>2. ~MigMatching
        <5> SUFFICES ASSUME MigMatching PROVE FALSE
          OBVIOUS
        <5>1. MeetsMinimum(h, mMin) /\ mHandles = eBundle[Source]
          BY <3>1 DEF MigMatching
        <5>2. PICK n \in BaseNonce : h = HeaderFor(eBundle[Source], Source, n)
          BY <1>0, <3>1 DEF SourceInv
        <5>3. eBundle[Source] \in Bundle
          BY <3>1, SourceIs DEF CallInv
        <5>4. h.nonce # None /\ CanRecover(mHandles, h)
          BY <5>1, <5>2, <5>3, AbsentAssumption DEF CanRecover, HeaderFor, Bundle
        <5>5. MigAdmissible(h)
          BY <5>1, <5>4 DEF MigAdmissible
        <5>6. ~Weaker(h, mMin)
          <6>1. CASE mMin = None
            BY <6>1, AbsentAssumption DEF Weaker
          <6>2. CASE mMin # None
            <7>1. /\ mMin \in ProfileId /\ h.profile \in ProfileId
                  /\ Strength[h.profile] >= Strength[mMin]
              BY <5>1, <6>2 DEF MeetsMinimum
            <7>2. Strength[h.profile] \in Nat /\ Strength[mMin] \in Nat
              BY <7>1 DEF Strength, ProfileId
            <7> QED
              BY <7>1, <7>2 DEF Weaker
          <6> QED
            BY <6>1, <6>2
        <5> QED
          BY <3>3, <5>5, <5>6 DEF MigDowngrade, MigRefuse
      <4>3. ~MigMatching'
        BY <1>2, <1>3, <4>2 DEF MigMatching, MeetsMinimum
      <4> QED
        BY <1>1, <1>2, <1>3, <3>1, <4>1, <4>3 DEF TargetInv
    <3> QED
      BY <2>2, <3>2, <3>3
  <2> QED
    BY <2>1, <2>2
<1> QED
  BY <1>4, <1>5, <1>6, <1>7, <1>8 DEF DeliveryInv

\* A step of the loop keeps what does not depend on the frames.
LEMMA LoopStays ==
  ASSUME DeliveryInv, UNCHANGED eVars, UNCHANGED dVars, UNCHANGED mArgs, UNCHANGED mKeys,
         mNewHeader # None
  PROVE  /\ SourceInv' /\ ReaderInv' /\ NewKey' = NewKey
         /\ (MigMatching' <=> MigMatching)
         /\ ePc' = ePc /\ eHeader' = eHeader /\ eSeq' = eSeq /\ plain' = plain
         /\ eTotal' = eTotal /\ dSeq' = dSeq /\ dTotal' = dTotal
         /\ mOldKey' = mOldKey /\ mOldHeader' = mOldHeader /\ mHandles' = mHandles
         /\ mNewHeader' = mNewHeader
<1>1. /\ ePc' = ePc /\ eHeader' = eHeader /\ eBundle' = eBundle /\ eSeq' = eSeq
      /\ eTotal' = eTotal /\ plain' = plain /\ wire' = wire
      /\ dPc' = dPc /\ dKey' = dKey /\ dHeader' = dHeader /\ dHandles' = dHandles
      /\ dMin' = dMin /\ dSeq' = dSeq /\ dTotal' = dTotal
      /\ mOldKey' = mOldKey /\ mOldHeader' = mOldHeader /\ mHandles' = mHandles
      /\ mMin' = mMin /\ mNewHeader' = mNewHeader /\ mNewBundle' = mNewBundle
  BY DEF eVars, dVars, mArgs, mKeys
<1>2. EncKey(Source)' = EncKey(Source) /\ NewKey' = NewKey
  BY <1>1 DEF EncKey, NewKey
<1>3. SourceInv'
  BY <1>1, <1>2 DEF DeliveryInv, SourceInv
<1>4. (MigMatching' <=> MigMatching) /\ (Matching' <=> Matching)
  BY <1>1 DEF MigMatching, Matching, MeetsMinimum
<1>5. ReaderInv'
  BY <1>1, <1>4 DEF DeliveryInv, ReaderInv
<1> QED
  BY <1>1, <1>2, <1>3, <1>4, <1>5

\* A DATA frame goes through the migrator.
LEMMA MigrateData ==
  ASSUME MigrationInv, DeliveryInv, ~Faulty, UNCHANGED eVars, UNCHANGED dVars,
         NEW f \in FramesOffered(Source, mSeq), MigData(f)
  PROVE  DeliveryInv'
<1>0. mPc = "body" /\ mPc' = "body" /\ mSeq' = mSeq + 1 /\ UNCHANGED mArgs /\ UNCHANGED mKeys
  BY DEF MigData
<1>1. /\ mOldKey # None /\ mSeq = mNewSeq /\ mSeq = Len(mOut) /\ mNewHeader # None
      /\ eHeader[Source] # None /\ mOldHeader = eHeader[Source]
      /\ mOldKey = RecoveredKey(mHandles, mOldHeader)
      /\ \A i \in 1..mSeq : mOut[i] = DataFrame(NewKey, mNewHeader, i - 1, plain[Source][i])
  BY <1>0, MigratorIs
<1>2. PICK p \in Chunk :
        /\ AcceptsData(f, mOldKey, mOldHeader, mSeq, mTotal, p)
        /\ mOut' = Append(mOut, DataFrame(NewKey, mNewHeader, mSeq, p))
        /\ mTotal' = mTotal + (f.len - TagLen)
  BY <1>1 DEF MigData, MigAccepts
<1>3. /\ mSeq + 1 <= eSeq[Source]
      /\ p = plain[Source][mSeq + 1] /\ f.len = Size[p] + TagLen
  BY <1>0, <1>2, NextOfSource, OtherType
<1>4. /\ SourceInv' /\ ReaderInv' /\ NewKey' = NewKey
      /\ ePc' = ePc /\ eHeader' = eHeader /\ eSeq' = eSeq /\ plain' = plain
      /\ eTotal' = eTotal /\ dSeq' = dSeq /\ dTotal' = dTotal
      /\ mOldKey' = mOldKey /\ mOldHeader' = mOldHeader /\ mHandles' = mHandles
      /\ mNewHeader' = mNewHeader
  BY <1>0, <1>1, LoopStays
<1>5. PICK m \in Nat : m = mSeq
  BY SourceIs
<1>6. PICK d : d = DataFrame(NewKey, mNewHeader, m, p)
  OBVIOUS
<1>7. /\ Len(mOut') = m + 1 /\ mOut'[m + 1] = d /\ \A i \in 1..m : mOut'[i] = mOut[i]
  <2>1. PICK s \in Seq(Frame) : s = mOut
    BY SourceIs
  <2>2. d \in Frame
    <3>1. NewKey \in RootKey /\ mNewHeader \in Header /\ mNewHeader.nonce \in BaseNonce
      BY <1>0, InLoopMig DEF MigrationInv
    <3> QED
      BY <1>6, <3>1, DataType
  <2>3. /\ Len(Append(s, d)) = Len(s) + 1 /\ Append(s, d)[Len(s) + 1] = d
        /\ \A i \in 1..Len(s) : Append(s, d)[i] = s[i]
    BY <2>2, Appended
  <2> QED
    BY <1>1, <1>2, <1>5, <1>6, <2>1, <2>3
<1>8. ASSUME NEW i \in 1..(m + 1)
      PROVE  mOut'[i] = DataFrame(NewKey', mNewHeader', i - 1, plain'[Source][i])
  <2>1. CASE i = m + 1
    <3>1. i - 1 = m
      BY <2>1
    <3> QED
      BY <1>3, <1>4, <1>5, <1>6, <1>7, <2>1, <3>1
  <2>2. CASE i # m + 1
    <3>1. i \in 1..m
      BY <2>2
    <3> QED
      BY <1>1, <1>4, <1>5, <1>7, <3>1
  <2> QED
    BY <2>1, <2>2
<1>9. TargetInv'
  BY <1>0, <1>1, <1>4, <1>5, <1>7, <1>8 DEF TargetInv
<1>10. Ordered'
  <2>1. dSeq <= mSeq /\ dSeq \in Nat
    BY SourceIs DEF DeliveryInv, Ordered
  <2>2. dSeq <= m + 1
    BY <1>5, <2>1
  <2> QED
    BY <1>0, <1>3, <1>4, <1>5, <2>2 DEF Ordered
<1>11. PICK g \in Counts : Totals(g)
  BY DEF DeliveryInv
<1>12. Totals(g)'
  <2>1. PICK n \in Nat : n = eSeq[Source]
    BY SourceIs
  <2>2. m + 1 \in 1..n /\ (m + 1) - 1 = m
    BY <1>3, <1>5, <2>1
  <2>3. g[m + 1] = g[m] + Size[p] /\ mTotal = g[m]
    BY <1>3, <1>5, <1>11, <2>1, <2>2 DEF Totals
  <2>4. f.len - TagLen = Size[p]
    BY <1>3, SizeAssumption, LimitAssumption
  <2>5. mTotal' = g[mSeq']
    BY <1>0, <1>2, <1>5, <2>3, <2>4
  <2> QED
    BY <1>4, <1>11, <2>5 DEF Totals
<1> QED
  BY <1>4, <1>9, <1>10, <1>11, <1>12 DEF DeliveryInv

\* Steps of the loop that write nothing and end it.
LEMMA MigrateGivesUp ==
  ASSUME MigrationInv, DeliveryInv, UNCHANGED eVars, UNCHANGED dVars,
         mPc = "body", MigReturn("error"), UNCHANGED <<mCounts, mOut>>,
         ~MigMatching \/ ePc[Source] = "failed"
  PROVE  DeliveryInv'
<1>0. /\ mPc' = "error" /\ mSeq' = mSeq /\ mTotal' = mTotal /\ mOut' = mOut
      /\ UNCHANGED mArgs /\ UNCHANGED mKeys
  BY DEF MigReturn, mCounts
<1>1. mOldKey # None /\ mNewHeader # None /\ eHeader[Source] # None
  BY MigratorIs
<1>2. /\ SourceInv' /\ ReaderInv' /\ NewKey' = NewKey
      /\ (MigMatching' <=> MigMatching)
      /\ ePc' = ePc /\ eHeader' = eHeader /\ eSeq' = eSeq /\ plain' = plain
      /\ eTotal' = eTotal /\ dSeq' = dSeq /\ dTotal' = dTotal
      /\ mOldKey' = mOldKey /\ mOldHeader' = mOldHeader /\ mHandles' = mHandles
      /\ mNewHeader' = mNewHeader
  BY <1>0, <1>1, LoopStays
<1>3. TargetInv'
  BY <1>0, <1>1, <1>2 DEF DeliveryInv, TargetInv
<1>4. Ordered'
  BY <1>0, <1>2 DEF DeliveryInv, Ordered
<1>5. PICK g \in Counts : Totals(g)
  BY DEF DeliveryInv
<1>6. Totals(g)'
  BY <1>0, <1>2, <1>5, TotalsStay
<1> QED
  BY <1>2, <1>3, <1>4, <1>5, <1>6 DEF DeliveryInv

\* The FINAL frame goes through, and nothing comes after it.
LEMMA MigrateFinal ==
  ASSUME MigrationInv, DeliveryInv, ~Faulty, UNCHANGED eVars, UNCHANGED dVars,
         NEW f \in FramesOffered(Source, mSeq), NEW more \in BOOLEAN,
         MoreOffered(Source, mSeq + 1, more), MigFinal(f, more)
  PROVE  DeliveryInv'
<1>0. /\ mPc = "body" /\ mSeq' = mSeq /\ mTotal' = mTotal /\ UNCHANGED mArgs /\ UNCHANGED mKeys
      /\ mPc' = (IF more THEN "error" ELSE "ok")
      /\ MigAcceptsFinal(f) /\ mOut' = Append(mOut, FinalFrame(NewKey, mNewHeader, mNewSeq))
  BY DEF MigFinal, MigReturn, mCounts
<1>1. /\ mOldKey # None /\ mSeq = mNewSeq /\ mSeq = Len(mOut) /\ mNewHeader # None
      /\ eHeader[Source] # None /\ mOldHeader = eHeader[Source]
      /\ mOldKey = RecoveredKey(mHandles, mOldHeader)
      /\ \A i \in 1..mSeq : mOut[i] = DataFrame(NewKey, mNewHeader, i - 1, plain[Source][i])
  BY <1>0, MigratorIs
<1>2. PICK m \in Nat : m = mSeq
  BY SourceIs
<1>3. Len(wire[Source]) = m + 1
  <2>1. AcceptsFinal(f, mOldKey, mOldHeader, mSeq)
    BY <1>0, <1>1 DEF MigAcceptsFinal
  <2>2. CASE f = DataFrame(EncKey(Source), eHeader[Source], mSeq, plain[Source][mSeq + 1])
    BY <2>1, <2>2 DEF AcceptsFinal, DataFrame
  <2>3. CASE Len(wire[Source]) = mSeq + 1
    BY <1>2, <2>3
  <2> QED
    BY <1>0, <2>2, <2>3, NextOfSource
<1>4. mPc' = "ok"
  <2>1. CASE more
    <3>1. m + 1 < Len(OutputOf(Source))
      BY <1>2, <2>1 DEF MoreOffered
    <3> QED
      BY <1>3, <3>1, SourceIs
  <2> QED
    BY <1>0, <2>1
<1>5. /\ SourceInv' /\ ReaderInv' /\ NewKey' = NewKey
      /\ ePc' = ePc /\ eHeader' = eHeader /\ eSeq' = eSeq /\ plain' = plain
      /\ eTotal' = eTotal /\ dSeq' = dSeq /\ dTotal' = dTotal
      /\ mOldKey' = mOldKey /\ mOldHeader' = mOldHeader /\ mHandles' = mHandles
      /\ mNewHeader' = mNewHeader
  BY <1>0, <1>1, LoopStays
<1>6. PICK d : d = FinalFrame(NewKey, mNewHeader, m)
  OBVIOUS
<1>7. /\ Len(mOut') = m + 1 /\ mOut'[m + 1] = d /\ \A i \in 1..m : mOut'[i] = mOut[i]
  <2>1. PICK s \in Seq(Frame) : s = mOut
    BY SourceIs
  <2>2. d \in Frame
    <3>1. NewKey \in RootKey /\ mNewHeader \in Header /\ mNewHeader.nonce \in BaseNonce
      BY <1>0, InLoopMig DEF MigrationInv
    <3> QED
      BY <1>6, <3>1, FinalType
  <2>3. /\ Len(Append(s, d)) = Len(s) + 1 /\ Append(s, d)[Len(s) + 1] = d
        /\ \A i \in 1..Len(s) : Append(s, d)[i] = s[i]
    BY <2>2, Appended
  <2> QED
    BY <1>0, <1>1, <1>2, <1>6, <2>1, <2>3
<1>8. TargetInv'
  BY <1>0, <1>1, <1>2, <1>4, <1>5, <1>6, <1>7 DEF TargetInv
<1>9. Ordered'
  BY <1>0, <1>5 DEF DeliveryInv, Ordered
<1>10. PICK g \in Counts : Totals(g)
  BY DEF DeliveryInv
<1>11. Totals(g)'
  BY <1>0, <1>5, <1>10, TotalsStay
<1> QED
  BY <1>5, <1>8, <1>9, <1>10, <1>11 DEF DeliveryInv

\* A step of the migrator.
LEMMA MigrateDelivers ==
  ASSUME MigrationInv, DeliveryInv, ~Faulty, Migrate
  PROVE  DeliveryInv'
<1>0. UNCHANGED eVars /\ UNCHANGED dVars
  BY DEF Migrate
<1>1. ASSUME NEW f \in FramesOffered(Source, mSeq), MigBadFrame(f)
      PROVE  DeliveryInv'
  <2>1. mPc = "body" /\ MigReturn("error") /\ UNCHANGED <<mCounts, mOut>>
    BY <1>1 DEF MigBadFrame
  <2>2. ~MigMatching
    BY <1>1, <2>1, MigratorAccepts
  <2> QED
    BY <1>0, <2>1, <2>2, MigrateGivesUp
<1>2. ASSUME EndOffered(Source, mSeq), MigMissingFinal
      PROVE  DeliveryInv'
  <2>1. mPc = "body" /\ MigReturn("error") /\ UNCHANGED <<mCounts, mOut>>
    BY <1>2 DEF MigMissingFinal
  <2>2. ePc[Source] \in {"done", "failed"} /\ mSeq >= Len(wire[Source])
    BY <1>2, <2>1, SourceIs, MigratorIs DEF EndOffered, Returned
  <2>3. ePc[Source] # "done"
    <3> SUFFICES ASSUME ePc[Source] = "done" PROVE FALSE
      OBVIOUS
    <3>1. Len(wire[Source]) = eSeq[Source] + 1 /\ mSeq <= eSeq[Source]
      BY DEF DeliveryInv, SourceInv, Ordered
    <3>2. mSeq \in Nat /\ eSeq[Source] \in Nat
      BY SourceIs
    <3> QED
      BY <2>2, <3>1, <3>2
  <2> QED
    BY <1>0, <2>1, <2>2, <2>3, MigrateGivesUp
<1>3. ASSUME \/ HeaderMissing(Source) /\ MigUnreadable
             \/ \E h \in HeadersOffered(Source) :
                   MigOpen(h) \/ MigDowngrade(h) \/ MigRefuse(h, Faulty)
      PROVE  DeliveryInv'
  <2>1. mPc = "header"
    BY <1>3 DEF MigUnreadable, MigOpen, MigDowngrade, MigRefuse
  <2> QED
    BY <1>0, <1>3, <2>1, MigrateBegins
<1>4. ASSUME NEW f \in FramesOffered(Source, mSeq), NEW more \in BOOLEAN,
             MoreOffered(Source, mSeq + 1, more), MigFinal(f, more)
      PROVE  DeliveryInv'
  BY <1>0, <1>4, MigrateFinal
<1>5. ASSUME NEW f \in FramesOffered(Source, mSeq), MigData(f)
      PROVE  DeliveryInv'
  BY <1>0, <1>5, MigrateData
<1> QED
  BY <1>1, <1>2, <1>3, <1>4, <1>5 DEF Migrate

-----------------------------------------------------------------------------
\* The decryptor's own steps.

\* They leave encryptors and migrator alone, and the arguments of all three.
LEMMA DecryptStays ==
  ASSUME DeliveryInv, UNCHANGED eVars, UNCHANGED mVars, dHandles' = dHandles, dMin' = dMin
  PROVE  /\ SourceInv' /\ TargetInv' /\ (Matching' <=> Matching)
         /\ ePc' = ePc /\ eSeq' = eSeq /\ eTotal' = eTotal /\ plain' = plain
         /\ mPc' = mPc /\ mNewHeader' = mNewHeader /\ mSeq' = mSeq /\ mTotal' = mTotal
<1>1. /\ ePc' = ePc /\ eHeader' = eHeader /\ eBundle' = eBundle /\ eSeq' = eSeq
      /\ eTotal' = eTotal /\ plain' = plain /\ wire' = wire
      /\ mPc' = mPc /\ mHandles' = mHandles /\ mMin' = mMin
      /\ mOldKey' = mOldKey /\ mOldHeader' = mOldHeader
      /\ mNewBundle' = mNewBundle /\ mNewHeader' = mNewHeader
      /\ mSeq' = mSeq /\ mTotal' = mTotal /\ mOut' = mOut
  BY DEF eVars, mVars
<1>2. EncKey(Source)' = EncKey(Source) /\ NewKey' = NewKey
  BY <1>1 DEF EncKey, NewKey
<1>3. SourceInv'
  BY <1>1, <1>2 DEF DeliveryInv, SourceInv
<1>4. MigMatching' <=> MigMatching
  BY <1>1 DEF MigMatching, MeetsMinimum
<1>5. TargetInv'
  BY <1>1, <1>2, <1>4 DEF DeliveryInv, TargetInv
<1>6. Matching' <=> Matching
  BY <1>1 DEF Matching, MeetsMinimum
<1> QED
  BY <1>1, <1>3, <1>5, <1>6

\* The decryptor in its loop.
LEMMA DecryptorIs ==
  ASSUME MigrationInv, DeliveryInv, dPc = "body"
  PROVE  /\ dKey # None /\ mNewHeader # None /\ dHeader = mNewHeader
         /\ mOldKey # None /\ mPc \in {"body", "ok", "error"}
         /\ Matching => dKey = NewKey /\ MigMatching
<1>1. dKey # None
  BY AbsentAssumption DEF MigrationInv, ReadInv
<1>2. mNewHeader # None /\ dHeader = mNewHeader /\ dKey = RecoveredKey(dHandles, dHeader)
  BY <1>1 DEF DeliveryInv, ReaderInv
<1>3. mOldKey # None /\ mPc \in {"body", "ok", "error"}
  BY <1>2 DEF MigrationInv, MigInv, KeysInv
<1>4. Matching => dKey = NewKey /\ MigMatching
  <2>1. PICK n \in BaseNonce : mNewHeader = HeaderFor(mNewBundle, Target, n)
    BY <1>3 DEF MigrationInv, MigInv, KeysInv
  <2>2. RecoveredKey(mNewBundle, HeaderFor(mNewBundle, Target, n)) = NewKey
    BY DEF RecoveredKey, HeaderFor, NewKey, KeyFor
  <2> QED
    BY <1>2, <2>1, <2>2 DEF Matching, MigMatching
<1> QED
  BY <1>1, <1>2, <1>3, <1>4

\* What the decryptor is offered next.
LEMMA NextOfTarget ==
  ASSUME MigrationInv, DeliveryInv, ~Faulty, dPc = "body", NEW f \in FramesOffered(Target, dSeq)
  PROVE  \/ /\ dSeq + 1 <= mSeq
            /\ plain[Source][dSeq + 1] \in Chunk
            /\ f = DataFrame(NewKey, mNewHeader, dSeq, plain[Source][dSeq + 1])
            /\ Size[plain[Source][dSeq + 1]] <= MaxChunk
            /\ dTotal + Size[plain[Source][dSeq + 1]] <= MaxPlain
         \/ /\ dSeq = mSeq /\ mPc = "ok" /\ Len(mOut) = dSeq + 1
            /\ f = FinalFrame(NewKey, mNewHeader, dSeq)
<1>1. PICK n \in Nat : n = eSeq[Source]
  BY SourceIs
<1>2. PICK m \in Nat : m = mSeq
  BY SourceIs
<1>3. PICK d \in Nat : d = dSeq
  BY SourceIs
<1>4. d <= m /\ m <= n
  BY <1>1, <1>2, <1>3 DEF DeliveryInv, Ordered
<1>5. d + 1 <= Len(mOut) /\ f = mOut[d + 1]
  BY <1>3, SourceIs, Offered
<1>6. Len(mOut) = m + (IF mPc = "ok" THEN 1 ELSE 0)
  BY <1>2 DEF DeliveryInv, TargetInv
<1>7. CASE d + 1 <= m
  <2>1. d + 1 \in 1..m /\ d + 1 \in 1..n /\ (d + 1) - 1 = d
    BY <1>4, <1>7
  <2>2. mOut[d + 1] = DataFrame(NewKey, mNewHeader, d, plain[Source][d + 1])
    BY <1>2, <2>1 DEF DeliveryInv, TargetInv
  <2>3. Size[plain[Source][d + 1]] <= MaxChunk
    BY <1>1, <2>1 DEF DeliveryInv, SourceInv
  <2>4. plain[Source][d + 1] \in Chunk
    <3>1. n <= Len(plain[Source])
      BY <1>1 DEF DeliveryInv, SourceInv
    <3>2. PICK p \in Seq(Chunk) : p = plain[Source]
      BY SourceIs
    <3>3. d + 1 \in 1..Len(p)
      BY <2>1, <3>1, <3>2
    <3> QED
      BY <3>2, <3>3
  <2>5. dTotal + Size[plain[Source][d + 1]] <= MaxPlain
    <3>1. PICK g \in Counts : Totals(g)
      BY DEF DeliveryInv
    <3>2. dTotal = g[d] /\ g[d + 1] = g[d] + Size[plain[Source][d + 1]]
      BY <1>1, <1>3, <2>1, <3>1 DEF Totals
    <3>3. g[d + 1] <= eTotal[Source]
      <4>1. d + 1 \in 0..n
        BY <2>1
      <4> QED
        BY <1>1, <3>1, <4>1 DEF Totals
    <3>4. PICK t \in Nat : t = eTotal[Source] /\ t <= MaxPlain
      BY SourceIs
    <3>5. g[d + 1] \in Nat
      BY DEF Counts
    <3>6. g[d + 1] <= MaxPlain
      BY <3>3, <3>4, <3>5, LimitAssumption
    <3> QED
      BY <3>2, <3>6
  <2> QED
    BY <1>2, <1>3, <1>5, <1>7, <2>2, <2>3, <2>4, <2>5
<1>8. CASE ~(d + 1 <= m)
  <2>1. mPc = "ok" /\ d = m /\ Len(mOut) = d + 1
    BY <1>4, <1>5, <1>6, <1>8
  <2>2. mOut[m + 1] = FinalFrame(NewKey, mNewHeader, m)
    BY <1>2, <2>1 DEF DeliveryInv, TargetInv
  <2> QED
    BY <1>2, <1>3, <1>5, <2>1, <2>2
<1> QED
  BY <1>7, <1>8

\* If the arguments fit, it accepts that.
LEMMA DecryptorAccepts ==
  ASSUME MigrationInv, DeliveryInv, ~Faulty, dPc = "body",
         NEW f \in FramesOffered(Target, dSeq), DecBadFrame(f)
  PROVE  ~Matching
<1> SUFFICES ASSUME Matching PROVE FALSE
  OBVIOUS
<1>1. dKey = NewKey /\ dHeader = mNewHeader
  BY DecryptorIs
<1>2. /\ mSeq \in Nat /\ dSeq \in Nat /\ dTotal \in Nat
      /\ eSeq[Source] \in Nat /\ eSeq[Source] <= MaxFrames
      /\ dSeq <= mSeq /\ mSeq <= eSeq[Source]
  BY SourceIs DEF DeliveryInv, Ordered
<1>3. /\ ~AcceptsFinal(f, dKey, dHeader, dSeq)
      /\ \A p \in Chunk : ~AcceptsData(f, dKey, dHeader, dSeq, dTotal, p)
  BY DEF DecBadFrame
<1>4. CASE /\ dSeq + 1 <= mSeq
           /\ plain[Source][dSeq + 1] \in Chunk
           /\ f = DataFrame(NewKey, mNewHeader, dSeq, plain[Source][dSeq + 1])
           /\ Size[plain[Source][dSeq + 1]] <= MaxChunk
           /\ dTotal + Size[plain[Source][dSeq + 1]] <= MaxPlain
  <2>1. dSeq < MaxFrames
    BY <1>2, <1>4, LimitAssumption
  <2>2. PICK p \in Chunk : p = plain[Source][dSeq + 1]
    BY <1>4
  <2>3. AcceptsData(f, dKey, dHeader, dSeq, dTotal, p)
    BY <1>1, <1>2, <1>4, <2>1, <2>2, GoodData
  <2> QED
    BY <1>3, <2>3
<1>5. CASE f = FinalFrame(NewKey, mNewHeader, dSeq)
  <2>1. dSeq <= MaxFrames
    BY <1>2, LimitAssumption
  <2>2. AcceptsFinal(f, dKey, dHeader, dSeq)
    BY <1>1, <1>2, <1>5, <2>1, GoodFinal
  <2> QED
    BY <1>3, <2>2
<1> QED
  BY <1>4, <1>5, NextOfTarget

\* A header that the migrator wrote for the caller's own bundle is opened.
LEMMA HeaderAccepted ==
  ASSUME MigrationInv, DeliveryInv, mNewHeader # None, Matching
  PROVE  Admissible(mNewHeader) /\ ~Weaker(mNewHeader, dMin)
<1>1. MeetsMinimum(mNewHeader, dMin) /\ dHandles = mNewBundle
  BY DEF Matching
<1>2. mOldKey # None
  BY DEF MigrationInv, MigInv, KeysInv
<1>3. mNewBundle \in Bundle
  BY <1>2 DEF MigrationInv, MigInv, KeysInv
<1>4. PICK n \in BaseNonce : mNewHeader = HeaderFor(mNewBundle, Target, n)
  BY <1>2 DEF MigrationInv, MigInv, KeysInv
<1>5. mNewHeader.nonce # None /\ CanRecover(dHandles, mNewHeader)
  BY <1>1, <1>3, <1>4, AbsentAssumption DEF CanRecover, HeaderFor, Bundle
<1>6. ~Weaker(mNewHeader, dMin)
  <2>1. CASE dMin = None
    BY <2>1, AbsentAssumption DEF Weaker
  <2>2. CASE dMin # None
    <3>1. /\ dMin \in ProfileId /\ mNewHeader.profile \in ProfileId
          /\ Strength[mNewHeader.profile] >= Strength[dMin]
      BY <1>1, <2>2 DEF MeetsMinimum
    <3>2. Strength[mNewHeader.profile] \in Nat /\ Strength[dMin] \in Nat
      BY <3>1 DEF Strength, ProfileId
    <3> QED
      BY <3>1, <3>2 DEF Weaker
  <2> QED
    BY <2>1, <2>2
<1> QED
  BY <1>1, <1>5, <1>6 DEF Admissible

-----------------------------------------------------------------------------
\* A step that writes nothing, for a reason if it gives up.
LEMMA DecryptQuiet ==
  ASSUME MigrationInv, DeliveryInv, UNCHANGED eVars, UNCHANGED mVars,
         dPc' \in {"ok", "error", "downgrade"},
         UNCHANGED <<dHandles, dMin, dHeader, dKey, dSeq, dTotal>>,
         mNewHeader # None \/ mPc \in {"error", "downgrade"},
         dPc' \in {"error", "downgrade"} => ~Matching \/ ePc[Source] = "failed"
  PROVE  DeliveryInv'
<1>1. /\ dHandles' = dHandles /\ dMin' = dMin /\ dHeader' = dHeader
      /\ dKey' = dKey /\ dSeq' = dSeq /\ dTotal' = dTotal
  OBVIOUS
<1>2. /\ SourceInv' /\ TargetInv' /\ (Matching' <=> Matching)
      /\ ePc' = ePc /\ eSeq' = eSeq /\ eTotal' = eTotal /\ plain' = plain
      /\ mPc' = mPc /\ mNewHeader' = mNewHeader /\ mSeq' = mSeq /\ mTotal' = mTotal
  BY <1>1, DecryptStays
<1>3. ReaderInv'
  BY <1>1, <1>2 DEF DeliveryInv, ReaderInv
<1>4. Ordered'
  BY <1>1, <1>2 DEF DeliveryInv, Ordered
<1>5. PICK g \in Counts : Totals(g)
  BY DEF DeliveryInv
<1>6. Totals(g)'
  BY <1>1, <1>2, <1>5, TotalsStay
<1> QED
  BY <1>2, <1>3, <1>4, <1>5, <1>6 DEF DeliveryInv

\* The header is opened.
LEMMA DecryptOpens ==
  ASSUME MigrationInv, DeliveryInv, UNCHANGED eVars, UNCHANGED mVars,
         mNewHeader # None, DecOpen(mNewHeader)
  PROVE  DeliveryInv'
<1>1. /\ dHandles' = dHandles /\ dMin' = dMin /\ dHeader' = mNewHeader /\ dPc' = "body"
      /\ dKey' = RecoveredKey(dHandles, mNewHeader) /\ dSeq' = dSeq /\ dTotal' = dTotal
  BY DEF DecOpen
<1>2. /\ SourceInv' /\ TargetInv' /\ (Matching' <=> Matching)
      /\ ePc' = ePc /\ eSeq' = eSeq /\ eTotal' = eTotal /\ plain' = plain
      /\ mPc' = mPc /\ mNewHeader' = mNewHeader /\ mSeq' = mSeq /\ mTotal' = mTotal
  BY <1>1, DecryptStays
<1>3. ReaderInv'
  BY <1>1, <1>2 DEF ReaderInv
<1>4. Ordered'
  BY <1>1, <1>2 DEF DeliveryInv, Ordered
<1>5. PICK g \in Counts : Totals(g)
  BY DEF DeliveryInv
<1>6. Totals(g)'
  BY <1>1, <1>2, <1>5, TotalsStay
<1> QED
  BY <1>2, <1>3, <1>4, <1>5, <1>6 DEF DeliveryInv

\* A DATA frame is decrypted.
LEMMA DecryptData ==
  ASSUME MigrationInv, DeliveryInv, ~Faulty, UNCHANGED eVars, UNCHANGED mVars,
         NEW f \in FramesOffered(Target, dSeq), DecData(f)
  PROVE  DeliveryInv'
<1>0. /\ dPc = "body" /\ dPc' = "body" /\ dSeq' = dSeq + 1
      /\ dHandles' = dHandles /\ dMin' = dMin /\ dHeader' = dHeader /\ dKey' = dKey
  BY DEF DecData
<1>1. PICK p \in Chunk :
        /\ AcceptsData(f, dKey, dHeader, dSeq, dTotal, p) /\ dTotal' = dTotal + Size[p]
  BY DEF DecData
<1>2. dSeq + 1 <= mSeq /\ p = plain[Source][dSeq + 1]
  <2>1. CASE /\ dSeq + 1 <= mSeq
             /\ f = DataFrame(NewKey, mNewHeader, dSeq, plain[Source][dSeq + 1])
    <3>1. f.ct = SealedData(dKey, dHeader, dSeq, p)
      BY <1>1 DEF AcceptsData
    <3>2. f.ct = SealedData(NewKey, mNewHeader, dSeq, plain[Source][dSeq + 1])
      BY <2>1 DEF DataFrame
    <3>3. p = plain[Source][dSeq + 1]
      BY <3>1, <3>2 DEF SealedData, Seal
    <3> QED
      BY <2>1, <3>3
  <2>2. CASE f = FinalFrame(NewKey, mNewHeader, dSeq)
    BY <1>1, <2>2 DEF AcceptsData, FinalFrame
  <2> QED
    BY <1>0, <2>1, <2>2, NextOfTarget
<1>3. /\ SourceInv' /\ TargetInv' /\ (Matching' <=> Matching)
      /\ ePc' = ePc /\ eSeq' = eSeq /\ eTotal' = eTotal /\ plain' = plain
      /\ mPc' = mPc /\ mNewHeader' = mNewHeader /\ mSeq' = mSeq /\ mTotal' = mTotal
  BY <1>0, DecryptStays
<1>4. ReaderInv'
  BY <1>0, <1>3, DecryptorIs DEF DeliveryInv, ReaderInv
<1>5. Ordered'
  BY <1>0, <1>2, <1>3 DEF DeliveryInv, Ordered
<1>6. PICK g \in Counts : Totals(g)
  BY DEF DeliveryInv
<1>7. PICK d \in Nat : d = dSeq
  BY SourceIs
<1>8. PICK n \in Nat : n = eSeq[Source]
  BY SourceIs
<1>9. Totals(g)'
  <2>1. d + 1 \in 1..n /\ (d + 1) - 1 = d
    <3>1. PICK m \in Nat : m = mSeq
      BY SourceIs
    <3>2. d + 1 <= m /\ m <= n
      BY <1>2, <1>7, <1>8, <3>1 DEF DeliveryInv, Ordered
    <3> QED
      BY <3>2
  <2>2. g[d + 1] = g[d] + Size[p] /\ dTotal = g[d]
    BY <1>2, <1>6, <1>7, <1>8, <2>1 DEF Totals
  <2>3. dTotal' = g[dSeq']
    BY <1>0, <1>1, <1>7, <2>2
  <2> QED
    BY <1>3, <1>6, <2>3 DEF Totals
<1> QED
  BY <1>3, <1>4, <1>5, <1>6, <1>9 DEF DeliveryInv

\* A step of the decryptor.
LEMMA DecryptDelivers ==
  ASSUME MigrationInv, DeliveryInv, ~Faulty, Decrypt
  PROVE  DeliveryInv'
<1>0. UNCHANGED eVars /\ UNCHANGED mVars
  BY DEF Decrypt
<1>1. CASE HeaderMissing(Target) /\ DecUnreadable
  <2>1. Returned(mPc) /\ mNewHeader = None
    BY <1>1, SourceIs DEF HeaderMissing
  <2>2. mOldKey = None
    <3>1. ASSUME mOldKey # None PROVE FALSE
      <4>1. mNewBundle \in Bundle /\ \E n \in BaseNonce : mNewHeader = HeaderFor(mNewBundle, Target, n)
        BY <3>1 DEF MigrationInv, MigInv, KeysInv
      <4> QED
        BY <2>1, <4>1, HeaderType, TargetIs, AbsentAssumption
    <3> QED
      BY <3>1
  <2>3. mPc \in {"error", "downgrade"}
    BY <2>1, <2>2 DEF MigrationInv, MigInv, KeysInv, Returned
  <2>4. ~Matching \/ ePc[Source] = "failed"
    BY <2>3 DEF DeliveryInv, TargetInv, Matching, MigMatching
  <2> QED
    BY <1>0, <1>1, <2>3, <2>4, DecryptQuiet DEF DecUnreadable
<1>2. ASSUME NEW h \in HeadersOffered(Target),
             DecOpen(h) \/ DecDowngrade(h) \/ DecRefuse(h, Faulty)
      PROVE  DeliveryInv'
  <2>1. h = mNewHeader /\ mNewHeader # None
    BY SourceIs DEF HeadersOffered
  <2>2. CASE DecOpen(h)
    BY <1>0, <2>1, <2>2, DecryptOpens
  <2>3. CASE DecDowngrade(h) \/ DecRefuse(h, Faulty)
    <3>1. ~Matching
      BY <2>1, <2>3, HeaderAccepted DEF DecDowngrade, DecRefuse
    <3> QED
      BY <1>0, <2>1, <2>3, <3>1, DecryptQuiet DEF DecDowngrade, DecRefuse
  <2> QED
    BY <1>2, <2>2, <2>3
<1>3. ASSUME NEW f \in FramesOffered(Target, dSeq), DecData(f)
      PROVE  DeliveryInv'
  BY <1>0, <1>3, DecryptData
<1>4. ASSUME NEW f \in FramesOffered(Target, dSeq), NEW more \in BOOLEAN,
             MoreOffered(Target, dSeq + 1, more), DecFinal(f, more)
      PROVE  DeliveryInv'
  <2>1. dPc = "body" /\ AcceptsFinal(f, dKey, dHeader, dSeq)
    BY <1>4 DEF DecFinal
  <2>2. Len(mOut) = dSeq + 1
    <3>1. CASE f = DataFrame(NewKey, mNewHeader, dSeq, plain[Source][dSeq + 1])
      BY <2>1, <3>1 DEF AcceptsFinal, DataFrame
    <3> QED
      BY <2>1, <3>1, NextOfTarget
  <2>3. ~more
    <3>1. CASE more
      <4>1. dSeq + 1 < Len(mOut) /\ dSeq \in Nat
        BY <1>4, <3>1, SourceIs DEF MoreOffered
      <4> QED
        BY <2>2, <4>1
    <3> QED
      BY <3>1
  <2>4. /\ dPc' = "ok"
        /\ UNCHANGED <<dHandles, dMin, dHeader, dKey, dSeq, dTotal>>
    BY <1>4, <2>3 DEF DecFinal, DecReturn
  <2>5. mNewHeader # None
    BY <2>1, DecryptorIs
  <2> QED
    BY <1>0, <2>4, <2>5, DecryptQuiet
<1>5. ASSUME NEW f \in FramesOffered(Target, dSeq), DecBadFrame(f)
      PROVE  DeliveryInv'
  <2>1. /\ dPc = "body" /\ dPc' = "error"
        /\ UNCHANGED <<dHandles, dMin, dHeader, dKey, dSeq, dTotal>>
    BY <1>5 DEF DecBadFrame, DecReturn
  <2>2. mNewHeader # None /\ ~Matching
    BY <1>5, <2>1, DecryptorIs, DecryptorAccepts
  <2> QED
    BY <1>0, <2>1, <2>2, DecryptQuiet
<1>6. CASE EndOffered(Target, dSeq) /\ DecMissingFinal
  <2>1. /\ dPc = "body" /\ dPc' = "error"
        /\ UNCHANGED <<dHandles, dMin, dHeader, dKey, dSeq, dTotal>>
    BY <1>6 DEF DecMissingFinal, DecReturn
  <2>2. /\ mNewHeader # None /\ mPc \in {"body", "ok", "error"}
        /\ (Matching => MigMatching)
    BY <2>1, DecryptorIs
  <2>3. Returned(mPc) /\ dSeq >= Len(mOut)
    BY <1>6, SourceIs DEF EndOffered
  <2>4. mPc # "ok"
    <3> SUFFICES ASSUME mPc = "ok" PROVE FALSE
      OBVIOUS
    <3>1. Len(mOut) = mSeq + 1 /\ dSeq <= mSeq
      BY DEF DeliveryInv, TargetInv, Ordered
    <3>2. mSeq \in Nat /\ dSeq \in Nat
      BY SourceIs
    <3> QED
      BY <2>3, <3>1, <3>2
  <2>5. mPc = "error"
    BY <2>2, <2>3, <2>4 DEF Returned
  <2>6. ~Matching \/ ePc[Source] = "failed"
    BY <2>2, <2>5 DEF DeliveryInv, TargetInv
  <2> QED
    BY <1>0, <2>1, <2>2, <2>6, DecryptQuiet
<1> QED
  BY <1>1, <1>2, <1>3, <1>4, <1>5, <1>6 DEF Decrypt

-----------------------------------------------------------------------------
\* At first there is nothing to be right about, and a stutter changes nothing.
LEMMA InitDelivers ==
  ASSUME Init
  PROVE  DeliveryInv
<1>1. MigrationInv
  BY InitInv
<1>2. /\ ePc[Source] = "idle" /\ eHeader[Source] = None /\ eSeq[Source] = 0
      /\ eTotal[Source] = 0 /\ plain[Source] = <<>> /\ wire[Source] = <<>>
  BY TargetIs DEF Init, EncInit
<1>3. /\ mPc = "header" /\ mOldKey = None /\ mOut = <<>> /\ mSeq = 0 /\ mTotal = 0
      /\ dPc = "header" /\ dKey = None /\ dSeq = 0 /\ dTotal = 0
  BY DEF Init, MigInit, DecInit
<1>4. SourceInv
  BY <1>2 DEF SourceInv
<1>5. TargetInv /\ ReaderInv /\ Ordered
  BY <1>2, <1>3 DEF TargetInv, ReaderInv, Ordered
<1>6. \E f \in Counts : Totals(f)
  <2> DEFINE f == [i \in Nat |-> 0]
  <2>1. f \in Counts /\ Totals(f)
    BY <1>2, <1>3 DEF Counts, Totals
  <2> HIDE DEF f
  <2> QED
    BY <2>1
<1> QED
  BY <1>4, <1>5, <1>6 DEF DeliveryInv

LEMMA StutterDelivers ==
  ASSUME MigrationInv, DeliveryInv, UNCHANGED vars
  PROVE  DeliveryInv'
<1>1. UNCHANGED eVars /\ UNCHANGED mVars /\ UNCHANGED dVars
  BY DEF vars
<1>2. /\ dPc' = dPc /\ dHandles' = dHandles /\ dMin' = dMin /\ dHeader' = dHeader
      /\ dKey' = dKey /\ dSeq' = dSeq /\ dTotal' = dTotal
  BY <1>1 DEF dVars
<1>3. /\ SourceInv' /\ TargetInv' /\ (Matching' <=> Matching)
      /\ ePc' = ePc /\ eSeq' = eSeq /\ eTotal' = eTotal /\ plain' = plain
      /\ mPc' = mPc /\ mNewHeader' = mNewHeader /\ mSeq' = mSeq /\ mTotal' = mTotal
  BY <1>1, <1>2, DecryptStays
<1>4. ReaderInv' /\ Ordered'
  BY <1>2, <1>3 DEF DeliveryInv, ReaderInv, Ordered
<1>5. PICK g \in Counts : Totals(g)
  BY DEF DeliveryInv
<1>6. Totals(g)'
  BY <1>2, <1>3, <1>5, TotalsStay
<1> QED
  BY <1>3, <1>4, <1>5, <1>6 DEF DeliveryInv

\* The second inductive invariant, for the medium that only delivers.
THEOREM DeliveryInvariant == ~Faulty => (Spec => [](MigrationInv /\ DeliveryInv))
<1> SUFFICES ASSUME ~Faulty PROVE Spec => [](MigrationInv /\ DeliveryInv)
  OBVIOUS
<1>1. Init => MigrationInv /\ DeliveryInv
  BY InitInv, InitDelivers
<1>2. MigrationInv /\ DeliveryInv /\ [Next]_vars => (MigrationInv /\ DeliveryInv)'
  <2> SUFFICES ASSUME MigrationInv, DeliveryInv, [Next]_vars
               PROVE  MigrationInv' /\ DeliveryInv'
    OBVIOUS
  <2>1. MigrationInv'
    BY EncryptInv, MigrateInv, DecryptInv, StutterInv DEF Next
  <2>2. DeliveryInv'
    BY <2>1, EncryptDelivers, MigrateDelivers, DecryptDelivers, StutterDelivers DEF Next
  <2> QED
    BY <2>1, <2>2
<1> QED
  BY <1>1, <1>2, PTL DEF Spec

\* Over that medium, a migrator called with the source's bundle and a decryptor
\* called with the new one accept what they read, unless the encryptor itself
\* gave up: migrating takes no stream over a limit of the decryptor.
THEOREM Acceptance == ~Faulty => (Spec => []MigratedAccepted)
<1> SUFFICES ASSUME ~Faulty PROVE Spec => []MigratedAccepted
  OBVIOUS
<1>1. ASSUME MigrationInv, DeliveryInv PROVE MigratedAccepted
  <2>1. PcOf(Source) = ePc[Source]
    BY <1>1, SourceIs
  <2>2. mPc \in {"error", "downgrade"} => ~Matching \/ ePc[Source] = "failed"
    BY <1>1 DEF DeliveryInv, TargetInv, Matching, MigMatching
  <2> QED
    BY <1>1, <2>1, <2>2 DEF DeliveryInv, ReaderInv, MigratedAccepted
<1> QED
  BY <1>1, DeliveryInvariant, PTL
=============================================================================
