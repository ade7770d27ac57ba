---------------------------- MODULE StreamMigrate ---------------------------
(***************************************************************************)
(* migrate_stream(): one call, which decrypts a stream frame by frame and  *)
(* encrypts each chunk again under a root key derived from new_bundle.     *)
(***************************************************************************)
EXTENDS StreamCrypto

CONSTANTS
  Target,        \* the derive_root_key() call this call makes
  NewBundles,    \* the new_bundle arguments
  MigHandleSets, \* the private_handles arguments
  MigMinimums    \* the min_profile arguments

ASSUME TargetAssumption == Target \in Stream
ASSUME NewBundlesAssumption == NewBundles \subseteq Bundle /\ MigHandleSets \subseteq Bundle

VARIABLES
  mPc,        \* "header", then "body" until it returns or raises
  mHandles,   \* its private_handles argument
  mMin,       \* its min_profile argument
  mOldHeader, \* old_header
  mOldKey,    \* the recovered root key
  mNewBundle, \* its new_bundle argument, once it has been used
  mNewHeader, \* new_derived.header
  mSeq,       \* sequence_number, of the source
  mNewSeq,    \* new_sequence_number, of the destination
  mTotal,     \* total_plaintext_bytes
  mOldBuf,    \* old_root_key_buf
  mNewBuf,    \* new_root_key_buf
  mOut        \* the frames written to output_stream

mVars == <<mPc, mHandles, mMin, mOldHeader, mOldKey, mNewBundle, mNewHeader,
           mSeq, mNewSeq, mTotal, mOldBuf, mNewBuf, mOut>>

\* What no step changes once the loop is entered, or before it is.
mArgs   == <<mHandles, mMin>>
mKeys   == <<mOldHeader, mOldKey, mNewBundle, mNewHeader>>
mCounts == <<mSeq, mNewSeq, mTotal>>

MigInit ==
  /\ mPc = "header"
  /\ mHandles \in MigHandleSets
  /\ mMin \in MigMinimums
  /\ mOldHeader = None /\ mOldKey = None
  /\ mNewBundle = None /\ mNewHeader = None
  /\ mSeq = 0 /\ mNewSeq = 0 /\ mTotal = 0
  /\ mOldBuf = "none" /\ mNewBuf = "none"
  /\ mOut = <<>>

NewKey == KeyFor(mNewBundle, Target)

\* A slip: only the old key buffer is zeroized.
MigReturnKeepsNew(pc) ==
  /\ mPc' = pc
  /\ mOldBuf' = "wiped"
  /\ UNCHANGED <<mArgs, mKeys, mNewBuf>>

\* The finally clause of the loop zeroizes both key buffers.
MigReturn(pc) ==
  /\ mPc' = pc
  /\ mOldBuf' = "wiped" /\ mNewBuf' = "wiped"
  /\ UNCHANGED <<mArgs, mKeys>>

-----------------------------------------------------------------------------
MigUnreadable ==
  /\ mPc = "header"
  /\ mPc' = "error"
  /\ UNCHANGED <<mArgs, mKeys, mCounts, mOldBuf, mNewBuf, mOut>>

MigDowngrade(h) ==
  /\ mPc = "header"
  /\ Weaker(h, mMin)
  /\ mPc' = "downgrade"
  /\ UNCHANGED <<mArgs, mKeys, mCounts, mOldBuf, mNewBuf, mOut>>

MigAdmissible(h) ==
  /\ MeetsMinimum(h, mMin)
  /\ h.nonce # None
  /\ CanRecover(mHandles, h)

MigRefuse(h, fault) ==
  /\ mPc = "header"
  /\ ~Weaker(h, mMin)
  /\ fault \/ ~MigAdmissible(h)
  /\ mPc' = "error"
  /\ UNCHANGED <<mArgs, mKeys, mCounts, mOldBuf, mNewBuf, mOut>>

\* The old root key is recovered, the new one derived, and the new header
\* written.
MigOpen(h) ==
  /\ mPc = "header"
  /\ MigAdmissible(h)
  /\ \E b \in NewBundles, n \in BaseNonce :
        /\ mNewBundle' = b
        /\ mNewHeader' = HeaderFor(b, Target, n)
  /\ mPc' = "body"
  /\ mOldHeader' = h
  /\ mOldKey' = RecoveredKey(mHandles, h)
  /\ mOldBuf' = "live" /\ mNewBuf' = "live"
  /\ UNCHANGED <<mArgs, mCounts, mOut>>

\* The old root key is in its buffer when derive_root_key(new_bundle) raises,
\* and the new one too when the header write does: the loop's finally clause
\* is not in force yet.
MigSetupFails(h) ==
  /\ mPc = "header"
  /\ MigAdmissible(h)
  /\ mPc' = "error"
  /\ mOldBuf' = "live"
  /\ mNewBuf' \in {"none", "live"}
  /\ UNCHANGED <<mArgs, mKeys, mCounts, mOut>>

-----------------------------------------------------------------------------
\* The two counters are compared before each frame is opened.
MigAccepts(f, p) ==
  /\ mSeq = mNewSeq
  /\ AcceptsData(f, mOldKey, mOldHeader, mSeq, mTotal, p)

MigAcceptsFinal(f) ==
  /\ mSeq = mNewSeq
  /\ AcceptsFinal(f, mOldKey, mOldHeader, mSeq)

\* A slip: FINAL takes the number of the last DATA frame of the destination.
MigFinalLastNumber(f, more) ==
  /\ mPc = "body"
  /\ MigAcceptsFinal(f)
  /\ mOut' = Append(mOut,
        FinalFrame(NewKey, mNewHeader, IF mNewSeq = 0 THEN 0 ELSE mNewSeq - 1))
  /\ MigReturn(IF more THEN "error" ELSE "ok")
  /\ UNCHANGED mCounts

\* A DATA frame authenticates: its chunk goes out under the new key.
MigData(f) ==
  /\ mPc = "body"
  /\ \E p \in Chunk :
        /\ MigAccepts(f, p)
        /\ mOut' = Append(mOut, DataFrame(NewKey, mNewHeader, mNewSeq, p))
        /\ mTotal' = mTotal + (f.len - TagLen)
  /\ mSeq' = mSeq + 1
  /\ mNewSeq' = mNewSeq + 1
  /\ UNCHANGED <<mPc, mArgs, mKeys, mOldBuf, mNewBuf>>

\* The FINAL frame authenticates: the new one is written before
\* has_remaining() says whether more follows.
MigFinal(f, more) ==
  /\ mPc = "body"
  /\ MigAcceptsFinal(f)
  /\ mOut' = Append(mOut, FinalFrame(NewKey, mNewHeader, mNewSeq))
  /\ MigReturn(IF more THEN "error" ELSE "ok")
  /\ UNCHANGED mCounts

\* A write of the new frame fails, with some or all of it in the output.
MigWriteFails(f) ==
  /\ mPc = "body"
  /\ \E whole \in BOOLEAN :
        \/ \E p \in Chunk :
              /\ MigAccepts(f, p)
              /\ mOut' = Append(mOut, [DataFrame(NewKey, mNewHeader, mNewSeq, p)
                                         EXCEPT !.whole = whole])
        \/ /\ MigAcceptsFinal(f)
           /\ mOut' = Append(mOut, [FinalFrame(NewKey, mNewHeader, mNewSeq)
                                      EXCEPT !.whole = whole])
  /\ MigReturn("error")
  /\ UNCHANGED mCounts

MigBadFrame(f) ==
  /\ mPc = "body"
  /\ ~MigAcceptsFinal(f)
  /\ \A p \in Chunk : ~MigAccepts(f, p)
  /\ MigReturn("error")
  /\ UNCHANGED <<mCounts, mOut>>

\* A slip: a truncated source is finished off as if it had ended.
MigFinishesTruncated ==
  /\ mPc = "body"
  /\ mOut' = Append(mOut, FinalFrame(NewKey, mNewHeader, mNewSeq))
  /\ MigReturn("ok")
  /\ UNCHANGED mCounts

\* The input ends before a FINAL frame, or reading it fails.
MigMissingFinal ==
  /\ mPc = "body"
  /\ MigReturn("error")
  /\ UNCHANGED <<mCounts, mOut>>

MigTypeOK ==
  /\ mPc \in {"header", "body", "ok", "error", "downgrade"}
  /\ mHandles \in MigHandleSets /\ mMin \in MigMinimums
  /\ mOldHeader \in Header \cup {None} /\ mNewHeader \in Header \cup {None}
  /\ mOldKey \in RootKey \cup {None}
  /\ mNewBundle \in NewBundles \cup {None}
  /\ mSeq \in 0..MaxFrames /\ mNewSeq \in 0..MaxFrames
  /\ mTotal \in 0..MaxPlain
  /\ {mOldBuf, mNewBuf} \subseteq {"none", "live", "wiped"}
  /\ mOut \in Seq(Frame)
=============================================================================
