---------------------------- MODULE StreamEncrypt ---------------------------
(***************************************************************************)
(* encrypt_stream(): one call per member of Stream, all concurrent.  Each  *)
(* derives a fresh root key, writes its header, then one DATA frame per    *)
(* non-empty read of its input and a FINAL frame at the end of it.         *)
(***************************************************************************)
EXTENDS StreamCrypto

CONSTANTS
  Bundles,     \* the public bundles callers encrypt to
  ChunkSizes,  \* the chunk_size arguments they pass
  Faulty       \* whether I/O, and the medium, may fail

ASSUME BundlesAssumption   == Bundles \subseteq Bundle
ASSUME ChunkSizeAssumption == ChunkSizes \subseteq Nat
ASSUME FaultyAssumption    == Faulty \in BOOLEAN

VARIABLES
  ePc,        \* where call s is: "body" from the header until it returns
  eBundle,    \* its bundle argument
  eChunkSize, \* its chunk_size argument
  eHeader,    \* derived.header
  eSeq,       \* sequence_number
  eTotal,     \* total_plaintext_bytes
  eKeyBuf,    \* root_key_buf
  plain,      \* every chunk its input has returned, in order
  ended,      \* whether its input has returned end-of-file
  wire        \* every frame it has written, in order

eVars == <<ePc, eBundle, eChunkSize, eHeader, eSeq, eTotal, eKeyBuf,
           plain, ended, wire>>

KeyBuf == {"none", "live", "wiped"}

EncInit ==
  /\ ePc        = [s \in Stream |-> "idle"]
  /\ eBundle    = [s \in Stream |-> None]
  /\ eChunkSize = [s \in Stream |-> 0]
  /\ eHeader    = [s \in Stream |-> None]
  /\ eSeq       = [s \in Stream |-> 0]
  /\ eTotal     = [s \in Stream |-> 0]
  /\ eKeyBuf    = [s \in Stream |-> "none"]
  /\ plain      = [s \in Stream |-> <<>>]
  /\ ended      = [s \in Stream |-> FALSE]
  /\ wire       = [s \in Stream |-> <<>>]

\* The root key call s encrypts under.
EncKey(s) == KeyFor(eBundle[s], s)

\* The finally clause: every exit from the loop zeroizes the key buffer.
EncReturn(s, pc) ==
  /\ ePc'     = [ePc EXCEPT ![s] = pc]
  /\ eKeyBuf' = [eKeyBuf EXCEPT ![s] = "wiped"]

-----------------------------------------------------------------------------
\* derive_root_key(), the chunk_size check, and the header.
EncStart(s) ==
  /\ ePc[s] = "idle"
  /\ \E b \in Bundles, n \in BaseNonce, size \in ChunkSizes :
        /\ size > 0 /\ size <= MaxChunk
        /\ eBundle'    = [eBundle EXCEPT ![s] = b]
        /\ eHeader'    = [eHeader EXCEPT ![s] = HeaderFor(b, s, n)]
        /\ eChunkSize' = [eChunkSize EXCEPT ![s] = size]
  /\ ePc'     = [ePc EXCEPT ![s] = "body"]
  /\ eKeyBuf' = [eKeyBuf EXCEPT ![s] = "live"]
  /\ UNCHANGED <<eSeq, eTotal, plain, ended, wire>>

\* A chunk_size out of range, an unusable bundle or provider, or a failed
\* header write: the call raises before root_key_buf exists.
EncRefuse(s) ==
  /\ ePc[s] = "idle"
  /\ Faulty \/ \E size \in ChunkSizes : size = 0 \/ size > MaxChunk
  /\ ePc' = [ePc EXCEPT ![s] = "refused"]
  /\ UNCHANGED <<eBundle, eChunkSize, eHeader, eSeq, eTotal, eKeyBuf,
                 plain, ended, wire>>

\* One more chunk would pass a protocol limit.
OverLimit(s, c) ==
  \/ eSeq[s] >= MaxFrames
  \/ eTotal[s] + Size[c] > MaxPlain
  \/ eSeq[s] > MaxSeq

\* input_stream.read(chunk_size) returns c, which goes out as one DATA frame.
EncChunk(s) ==
  /\ ePc[s] = "body"
  /\ \E c \in Chunk :
        /\ Size[c] <= eChunkSize[s]
        /\ ~OverLimit(s, c)
        /\ plain'  = [plain EXCEPT ![s] = Append(@, c)]
        /\ wire'   = [wire EXCEPT ![s] =
                        Append(@, DataFrame(EncKey(s), eHeader[s], eSeq[s], c))]
        /\ eTotal' = [eTotal EXCEPT ![s] = @ + Size[c]]
  /\ eSeq' = [eSeq EXCEPT ![s] = @ + 1]
  /\ UNCHANGED <<ePc, eBundle, eChunkSize, eHeader, eKeyBuf, ended>>

\* The chunk is over a limit: ValueError, with no FINAL frame.
EncLimit(s) ==
  /\ ePc[s] = "body"
  /\ \E c \in Chunk :
        /\ Size[c] <= eChunkSize[s]
        /\ OverLimit(s, c)
        /\ plain' = [plain EXCEPT ![s] = Append(@, c)]
  /\ EncReturn(s, "failed")
  /\ UNCHANGED <<eBundle, eChunkSize, eHeader, eSeq, eTotal, ended, wire>>

\* A slip: the FINAL frame takes the number of the last DATA frame.
EncFinalLastNumber(s) ==
  /\ ePc[s] = "body"
  /\ wire' = [wire EXCEPT ![s] = Append(@,
        FinalFrame(EncKey(s), eHeader[s], IF eSeq[s] = 0 THEN 0 ELSE eSeq[s] - 1))]
  /\ ended' = [ended EXCEPT ![s] = TRUE]
  /\ EncReturn(s, "done")
  /\ UNCHANGED <<eBundle, eChunkSize, eHeader, eSeq, eTotal, plain>>

\* The input is at its end: the FINAL frame takes the next sequence number.
EncFinal(s) ==
  /\ ePc[s] = "body"
  /\ eSeq[s] <= MaxSeq
  /\ wire' = [wire EXCEPT ![s] =
                Append(@, FinalFrame(EncKey(s), eHeader[s], eSeq[s]))]
  /\ ended' = [ended EXCEPT ![s] = TRUE]
  /\ EncReturn(s, "done")
  /\ UNCHANGED <<eBundle, eChunkSize, eHeader, eSeq, eTotal, plain>>

\* A read fails, or one of the three writes of a frame: what the output took
\* of the frame, all of it included, stays there.
EncIoError(s) ==
  /\ Faulty
  /\ ePc[s] = "body"
  /\ \/ UNCHANGED <<plain, ended, wire>>
     \/ \E c \in Chunk, whole \in BOOLEAN :
           /\ Size[c] <= eChunkSize[s]
           /\ ~OverLimit(s, c)
           /\ plain' = [plain EXCEPT ![s] = Append(@, c)]
           /\ wire'  = [wire EXCEPT ![s] = Append(@,
                [DataFrame(EncKey(s), eHeader[s], eSeq[s], c) EXCEPT !.whole = whole])]
           /\ UNCHANGED ended
     \/ \E whole \in BOOLEAN :
           /\ eSeq[s] <= MaxSeq
           /\ wire' = [wire EXCEPT ![s] = Append(@,
                [FinalFrame(EncKey(s), eHeader[s], eSeq[s]) EXCEPT !.whole = whole])]
           /\ ended' = [ended EXCEPT ![s] = TRUE]
           /\ UNCHANGED plain
  /\ EncReturn(s, "failed")
  /\ UNCHANGED <<eBundle, eChunkSize, eHeader, eSeq, eTotal>>

EncNext(s) ==
  \/ EncStart(s) \/ EncRefuse(s) \/ EncChunk(s) \/ EncLimit(s)
  \/ EncFinal(s) \/ EncIoError(s)

-----------------------------------------------------------------------------
\* The ciphertexts in the outputs: AES-GCM outputs written in full.
Written ==
  UNION {{wire[s][i].ct : i \in {j \in 1..Len(wire[s]) : wire[s][j].whole}} :
           s \in Stream}

EncTypeOK ==
  /\ ePc        \in [Stream -> {"idle", "body", "done", "failed", "refused"}]
  /\ eBundle    \in [Stream -> Bundle \cup {None}]
  /\ eChunkSize \in [Stream -> 0..MaxChunk]
  /\ eHeader    \in [Stream -> Header \cup {None}]
  /\ eSeq       \in [Stream -> 0..MaxFrames]
  /\ eTotal     \in [Stream -> 0..MaxPlain]
  /\ eKeyBuf    \in [Stream -> KeyBuf]
  /\ plain      \in [Stream -> Seq(Chunk)]
  /\ ended      \in [Stream -> BOOLEAN]
  /\ wire       \in [Stream -> Seq(Frame)]

-----------------------------------------------------------------------------
\* The inductive invariant of encrypt_stream(), in any composition: it relates
\* each call's counter to what the call has read and written.

\* A call that has derived its key keeps a header and bundle that agree; in the
\* loop, sequence_number counts both the chunks read and the frames written.
CallInv(s) ==
  IF ePc[s] \in {"idle", "refused"}
  THEN /\ eHeader[s] = None /\ eBundle[s] = None
       /\ plain[s] = <<>> /\ wire[s] = <<>> /\ ~ended[s]
       /\ eSeq[s] = 0 /\ eKeyBuf[s] = "none"
  ELSE /\ eBundle[s] \in Bundle
       /\ eHeader[s] \in Header
       /\ eHeader[s].nonce \in BaseNonce
       /\ eHeader[s].profile = eBundle[s].profile
       /\ eHeader[s].comps.call = s
       /\ ePc[s] = "body" => /\ eSeq[s] = Len(plain[s])
                             /\ eSeq[s] = Len(wire[s])
                             /\ ~ended[s]
       /\ ePc[s] # "body" => eKeyBuf[s] = "wiped"

\* Frame i carries number i - 1, and either chunk i or, after the last chunk of
\* an input that has ended, nothing.
FrameInv(s, i) ==
  \/ /\ i <= Len(plain[s])
     /\ wire[s][i].ct = SealedData(EncKey(s), eHeader[s], i - 1, plain[s][i])
  \/ /\ ended[s]
     /\ i = Len(plain[s]) + 1
     /\ wire[s][i].ct = SealedFinal(EncKey(s), eHeader[s], i - 1)

EncInv ==
  /\ EncTypeOK
  /\ \A s \in Stream : CallInv(s)
  /\ \A s \in Stream : \A i \in 1..Len(wire[s]) : FrameInv(s, i)
=============================================================================
