---------------------------- MODULE StreamDecrypt ---------------------------
(***************************************************************************)
(* decrypt_stream(): one call, which reads a header and then frames.  The  *)
(* actions take what the input yields as a parameter; the composition says *)
(* where it comes from.                                                    *)
(***************************************************************************)
EXTENDS StreamCrypto

CONSTANTS
  HandleSets, \* the private handles callers may hold, named by their bundle
  Minimums    \* the min_profile arguments they pass

ASSUME HandlesAssumption == HandleSets \subseteq Bundle

VARIABLES
  dPc,       \* "header", then "body" until it returns or raises
  dHandles,  \* its private_handles argument
  dMin,      \* its min_profile argument
  dHeader,   \* the header it decrypts under
  dKey,      \* the recovered root key
  dSeq,      \* sequence_number
  dTotal,    \* total_plaintext_bytes
  dOut,      \* the chunks written to output_stream
  dKeyBuf    \* root_key_buf

dVars == <<dPc, dHandles, dMin, dHeader, dKey, dSeq, dTotal, dOut, dKeyBuf>>

DecInit ==
  /\ dPc      = "header"
  /\ dHandles \in HandleSets
  /\ dMin     \in Minimums
  /\ dHeader  = None
  /\ dKey     = None
  /\ dSeq     = 0
  /\ dTotal   = 0
  /\ dOut     = <<>>
  /\ dKeyBuf  = "none"

\* A slip: the key buffer is zeroized only on the way out of a success.
DecReturnKeepsKey(pc) ==
  /\ dPc' = pc
  /\ dKeyBuf' = IF pc = "ok" THEN "wiped" ELSE dKeyBuf
  /\ UNCHANGED <<dHandles, dMin, dHeader, dKey>>

\* The finally clause: every exit from the loop zeroizes the key buffer.
DecReturn(pc) ==
  /\ dPc'     = pc
  /\ dKeyBuf' = "wiped"
  /\ UNCHANGED <<dHandles, dMin, dHeader, dKey>>

-----------------------------------------------------------------------------
\* The first read is empty, or is not a header.
DecUnreadable ==
  /\ dPc = "header"
  /\ dPc' = "error"
  /\ UNCHANGED <<dHandles, dMin, dHeader, dKey, dSeq, dTotal, dOut, dKeyBuf>>

\* The header names a profile below the minimum: DowngradeError.
DecDowngrade(h) ==
  /\ dPc = "header"
  /\ Weaker(h, dMin)
  /\ dPc' = "downgrade"
  /\ UNCHANGED <<dHandles, dMin, dHeader, dKey, dSeq, dTotal, dOut, dKeyBuf>>

\* What decrypt_stream() asks of a header before it opens any frame.
Admissible(h) ==
  /\ MeetsMinimum(h, dMin)
  /\ h.nonce # None
  /\ CanRecover(dHandles, h)

\* The header is not admissible, or a KEM provider fails: DecryptionError.
DecRefuse(h, fault) ==
  /\ dPc = "header"
  /\ ~Weaker(h, dMin)
  /\ fault \/ ~Admissible(h)
  /\ dPc' = "error"
  /\ UNCHANGED <<dHandles, dMin, dHeader, dKey, dSeq, dTotal, dOut, dKeyBuf>>

DecOpen(h) ==
  /\ dPc = "header"
  /\ Admissible(h)
  /\ dPc'     = "body"
  /\ dHeader' = h
  /\ dKey'    = RecoveredKey(dHandles, h)
  /\ dKeyBuf' = "live"
  /\ UNCHANGED <<dHandles, dMin, dSeq, dTotal, dOut>>

-----------------------------------------------------------------------------
\* A DATA frame authenticates as the next one: its chunk is written out.
DecData(f) ==
  /\ dPc = "body"
  /\ \E p \in Chunk :
        /\ AcceptsData(f, dKey, dHeader, dSeq, dTotal, p)
        /\ dOut'   = Append(dOut, p)
        /\ dTotal' = dTotal + Size[p]
  /\ dSeq' = dSeq + 1
  /\ UNCHANGED <<dPc, dHandles, dMin, dHeader, dKey, dKeyBuf>>

\* The FINAL frame authenticates; has_remaining() says whether more follows.
DecFinal(f, more) ==
  /\ dPc = "body"
  /\ AcceptsFinal(f, dKey, dHeader, dSeq)
  /\ DecReturn(IF more THEN "error" ELSE "ok")
  /\ UNCHANGED <<dSeq, dTotal, dOut>>

\* Any other frame: of another type, torn, of a bad length, past a limit, or
\* one that does not authenticate.
DecBadFrame(f) ==
  /\ dPc = "body"
  /\ ~AcceptsFinal(f, dKey, dHeader, dSeq)
  /\ \A p \in Chunk : ~AcceptsData(f, dKey, dHeader, dSeq, dTotal, p)
  /\ DecReturn("error")
  /\ UNCHANGED <<dSeq, dTotal, dOut>>

\* A slip: the end of the input is taken for the end of the stream.
DecEndIsFinal ==
  /\ dPc = "body"
  /\ DecReturn("ok")
  /\ UNCHANGED <<dSeq, dTotal, dOut>>

\* A slip: at the end of its input the loop waits for more.
DecWaitsAtEnd ==
  /\ dPc = "body"
  /\ UNCHANGED dVars

\* The input ends before a FINAL frame, or reading or writing fails; a write
\* that fails after it has taken the chunk is DecData and then this.
DecMissingFinal ==
  /\ dPc = "body"
  /\ DecReturn("error")
  /\ UNCHANGED <<dSeq, dTotal, dOut>>

DecTypeOK ==
  /\ dPc      \in {"header", "body", "ok", "error", "downgrade"}
  /\ dHandles \in Bundle
  /\ dMin     \in Minimums
  /\ dHeader  \in Header \cup {None}
  /\ dKey     \in RootKey \cup {None}
  /\ dSeq     \in 0..MaxFrames
  /\ dTotal   \in 0..MaxPlain
  /\ dOut     \in Seq(Chunk)
  /\ dKeyBuf  \in {"none", "live", "wiped"}
=============================================================================
