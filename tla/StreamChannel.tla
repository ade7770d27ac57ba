---------------------------- MODULE StreamChannel ---------------------------
(***************************************************************************)
(* encrypt_stream() calls, a medium, and one decrypt_stream() call.        *)
(*                                                                         *)
(* The decryptor is offered any header over the components of a call that *)
(* has started, any frame built from a ciphertext written so far or from   *)
(* garbage, under any type, length and cut, and the end of its input at    *)
(* any moment: frames and headers are lost, repeated, reordered, torn,     *)
(* mixed between streams and rewritten.  StreamMigration has the medium    *)
(* that only delivers.                                                     *)
(***************************************************************************)
EXTENDS StreamEncrypt, StreamDecrypt

CONSTANT Lengths   \* the length fields the medium may put on a frame

ASSUME LengthsAssumption == Lengths \subseteq Nat

vars == <<eVars, dVars>>

Init == EncInit /\ DecInit

-----------------------------------------------------------------------------
\* The medium.
EncReturned(s) == ePc[s] \in {"done", "failed", "refused"}

HeadersOffered == {h \in Header : eHeader[h.comps.call] # None}

FramesOffered ==
  [type : FrameType, len : Lengths, ct : Written \cup {Garbage}, whole : BOOLEAN]

-----------------------------------------------------------------------------
Encrypt(s) == EncNext(s) /\ UNCHANGED dVars

Decrypt ==
  /\ \/ DecUnreadable
     \/ \E h \in HeadersOffered :
           DecOpen(h) \/ DecDowngrade(h) \/ DecRefuse(h, TRUE)
     \/ \E f \in FramesOffered :
           \/ DecData(f)
           \/ \E more \in BOOLEAN : DecFinal(f, more)
           \/ DecBadFrame(f)
     \/ DecMissingFinal
  /\ UNCHANGED eVars

Next == Decrypt \/ \E s \in Stream : Encrypt(s)

Spec == Init /\ [][Next]_vars

-----------------------------------------------------------------------------
TypeOK == EncTypeOK /\ DecTypeOK

\* The call whose key and header the decryptor works with, if there is one.
Origin ==
  IF /\ dKey # None
     /\ eHeader[dKey.comps.call] = dHeader
     /\ EncKey(dKey.comps.call) = dKey
  THEN dKey.comps.call ELSE None

\* No two AES-GCM calls under one root key use one nonce: a ciphertext written
\* twice at all is the same frame of the same stream.  The nonce of a frame is
\* built from 8 random bytes that two streams may share, and the FINAL frame
\* takes its number from the same counter as the DATA frames.
NonceUnique ==
  \A s, t \in Stream : \A i \in 1..Len(wire[s]), j \in 1..Len(wire[t]) :
     (/\ wire[s][i].ct.key   = wire[t][j].ct.key
      /\ wire[s][i].ct.nonce = wire[t][j].ct.nonce) => (s = t /\ i = j)

\* Whatever the medium does, the decryptor has written a prefix, from the
\* first chunk on, of what one encryptor read: the encryptor whose header it
\* was given and whose recipient it is.
PrefixIntegrity ==
  dOut # <<>> =>
    /\ Origin # None
    /\ Len(dOut) <= Len(plain[Origin])
    /\ \A i \in 1..Len(dOut) : dOut[i] = plain[Origin][i]

\* A decrypt_stream() that returns has written all of an input that ended:
\* never a truncated one, one cut by a limit, or one still being written.
CompleteOnSuccess ==
  dPc = "ok" => /\ Origin # None
                /\ ended[Origin]
                /\ dOut = plain[Origin]

\* If any plaintext came out, the profile the sender encapsulated under, which
\* is not the one the header on the wire claims, is no weaker than min_profile.
DowngradeHonoured ==
  (dOut # <<>> \/ dPc = "ok") =>
     \E s \in Stream :
        /\ eBundle[s] # None
        /\ s = Origin
        /\ dMin = None \/ Strength[eBundle[s].profile] >= Strength[dMin]

\* Every exit from either function, normal or not, has zeroized its key buffer.
KeyBuffersWiped ==
  /\ \A s \in Stream : EncReturned(s) => eKeyBuf[s] # "live"
  /\ dPc # "body" => dKeyBuf # "live"

-----------------------------------------------------------------------------
\* The inductive invariant: what NonceUnique, PrefixIntegrity and the others
\* rest on.  Beside EncInv, it relates what the decryptor holds to what the
\* encryptors have done.

\* The decryptor's key and header are those of encryptor s.
ReadsFrom(s) == eHeader[s] = dHeader /\ eBundle[s] # None /\ EncKey(s) = dKey

OutInv ==
  /\ dSeq = Len(dOut)
  /\ dPc = "header" => dOut = <<>> /\ dKeyBuf = "none" /\ dKey = None
  /\ dKey # None => eHeader[dKey.comps.call] # None
  /\ dPc \in {"body", "ok"} =>
       /\ dHeader \in Header /\ dKey \in RootKey
       /\ dHeader.nonce \in BaseNonce
  /\ (dOut # <<>> \/ dPc \in {"body", "ok"}) => MeetsMinimum(dHeader, dMin)
  /\ dPc \notin {"body", "header"} => dKeyBuf \in {"none", "wiped"}
  /\ dOut # <<>> \/ dPc = "ok" =>
       \E s \in Stream :
          /\ ReadsFrom(s)
          /\ Len(dOut) <= Len(plain[s])
          /\ \A i \in 1..Len(dOut) : dOut[i] = plain[s][i]
          /\ dPc = "ok" => ended[s] /\ Len(dOut) = Len(plain[s])

IInv == EncInv /\ DecTypeOK /\ OutInv

-----------------------------------------------------------------------------
\* The abstract channel this one implements.
Verdict == CASE dPc \in {"header", "body"}     -> "open"
             [] dPc = "ok"                     -> "accepted"
             [] dPc \in {"error", "downgrade"} -> "rejected"

Abstract == INSTANCE AuthenticChannel
  WITH sent <- plain, closed <- ended, from <- Origin, got <- dOut, verdict <- Verdict

Refines == Abstract!Spec
=============================================================================
