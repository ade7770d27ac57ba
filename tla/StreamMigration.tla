--------------------------- MODULE StreamMigration --------------------------
(***************************************************************************)
(* encrypt_stream(), migrate_stream() and decrypt_stream() over one medium.*)
(*                                                                         *)
(* When Faulty, migrator and decryptor are each offered any header and any *)
(* frame that can be built from what either writer has written, as in      *)
(* StreamChannel.  Otherwise the migrator reads the output of Source and   *)
(* the decryptor that of the migrator, both from the start, while they are *)
(* being written.                                                          *)
(***************************************************************************)
EXTENDS StreamEncrypt, StreamMigrate, StreamDecrypt

CONSTANTS Source, Lengths

ASSUME SourceAssumption  == Source \in Stream \ {Target}
ASSUME LengthsAssumption == Lengths \subseteq Nat

vars == <<eVars, mVars, dVars>>

Init == EncInit /\ MigInit /\ DecInit

-----------------------------------------------------------------------------
\* The output of a call, be it encrypt_stream()'s or migrate_stream()'s.
HeaderOf(s) == IF s = Target THEN mNewHeader ELSE eHeader[s]
BundleOf(s) == IF s = Target THEN mNewBundle ELSE eBundle[s]
OutputOf(s) == IF s = Target THEN mOut ELSE wire[s]

Returned(pc) == pc \notin {"idle", "header", "body"}
PcOf(s) == IF s = Target THEN mPc ELSE ePc[s]

\* The medium: what a reader of the output of s, at frame number n, is offered.
AllWritten ==
  UNION {{OutputOf(s)[i].ct : i \in {j \in 1..Len(OutputOf(s)) : OutputOf(s)[j].whole}} :
           s \in Stream}

HeadersOffered(s) ==
  IF Faulty
  THEN {h \in Header : HeaderOf(h.comps.call) # None}
  ELSE {HeaderOf(s)} \ {None}

FramesOffered(s, n) ==
  IF Faulty
  THEN [type : FrameType, len : Lengths, ct : AllWritten \cup {Garbage},
        whole : BOOLEAN]
  ELSE {OutputOf(s)[i] : i \in {n + 1} \cap 1..Len(OutputOf(s))}

EndOffered(s, n) == ~Faulty => Returned(PcOf(s)) /\ n >= Len(OutputOf(s))

MoreOffered(s, n, more) ==
  IF more THEN ~Faulty => n < Len(OutputOf(s)) ELSE EndOffered(s, n)

HeaderMissing(s) == ~Faulty => Returned(PcOf(s)) /\ HeaderOf(s) = None

-----------------------------------------------------------------------------
Encrypt(s) == EncNext(s) /\ UNCHANGED <<mVars, dVars>>

Migrate ==
  /\ \/ HeaderMissing(Source) /\ MigUnreadable
     \/ \E h \in HeadersOffered(Source) :
           \/ MigOpen(h) \/ MigDowngrade(h) \/ MigRefuse(h, Faulty)
           \/ Faulty /\ MigSetupFails(h)
     \/ \E f \in FramesOffered(Source, mSeq) :
           \/ MigData(f)
           \/ \E more \in BOOLEAN :
                 MoreOffered(Source, mSeq + 1, more) /\ MigFinal(f, more)
           \/ MigBadFrame(f)
           \/ Faulty /\ MigWriteFails(f)
     \/ EndOffered(Source, mSeq) /\ MigMissingFinal
  /\ UNCHANGED <<eVars, dVars>>

Decrypt ==
  /\ \/ HeaderMissing(Target) /\ DecUnreadable
     \/ \E h \in HeadersOffered(Target) :
           DecOpen(h) \/ DecDowngrade(h) \/ DecRefuse(h, Faulty)
     \/ \E f \in FramesOffered(Target, dSeq) :
           \/ DecData(f)
           \/ \E more \in BOOLEAN :
                 MoreOffered(Target, dSeq + 1, more) /\ DecFinal(f, more)
           \/ DecBadFrame(f)
     \/ EndOffered(Target, dSeq) /\ DecMissingFinal
  /\ UNCHANGED <<eVars, mVars>>

Next == Migrate \/ Decrypt \/ \E s \in Stream \ {Target} : Encrypt(s)

Spec == Init /\ [][Next]_vars

\* Every call that has begun runs until it returns.
Running(s) == ePc[s] = "body" /\ Encrypt(s)

FairSpec ==
  /\ Spec
  /\ WF_vars(Migrate) /\ WF_vars(Decrypt)
  /\ \A s \in Stream \ {Target} : WF_vars(Running(s))

-----------------------------------------------------------------------------
TypeOK == EncTypeOK /\ MigTypeOK /\ DecTypeOK

\* The writer whose key and header a reader works with, if there is one.
OriginOf(key, header) ==
  IF /\ key # None
     /\ HeaderOf(key.comps.call) = header
     /\ BundleOf(key.comps.call) # None
     /\ KeyFor(BundleOf(key.comps.call), key.comps.call) = key
  THEN key.comps.call ELSE None

MigOrigin == OriginOf(mOldKey, mOldHeader)

\* The encryptor at the far end of what the decryptor reads, through the
\* migrator if that is whose output it reads.
EndToEnd ==
  LET o == OriginOf(dKey, dHeader) IN IF o = Target THEN MigOrigin ELSE o

\* The migrated stream and its source never share a root key and nonce, though
\* both number their frames from 0 and may draw the same base nonce.
NonceUnique ==
  \A s, t \in Stream : \A i \in 1..Len(OutputOf(s)), j \in 1..Len(OutputOf(t)) :
     (/\ OutputOf(s)[i].ct.key   = OutputOf(t)[j].ct.key
      /\ OutputOf(s)[i].ct.nonce = OutputOf(t)[j].ct.nonce) => (s = t /\ i = j)

\* The output of a migration that returned is, frame for frame, what
\* encrypt_stream() would have written of the same chunks under the new key:
\* as many DATA frames as the source has, then FINAL with the next number.
MigratedComplete ==
  mPc = "ok" =>
     /\ MigOrigin # None
     /\ ended[MigOrigin]
     /\ LET p == plain[MigOrigin] IN
          mOut = [i \in 1..Len(p) |-> DataFrame(NewKey, mNewHeader, i - 1, p[i])]
                   \o <<FinalFrame(NewKey, mNewHeader, Len(p))>>

\* Nothing is migrated out of a stream that was encapsulated, whatever its
\* header says, under a weaker profile than the min_profile of the migration:
\* a migration cannot be used to launder a downgraded stream.
MigrationHonoursMinimum ==
  mOut # <<>> /\ mMin # None =>
     /\ MigOrigin # None
     /\ Strength[eBundle[MigOrigin].profile] >= Strength[mMin]

\* Every exit of the loop, normal or not, has zeroized both key buffers; and a
\* call that returns with a key in one has raised in its set-up, before it wrote
\* a frame, and was not turned away by min_profile.
LoopBuffersWiped ==
  Returned(mPc) =>
     /\ mOldKey # None => mOldBuf = "wiped" /\ mNewBuf = "wiped"
     /\ "live" \in {mOldBuf, mNewBuf} => mPc = "error" /\ mOut = <<>>

-----------------------------------------------------------------------------
\* With a medium that only delivers: a migrator given what Source writes, and
\* a decryptor given what the migrator writes, accept it.
Matching ==
  /\ eHeader[Source] # None
  /\ mHandles = eBundle[Source] /\ MeetsMinimum(eHeader[Source], mMin)
  /\ mNewHeader # None =>
       dHandles = mNewBundle /\ MeetsMinimum(mNewHeader, dMin)

\* Migrating a stream does not take it over any limit of the decryptor.
MigratedAccepted ==
  (mPc \in {"error", "downgrade"} \/ dPc \in {"error", "downgrade"}) =>
     ~Matching \/ PcOf(Source) = "failed"

\* The three run as a pipeline: if the encryptor ends, so do the others.
EventuallyMigrated ==
  (ePc[Source] = "body" /\ Matching)
     ~> ((mPc = "ok" /\ (Matching => dPc = "ok")) \/ ePc[Source] = "failed")

\* Every call returns, whatever its arguments: no loop can run on, or wait for
\* ever for one that has stopped.
EventuallyReturned ==
  (ePc[Source] = "body") ~> (\A pc \in {ePc[Source], mPc, dPc} : Returned(pc))

-----------------------------------------------------------------------------
\* End to end the three still implement the abstract channel.
Verdict == CASE dPc \in {"header", "body"}     -> "open"
             [] dPc = "ok"                     -> "accepted"
             [] dPc \in {"error", "downgrade"} -> "rejected"

Abstract == INSTANCE AuthenticChannel
  WITH sent <- plain, closed <- ended, from <- EndToEnd, got <- dOut, verdict <- Verdict

Refines == Abstract!Spec

-----------------------------------------------------------------------------
\* What the documentation says and the code does not do.

\* SECURITY_HARDENING.md: key buffers are zeroized on success and on
\* exception paths alike.
MigrationBuffersWiped ==
  Returned(mPc) => mOldBuf # "live" /\ mNewBuf # "live"

\* migrate_stream()'s docstring: if migration fails, the output is partially
\* written, so it holds no complete stream.
FailedMigrationPartial ==
  mPc = "error" =>
     \A i \in 1..Len(mOut) : ~(mOut[i].whole /\ mOut[i].type = "FINAL")
=============================================================================
