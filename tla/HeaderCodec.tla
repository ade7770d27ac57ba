------------------------------ MODULE HeaderCodec ---------------------------
(***************************************************************************)
(* The bytes of a header: CryptoflexHeader.to_bytes() and _parse().  A     *)
(* byte is a number below Base, which is 256 in the code, so that the      *)
(* limits of the length fields can be reached by short strings.  An        *)
(* identifier is the UTF-8 bytes of its string.                            *)
(***************************************************************************)
EXTENDS Naturals, SequencesExt

CONSTANTS
  Base,       \* 256
  Magic,      \* b"CFLX"
  NonceLen,   \* NONCE_LEN
  NeverUtf8,  \* the bytes that no UTF-8 string has
  None        \* the nonce of a version 1 header

Byte   == 0..(Base - 1)
Bytes  == Seq(Byte)
Wide   == Base * Base    \* what a two-byte length can hold, and one more

FormatVersion     == 2
SupportedVersions == {1, 2}

ASSUME BaseAssumption   == Base \in Nat /\ Base > FormatVersion
ASSUME LayoutAssumption ==
  Magic \in Bytes /\ NonceLen \in Nat \ {0} /\ NeverUtf8 \subseteq Byte /\ None \notin Bytes

\* CryptoflexHeader, its components in the order of the profile.
Header == [version : SupportedVersions, profile : Bytes,
           comps : Seq([alg : Bytes, ct : Bytes]), nonce : Bytes \cup {None}]

-----------------------------------------------------------------------------
\* One field after its length, in one byte or in two.
Short(b) == <<Len(b)>> \o b

\* Slips: the two bytes of the length in the wrong order; the low one unmasked.
LongLittle(b)   == <<Len(b) % Base, Len(b) \div Base>> \o b
LongUnmasked(b) == <<Len(b) \div Base, Len(b)>> \o b

Long(b) == <<Len(b) \div Base, Len(b) % Base>> \o b

\* to_bytes() raises ValueError on anything else.
Encodable(h) ==
  /\ h.version \in SupportedVersions
  /\ Len(h.profile) < Base
  /\ Len(h.comps) < Base
  /\ \A i \in 1..Len(h.comps) : Len(h.comps[i].alg) < Base /\ Len(h.comps[i].ct) < Wide
  /\ h.version >= 2 => h.nonce # None /\ Len(h.nonce) = NonceLen

ToBytes(h) ==
  Magic \o <<h.version>> \o Short(h.profile) \o <<Len(h.comps)>>
    \o FlattenSeq([i \in 1..Len(h.comps) |-> Short(h.comps[i].alg) \o Long(h.comps[i].ct)])
    \o (IF h.version >= 2 THEN h.nonce ELSE <<>>)

-----------------------------------------------------------------------------
\* data[at : at + n], where the caller has checked that it is all there.
Slice(data, at, n) == SubSeq(data, at + 1, at + n)

\* bytes.decode("utf-8") does not raise.
Decodes(b) == \A i \in 1..Len(b) : b[i] \notin NeverUtf8

\* A parse in progress: whether it has failed, its offset, what it has found.
Failed == [ok |-> FALSE, at |-> 0, comps |-> <<>>]

\* A slip: a ciphertext that is cut short is taken as it is.
ParseComponentShortened(data, st) ==
  LET algEnd == st.at + 1 + data[st.at + 1]
      alg    == Slice(data, st.at + 1, data[st.at + 1])
      ctEnd  == algEnd + 2 + data[algEnd + 1] * Base + data[algEnd + 2]
      end    == IF ctEnd <= Len(data) THEN ctEnd ELSE Len(data)
  IN IF st.ok /\ st.at < Len(data) /\ algEnd + 2 <= Len(data)
     THEN [ok |-> TRUE, at |-> end, comps |->
             Append(st.comps, [alg |-> alg, ct |-> Slice(data, algEnd + 2, end - algEnd - 2)])]
     ELSE Failed

\* One turn of the loop over num_components.
ParseComponent(data, st) ==
  LET algEnd == st.at + 1 + data[st.at + 1]
      alg    == Slice(data, st.at + 1, data[st.at + 1])
      ctEnd  == algEnd + 2 + data[algEnd + 1] * Base + data[algEnd + 2]
  IN IF /\ st.ok
        /\ st.at < Len(data)
        /\ algEnd <= Len(data)
        /\ Decodes(alg)
        /\ alg # <<>>
        /\ \A i \in 1..Len(st.comps) : st.comps[i].alg # alg
        /\ algEnd + 2 <= Len(data)
        /\ ctEnd <= Len(data)
     THEN [ok |-> TRUE, at |-> ctEnd, comps |->
             Append(st.comps, [alg |-> alg, ct |-> Slice(data, algEnd + 2, ctEnd - algEnd - 2)])]
     ELSE Failed

\* The loop, from offset `at' on.
ParseComponents(data, at, num) ==
  LET state[i \in 0..num] ==
        IF i = 0 THEN [ok |-> TRUE, at |-> at, comps |-> <<>>]
                 ELSE ParseComponent(data, state[i - 1])
  IN state[num]

Refused == [ok |-> FALSE, header |-> None, consumed |-> 0]

\* from_bytes(): a header and how many bytes it took, or HeaderParseError.
Parse(data) ==
  LET at      == Len(Magic) + 2
      version == data[at - 1]
      profEnd == at + data[at]
      profile == Slice(data, at, data[at])
      comps   == ParseComponents(data, profEnd + 1, data[profEnd + 1])
      end     == comps.at + (IF version >= 2 THEN NonceLen ELSE 0)
  IN IF /\ Len(data) >= at
        /\ SubSeq(data, 1, Len(Magic)) = Magic
        /\ version \in SupportedVersions
        /\ profEnd <= Len(data)
        /\ Decodes(profile)
        /\ profile # <<>>
        /\ profEnd < Len(data)
        /\ data[profEnd + 1] # 0
        /\ comps.ok
        /\ end <= Len(data)
     THEN [ok |-> TRUE, consumed |-> end, header |->
             [version |-> version, profile |-> profile, comps |-> comps.comps,
              nonce |-> IF version >= 2 THEN Slice(data, comps.at, NonceLen) ELSE None]]
     ELSE Refused
=============================================================================
