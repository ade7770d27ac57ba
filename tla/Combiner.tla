------------------------------- MODULE Combiner -----------------------------
(***************************************************************************)
(* combine() and combine_from_secrets(): one root key out of the shared    *)
(* secrets, in the order of the profile, and of the encoding of every      *)
(* component.  HKDF is symbolic: its output is the pair of its inputs.     *)
(***************************************************************************)
EXTENDS HeaderCodec

CONSTANT Context  \* DEFAULT_CONTEXT

ASSUME ContextAssumption == Context \in Bytes /\ Len(Context) < Wide

SpecVersion == 2

\* A length in four bytes, big-endian; two bytes are a field of their own.
Long4(n)  == <<0, 0, n \div Base, n % Base>>
Short2(n) == <<n \div Base, n % Base>>

\* Slips: the algorithms are left out; the ciphertexts are.
EncodeInfoUnnamed(comps) ==
  Short2(SpecVersion) \o Context \o Short2(Len(comps))
    \o FlattenSeq([i \in 1..Len(comps) |-> Long4(Len(comps[i].ct)) \o comps[i].ct])

EncodeInfoNames(comps) ==
  Short2(SpecVersion) \o Context \o Short2(Len(comps))
    \o FlattenSeq([i \in 1..Len(comps) |-> Long4(Len(comps[i].alg)) \o comps[i].alg])

\* _encode_info().  The lists are short enough for two of the four bytes.
EncodeInfo(comps) ==
  Short2(SpecVersion) \o Long4(Len(Context)) \o Context \o Short2(Len(comps))
    \o FlattenSeq([i \in 1..Len(comps) |->
         Long4(Len(comps[i].alg)) \o comps[i].alg \o Long4(Len(comps[i].ct)) \o comps[i].ct])

\* Both sides: the algorithms are those of the secrets, checked by the callers.
RootKey(secrets, comps) == [ikm |-> secrets, info |-> EncodeInfo(comps)]
=============================================================================
