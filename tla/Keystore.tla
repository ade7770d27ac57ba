------------------------------- MODULE Keystore -----------------------------
(***************************************************************************)
(* export_keyset_bytes() and import_keyset_bytes() of keystore.py, called  *)
(* by threads of one process, which share the semaphore around the         *)
(* memory-hard key derivation.                                             *)
(*                                                                         *)
(* A salt is the call that drew it.  What AES-GCM sealed is the record of  *)
(* the key, the associated data and the payload, which opens under the     *)
(* same key and data only.                                                 *)
(***************************************************************************)
EXTENDS Profiles, FiniteSets

CONSTANTS
  Call,      \* the calls; each is made once
  Limit,     \* the permits of _KDF_SEMAPHORE
  Password,  \* the passwords callers give
  Empty,     \* the empty one
  KeySets,   \* the key sets callers export
  Foreign,   \* keystores that another program made, knowing a password
  Unknown,   \* what is not the name of a profile, an algorithm or a magic
  None       \* nothing

Kdf == {"argon2id", "scrypt"}

\* A private handle, and which key of which algorithm it holds.
Handle == [alg : Alg, id : Nat]
Item   == [label : Alg \cup {Unknown}, alg : Alg \cup {Unknown}, id : Nat]

KeySet  == [profile : ProfileId, bundle : ProfileId, pubs : Seq(Alg),
            handles : Seq(Handle)]
Payload == [profile : ProfileId \cup {Unknown}, bundle : ProfileId \cup {Unknown},
            pubs : Seq(Alg \cup {Unknown}), items : Seq(Item)]

\* A keystore names its derivation by its magic; `size' is what the bounds on
\* its length see.
Sealed   == [password : Password, salt : Call \cup {None}, kdf : Kdf, aad : Kdf,
             payload : Payload]
Keystore == [size : {"short", "proper", "over"}, magic : Kdf \cup {Unknown},
             salt : Call \cup {None}, sealed : Sealed \cup {None}]

ASSUME CallAssumption     == IsFiniteSet(Call) /\ Limit \in Nat \ {0} /\ Empty \in Password
ASSUME KeySetsAssumption  == KeySets \subseteq KeySet
ASSUME ForeignAssumption  ==
  Foreign \subseteq Keystore /\ \A k \in Foreign : k.salt = None
ASSUME DistinctAssumption ==
  /\ Unknown \notin ProfileId \cup Alg \cup Kdf
  /\ None \notin Call \cup KeySet \cup Keystore \cup Sealed

VARIABLES
  permits, \* the value of the semaphore
  pqc,     \* the post-quantum sources that can be used now
  outage,  \* history: whether they were ever not all there
  pc,      \* "idle", "waiting", "deriving", "derived", "returned" or an error
  arg,     \* the arguments of each call
  key,     \* wrapping_key_buf: "unset", "live" or "wiped"
  result   \* what it returned

vars == <<permits, pqc, outage, pc, arg, key, result>>

gate    == <<permits>>
sources == <<pqc, outage>>

Argument == [op : {"export"}, keyset : KeySet, password : Password, kdf : Kdf] \cup
            [op : {"import"}, blob : Keystore, password : Password]

Error == {"ValueError", "RuntimeError", "DecryptionError", "MemoryError"}

State == {"idle", "waiting", "deriving", "derived", "returned"} \cup Error

Init ==
  /\ permits = Limit
  /\ pqc     = Pqc
  /\ outage  = FALSE
  /\ pc      = [c \in Call |-> "idle"]
  /\ arg     = [c \in Call |-> None]
  /\ key     = [c \in Call |-> "unset"]
  /\ result  = [c \in Call |-> None]

\* The key sets that establish_keys() makes.
IsGenuine(keyset) ==
  /\ keyset.bundle = keyset.profile
  /\ keyset.pubs = Sources[keyset.profile]
  /\ [i \in 1..Len(keyset.handles) |-> keyset.handles[i].alg] = keyset.pubs

-----------------------------------------------------------------------------
\* What an export puts in a keystore: its handles, labelled with the profile's
\* sources; zip() drops what has no partner.
Wrapped(keyset) ==
  LET n == IF Len(keyset.handles) < Len(Sources[keyset.profile])
           THEN Len(keyset.handles) ELSE Len(Sources[keyset.profile])
  IN [profile |-> keyset.profile, bundle |-> keyset.bundle, pubs |-> keyset.pubs,
      items |-> [i \in 1..n |-> [label |-> Sources[keyset.profile][i],
                                 alg   |-> keyset.handles[i].alg,
                                 id    |-> keyset.handles[i].id]]]

\* A slip: the counts are not compared.
ExportableUncounted(keyset) == keyset.profile = keyset.bundle

Exportable(keyset) ==
  /\ keyset.profile = keyset.bundle
  /\ Len(keyset.pubs) = Len(Sources[keyset.profile])
  /\ Len(keyset.handles) = Len(Sources[keyset.profile])

\* serialize_private(): liboqs must be there, and give out keys of any of its
\* algorithms; an X25519 handle is no KEM handle.
Serializable(keyset) ==
  \A i \in 1..Len(keyset.handles) :
     i <= Len(Sources[keyset.profile]) =>
        /\ Usable(Sources[keyset.profile][i], pqc)
        /\ keyset.handles[i].alg \in Pqc <=> Sources[keyset.profile][i] \in Pqc

Become(c, state) == pc' = [pc EXCEPT ![c] = state]

Export(c, keyset, password, kdf) ==
  /\ pc[c] = "idle"
  /\ arg' = [arg EXCEPT ![c] = [op |-> "export", keyset |-> keyset,
                                password |-> password, kdf |-> kdf]]
  /\ Become(c, IF ~Exportable(keyset) THEN "ValueError"
                ELSE IF ~Serializable(keyset) THEN "DecryptionError"
                ELSE IF password = Empty THEN "ValueError" ELSE "waiting")
  /\ UNCHANGED <<gate, sources, key, result>>

Import(c, blob, password) ==
  /\ pc[c] = "idle"
  /\ arg' = [arg EXCEPT ![c] = [op |-> "import", blob |-> blob, password |-> password]]
  /\ Become(c, IF blob.size # "proper" \/ blob.magic \notin Kdf THEN "DecryptionError"
                ELSE IF password = Empty THEN "ValueError" ELSE "waiting")
  /\ UNCHANGED <<gate, sources, key, result>>

-----------------------------------------------------------------------------
\* _derive_wrapping_key().

Acquire(c) ==
  /\ pc[c] = "waiting"
  /\ permits > 0
  /\ permits' = permits - 1
  /\ Become(c, "deriving")
  /\ UNCHANGED <<sources, arg, key, result>>

\* Thirty seconds have passed, and there is still no permit.
TimeOut(c) ==
  /\ pc[c] = "waiting"
  /\ permits = 0
  /\ Become(c, "RuntimeError")
  /\ UNCHANGED <<gate, sources, arg, key, result>>

\* A slip: no finally clause.
DeriveKeepsPermit(c) ==
  /\ pc[c] = "deriving"
  /\ \/ /\ Become(c, "derived")
        /\ key' = [key EXCEPT ![c] = "live"]
        /\ permits' = permits + 1
     \/ Become(c, "MemoryError") /\ UNCHANGED <<key, permits>>
  /\ UNCHANGED <<sources, arg, result>>

\* The derivation returns or raises, and the permit is given back.
Derive(c) ==
  /\ pc[c] = "deriving"
  /\ permits' = permits + 1
  /\ \/ /\ Become(c, "derived")
        /\ key' = [key EXCEPT ![c] = "live"]
     \/ Become(c, "MemoryError") /\ UNCHANGED key
  /\ UNCHANGED <<sources, arg, result>>

-----------------------------------------------------------------------------
Return(c, value) ==
  /\ Become(c, "returned")
  /\ result' = [result EXCEPT ![c] = value]

\* A slip: the associated data is always the default's magic.
SealOneMagic(c) ==
  /\ pc[c] = "derived" /\ arg[c].op = "export"
  /\ Return(c, [size |-> "proper", magic |-> arg[c].kdf, salt |-> c,
                sealed |-> [password |-> arg[c].password, salt |-> c,
                            kdf |-> arg[c].kdf, aad |-> "argon2id",
                            payload |-> Wrapped(arg[c].keyset)]])
  /\ key' = [key EXCEPT ![c] = "wiped"]
  /\ UNCHANGED <<gate, sources, arg>>

\* A slip: the key is wiped after a success only.
SealKeepsKey(c) ==
  /\ pc[c] = "derived" /\ arg[c].op = "export"
  /\ \/ /\ Return(c, [size |-> "proper", magic |-> arg[c].kdf, salt |-> c,
                      sealed |-> [password |-> arg[c].password, salt |-> c,
                                  kdf |-> arg[c].kdf, aad |-> arg[c].kdf,
                                  payload |-> Wrapped(arg[c].keyset)]])
        /\ key' = [key EXCEPT ![c] = "wiped"]
     \/ Become(c, "MemoryError") /\ UNCHANGED <<key, result>>
  /\ UNCHANGED <<gate, sources, arg>>

\* AES-GCM with the magic as associated data, which may raise; the key is wiped
\* whether it does or not.
Seal(c) ==
  /\ pc[c] = "derived" /\ arg[c].op = "export"
  /\ key' = [key EXCEPT ![c] = "wiped"]
  /\ \/ Return(c, [size |-> "proper", magic |-> arg[c].kdf, salt |-> c,
                   sealed |-> [password |-> arg[c].password, salt |-> c,
                               kdf |-> arg[c].kdf, aad |-> arg[c].kdf,
                               payload |-> Wrapped(arg[c].keyset)]])
     \/ Become(c, "MemoryError") /\ UNCHANGED result
  /\ UNCHANGED <<gate, sources, arg>>

\* The wrapping key of a keystore opens what was sealed under the same password,
\* salt and derivation, with its magic as associated data.
Opens(blob, password) ==
  /\ blob.sealed # None
  /\ blob.sealed.password = password
  /\ blob.sealed.salt = blob.salt
  /\ blob.sealed.kdf = blob.magic
  /\ blob.sealed.aad = blob.magic

\* A slip: zip() compares as many components as there are.
WellFormedPrefix(payload) ==
  /\ payload.profile \in ProfileId
  /\ payload.bundle = payload.profile
  /\ \A i \in 1..Len(payload.items) :
        /\ i <= Len(Sources[payload.profile]) /\ i <= Len(payload.pubs)
        /\ Sources[payload.profile][i] = payload.items[i].label
        /\ Sources[payload.profile][i] = payload.pubs[i]
        /\ payload.items[i].alg = payload.items[i].label

\* The checks of an opened payload (an object with all its fields), deserialize_private()'s of the length of a
\* private key included.
WellFormed(payload) ==
  /\ payload.profile \in ProfileId
  /\ payload.bundle = payload.profile
  /\ Len(payload.items) = Len(Sources[payload.profile])
  /\ Len(payload.pubs) = Len(Sources[payload.profile])
  /\ \A i \in 1..Len(payload.items) :
        /\ Sources[payload.profile][i] = payload.items[i].label
        /\ Sources[payload.profile][i] = payload.pubs[i]
        /\ payload.items[i].alg = payload.items[i].label

Unwrapped(payload) ==
  [profile |-> payload.profile, bundle |-> payload.bundle, pubs |-> payload.pubs,
   handles |-> [i \in 1..Len(payload.items) |->
                  [alg |-> payload.items[i].alg, id |-> payload.items[i].id]]]

\* A slip: what does not open is tried with the other derivation.
UnsealTriesAgain(c) ==
  /\ pc[c] = "derived" /\ arg[c].op = "import"
  /\ key' = [key EXCEPT ![c] = "wiped"]
  /\ IF Opens(arg[c].blob, arg[c].password)
     THEN /\ Return(c, Unwrapped(arg[c].blob.sealed.payload))
          /\ UNCHANGED arg
     ELSE /\ pc' = [pc EXCEPT ![c] = "waiting"]
          /\ \E kdf \in Kdf \ {arg[c].blob.magic} :
                arg' = [arg EXCEPT ![c].blob.magic = kdf]
          /\ UNCHANGED result
  /\ UNCHANGED <<gate, sources>>

\* The payload is opened and the key wiped; then the payload is checked and its
\* private keys are rebuilt, which takes liboqs.
Unseal(c) ==
  /\ pc[c] = "derived" /\ arg[c].op = "import"
  /\ key' = [key EXCEPT ![c] = "wiped"]
  /\ LET blob == arg[c].blob  payload == arg[c].blob.sealed.payload IN
     IF /\ Opens(blob, arg[c].password)
        /\ WellFormed(payload)
        /\ IsAvailable(payload.profile, pqc)
     THEN Return(c, Unwrapped(payload))
     ELSE Become(c, "DecryptionError") /\ UNCHANGED result
  /\ UNCHANGED <<gate, sources, arg>>

-----------------------------------------------------------------------------
\* The keystores an import may be given: what exports returned and what other
\* programs made, as it is, cut, padded, or with another magic or salt.
Stored == {result[c] : c \in {x \in Call : result[x] \in Keystore}} \cup Foreign

Offered ==
  Stored \cup
  UNION {{[k EXCEPT !.size = "short", !.sealed = None], [k EXCEPT !.size = "over"],
          [k EXCEPT !.sealed = None]}
           \cup {[k EXCEPT !.magic = m] : m \in Kdf \cup {Unknown}}
           \cup {[k EXCEPT !.salt = s.salt] : s \in Stored} : k \in Stored}

Start(c) ==
  \/ \E s \in KeySets, w \in Password, f \in Kdf : Export(c, s, w, f)
  \/ \E b \in Offered, w \in Password : Import(c, b, w)

\* The steps of a call that has been made.
Step(c) == Acquire(c) \/ TimeOut(c) \/ Derive(c) \/ Seal(c) \/ Unseal(c)

\* CRYPTOFLEX_DISABLE_PQC is set and unset.
PqcChanges ==
  /\ pqc' = IF pqc = {} THEN Pqc ELSE {}
  /\ outage' = TRUE
  /\ UNCHANGED <<permits, pc, arg, key, result>>

Next == PqcChanges \/ \E c \in Call : Start(c) \/ Step(c)

Spec == Init /\ [][Next]_vars

\* A thread runs until its call returns or raises.
FairSpec == Spec /\ \A c \in Call : WF_vars(Step(c))

-----------------------------------------------------------------------------
TypeOK ==
  /\ permits \in 0..Limit
  /\ pqc \subseteq Pqc /\ outage \in BOOLEAN
  /\ pc \in [Call -> State]
  /\ \A c \in Call : pc[c] # "idle" => arg[c] \in Argument
  /\ key \in [Call -> {"unset", "live", "wiped"}]
  /\ \A c \in Call : result[c] # None => result[c] \in IF arg[c].op = "export"
                                                      THEN Keystore ELSE KeySet

Deriving == {c \in Call : pc[c] = "deriving"}

\* Every permit is in the semaphore or with a thread that is deriving a key,
\* whatever raised before: no more than Limit derivations run at once, and no
\* failure ever takes a permit away.
PermitsConserved == permits + Cardinality(Deriving) = Limit

\* What an import returns is what somebody exported or made under the password
\* it was given, key by key, through every damage to the file: nothing dropped,
\* nothing from another keystore.
ImportFaithful ==
  \A c \in Call : pc[c] = "returned" /\ arg[c].op = "import" =>
     \/ \E e \in Call : /\ pc[e] = "returned" /\ arg[e].op = "export"
                        /\ arg[e].password = arg[c].password
                        /\ result[c] = arg[e].keyset
     \/ \E k \in Foreign : /\ k.sealed # None
                           /\ k.sealed.password = arg[c].password
                           /\ result[c] = Unwrapped(k.sealed.payload)

\* A key set that was imported has exactly the sources of its profile, in order,
\* publicly and privately, even from a keystore this code did not write.
ImportedGenuine ==
  \A c \in Call : pc[c] = "returned" /\ arg[c].op = "import" => IsGenuine(result[c])

\* An untouched keystore of a genuine key set is never taken for a damaged one
\* or for one under another password, if liboqs was there all the time.
RoundTrip ==
  \A c, e \in Call :
     (/\ pc[c] = "DecryptionError" /\ arg[c].op = "import"
      /\ pc[e] = "returned" /\ arg[e].op = "export" /\ IsGenuine(arg[e].keyset)
      /\ arg[c].blob = result[e] /\ arg[c].password = arg[e].password) => outage

\* No call ends, by whatever exception, with its wrapping key in the buffer.
WrappingKeysWiped ==
  \A c \in Call : pc[c] \in {"returned"} \cup Error => key[c] # "live"

\* Every call returns or raises.
EventuallyReturns ==
  \A c \in Call : (pc[c] = "waiting") ~> (pc[c] \in {"returned"} \cup Error)
=============================================================================
