---------------------------- MODULE KeystoreProofs --------------------------
(***************************************************************************)
(* What is proved about keystore.py and password_kdf.py, for any number of *)
(* threads, permits, passphrases and root keys.                            *)
(*                                                                         *)
(* The semaphore: only Acquire and Derive change the threads that derive a *)
(* key, by one each, and the permits the other way.  The records: what the *)
(* invariant keeps is where each call's wrapping key, file and result come *)
(* from, from which the four properties of export and import follow.       *)
(***************************************************************************)
EXTENDS Keystore, FiniteSetTheorems, TLAPS

\* What is inductive: the control state and the value of the semaphore have
\* their types, and every permit is accounted for.
GateInv ==
  /\ pc \in [Call -> State]
  /\ permits \in Nat
  /\ PermitsConserved

LEMMA DerivingFinite ==
  IsFiniteSet(Deriving) /\ Cardinality(Deriving) \in Nat
<1>1. Deriving \subseteq Call  BY DEF Deriving
<1>2. IsFiniteSet(Deriving)    BY <1>1, FS_Subset, CallAssumption
<1> QED  BY <1>2, FS_CardinalityType

\* A step that moves no call into or out of the derivation keeps the invariant.
LEMMA GateUntouched ==
  ASSUME GateInv, permits' = permits, pc' \in [Call -> State],
         \A c \in Call : pc'[c] = "deriving" <=> pc[c] = "deriving"
  PROVE  GateInv'
<1>1. Deriving' = Deriving  BY DEF Deriving
<1> QED  BY <1>1 DEF GateInv, PermitsConserved

\* A call that raises, waits or returns outside the derivation.
LEMMA GateSkipped ==
  ASSUME GateInv, NEW c \in Call, NEW s \in State, permits' = permits,
         pc' = [pc EXCEPT ![c] = s], pc[c] # "deriving", s # "deriving"
  PROVE  GateInv'
<1>1. pc' \in [Call -> State]  BY DEF GateInv
<1>2. \A x \in Call : pc'[x] = "deriving" <=> pc[x] = "deriving"
  BY DEF GateInv
<1> QED  BY <1>1, <1>2, GateUntouched

LEMMA AcquireKeeps ==
  ASSUME GateInv, NEW c \in Call, Acquire(c)
  PROVE  GateInv'
<1>1. Deriving' = Deriving \cup {c} /\ c \notin Deriving
  BY DEF GateInv, Acquire, Become, Deriving
<1>2. Cardinality(Deriving') = Cardinality(Deriving) + 1
  BY <1>1, DerivingFinite, FS_AddElement
<1>3. pc' \in [Call -> State] /\ permits' \in Nat /\ permits' = permits - 1
  BY DEF GateInv, Acquire, Become, State
<1> QED  BY <1>2, <1>3, DerivingFinite, CallAssumption DEF GateInv, PermitsConserved

LEMMA DeriveKeeps ==
  ASSUME GateInv, NEW c \in Call, Derive(c)
  PROVE  GateInv'
<1>1. pc' \in [Call -> State] /\ pc'[c] # "deriving"
      /\ \A x \in Call \ {c} : pc'[x] = pc[x]
  BY DEF GateInv, Derive, Become, State, Error
<1>2. Deriving' = Deriving \ {c} /\ c \in Deriving
  BY <1>1 DEF Derive, Deriving
<1>3. Cardinality(Deriving') = Cardinality(Deriving) - 1
  BY <1>2, DerivingFinite, FS_RemoveElement
<1>4. permits' \in Nat /\ permits' = permits + 1
  BY DEF GateInv, Derive
<1> QED  BY <1>1, <1>3, <1>4, DerivingFinite, CallAssumption DEF GateInv, PermitsConserved

LEMMA GateInit == Init => GateInv
<1> SUFFICES ASSUME Init PROVE GateInv
  OBVIOUS
<1>1. pc \in [Call -> State]  BY DEF Init, State
<1>2. Deriving = {}           BY DEF Init, Deriving
<1>3. Cardinality(Deriving) = 0  BY <1>2, FS_EmptySet
<1> QED  BY <1>1, <1>3, CallAssumption DEF Init, GateInv, PermitsConserved

LEMMA GateStep == GateInv /\ [Next]_vars => GateInv'
<1> SUFFICES ASSUME GateInv, [Next]_vars PROVE GateInv'
  OBVIOUS
<1>1. CASE PqcChanges
  BY <1>1, GateUntouched DEF PqcChanges, GateInv
<1>2. CASE \E c \in Call : Start(c)
  <2>1. PICK c \in Call : Start(c)  BY <1>2
  <2>2. CASE \E s \in KeySets, w \in Password, f \in Kdf : Export(c, s, w, f)
    <3>1. /\ pc[c] = "idle" /\ permits' = permits
          /\ \E s \in State : s # "deriving" /\ pc' = [pc EXCEPT ![c] = s]
      BY <2>2 DEF Export, Become, gate, State, Error
    <3> QED  BY <3>1, GateSkipped
  <2>3. CASE \E b \in Offered, w \in Password : Import(c, b, w)
    <3>1. /\ pc[c] = "idle" /\ permits' = permits
          /\ \E s \in State : s # "deriving" /\ pc' = [pc EXCEPT ![c] = s]
      BY <2>3 DEF Import, Become, gate, State, Error
    <3> QED  BY <3>1, GateSkipped
  <2> QED  BY <2>1, <2>2, <2>3 DEF Start
<1>3. CASE \E c \in Call : Step(c)
  <2>1. PICK c \in Call : Step(c)  BY <1>3
  <2>2. CASE Acquire(c)  BY <2>2, AcquireKeeps
  <2>3. CASE Derive(c)   BY <2>3, DeriveKeeps
  <2>4. CASE TimeOut(c)
    <3>1. pc[c] = "waiting" /\ permits' = permits
          /\ pc' = [pc EXCEPT ![c] = "RuntimeError"] /\ "RuntimeError" \in State
      BY <2>4 DEF TimeOut, Become, gate, State, Error
    <3> QED  BY <3>1, GateSkipped
  <2>5. CASE Seal(c)
    <3>1. /\ pc[c] = "derived" /\ permits' = permits
          /\ \E s \in State : s # "deriving" /\ pc' = [pc EXCEPT ![c] = s]
      BY <2>5 DEF Seal, Return, Become, gate, State, Error
    <3> QED  BY <3>1, GateSkipped
  <2>6. CASE Unseal(c)
    <3>1. /\ pc[c] = "derived" /\ permits' = permits
          /\ \E s \in State : s # "deriving" /\ pc' = [pc EXCEPT ![c] = s]
      BY <2>6 DEF Unseal, Become, Return, gate, State, Error
    <3> QED  BY <3>1, GateSkipped
  <2> QED  BY <2>1, <2>2, <2>3, <2>4, <2>5, <2>6 DEF Step
<1>4. CASE UNCHANGED vars
  BY <1>4, GateUntouched DEF vars, GateInv
<1> QED  BY <1>1, <1>2, <1>3, <1>4 DEF Next

\* No failure takes a permit away, and no thread derives a key without one.
THEOREM Conservation == Spec => []PermitsConserved
<1>1. GateInv => PermitsConserved  BY DEF GateInv
<1> QED  BY GateInit, GateStep, <1>1, PTL DEF Spec

\* Never more than Limit memory-hard derivations run at once.
THEOREM AtMostLimit == Spec => [](Cardinality(Deriving) <= Limit)
<1>1. GateInv => Cardinality(Deriving) <= Limit
  BY DerivingFinite, CallAssumption DEF GateInv, PermitsConserved
<1> QED  BY GateInit, GateStep, <1>1, PTL DEF Spec
-----------------------------------------------------------------------------
\* What export and import promise rests on where the sealed part of a keystore
\* comes from: what an import is given was sealed by an export that has
\* returned, or by another program, however the bytes around it were changed.

Exported(e) == pc[e] = "returned" /\ arg[e].op = "export"

SealOf(e) ==
  [password |-> arg[e].password, salt |-> e, kdf |-> arg[e].kdf,
   aad |-> arg[e].kdf, payload |-> Wrapped(arg[e].keyset)]

Origin(sealed) ==
  \/ sealed = None
  \/ \E e \in Call : Exported(e) /\ sealed = SealOf(e)
  \/ \E k \in Foreign : sealed = k.sealed

ExportInv(c) ==
  /\ pc[c] \notin Error => Exportable(arg[c].keyset)
  /\ pc[c] = "returned" =>
       result[c] = [size |-> "proper", magic |-> arg[c].kdf, salt |-> c,
                    sealed |-> SealOf(c)]

ImportInv(c) ==
  LET blob == arg[c].blob IN
  /\ Origin(blob.sealed)
  /\ pc[c] = "returned" =>
       /\ Opens(blob, arg[c].password)
       /\ WellFormed(blob.sealed.payload)
       /\ result[c] = Unwrapped(blob.sealed.payload)
  /\ pc[c] = "DecryptionError" =>
       \/ outage
       \/ blob.size # "proper" \/ blob.magic \notin Kdf
       \/ ~(Opens(blob, arg[c].password) /\ WellFormed(blob.sealed.payload))

\* The wrapping key is in its buffer between the derivation and the end of the
\* AES-GCM call, and no longer.
BufferInv(c) ==
  /\ key[c] = "live" <=> pc[c] = "derived"
  /\ result[c] # None => pc[c] = "returned"

CallInv(c) ==
  /\ BufferInv(c)
  /\ pc[c] # "idle" =>
       /\ arg[c] \in Argument
       /\ arg[c].op = "export" => ExportInv(c)
       /\ arg[c].op = "import" => ImportInv(c)

KeystoreInv ==
  /\ pc \in [Call -> State]
  /\ key \in [Call -> {"unset", "live", "wiped"}]
  /\ arg \in [Call -> Argument \cup {None}]
  /\ result \in [Call -> Keystore \cup KeySet \cup {None}]
  /\ pqc \subseteq Pqc
  /\ outage \in BOOLEAN
  /\ ~outage => pqc = Pqc
  /\ \A c \in Call : CallInv(c)

\* An exported key set that imports give back is the one that went in.
LEMMA SourcesType ==
  ASSUME NEW p \in ProfileId
  PROVE  Sources[p] \in Seq(Alg) /\ Len(Sources[p]) \in 1..2
<1>1. CASE p = "classical_only"   BY <1>1 DEF Sources, Alg
<1>2. CASE p = "hybrid_standard"  BY <1>2 DEF Sources, Alg, Pqc
<1>3. CASE p = "hybrid_high"      BY <1>3 DEF Sources, Alg, Pqc
<1> QED  BY <1>1, <1>2, <1>3 DEF ProfileId

\* A function on 1..n with values in S is a sequence over S of length n.
LEMMA IsASequence ==
  ASSUME NEW S, NEW n \in Nat, NEW f \in [1..n -> S]
  PROVE  f \in Seq(S) /\ Len(f) = n
OBVIOUS

LEMMA WrappedType ==
  ASSUME NEW k \in KeySet, Exportable(k)
  PROVE  /\ Wrapped(k) \in Payload
         /\ Len(Wrapped(k).items) = Len(k.handles)
         /\ \A i \in 1..Len(k.handles) :
               Wrapped(k).items[i] = [label |-> Sources[k.profile][i],
                                      alg   |-> k.handles[i].alg,
                                      id    |-> k.handles[i].id]
<1> DEFINE n == Len(k.handles)
           f == [i \in 1..n |-> [label |-> Sources[k.profile][i],
                                 alg   |-> k.handles[i].alg,
                                 id    |-> k.handles[i].id]]
<1>1. /\ k.profile \in ProfileId /\ k.bundle \in ProfileId /\ k.pubs \in Seq(Alg)
      /\ k.handles \in Seq(Handle)
      /\ n \in Nat /\ Len(Sources[k.profile]) = n
      /\ Sources[k.profile] \in Seq(Alg)
  BY SourcesType DEF KeySet, Exportable
<1>2. Wrapped(k) = [profile |-> k.profile, bundle |-> k.bundle, pubs |-> k.pubs, items |-> f]
  BY <1>1 DEF Wrapped
<1>3. ASSUME NEW i \in 1..n PROVE f[i] \in Item
  <2>1. k.handles[i] \in Handle /\ Sources[k.profile][i] \in Alg
    BY <1>1
  <2> QED
    BY <2>1 DEF Handle, Item
<1>4. f \in Seq(Item) /\ Len(f) = n
  <2>1. f \in [1..n -> Item]
    BY <1>3
  <2> HIDE DEF f
  <2> QED
    BY <1>1, <2>1, IsASequence
<1>5. k.pubs \in Seq(Alg \cup {Unknown})
  BY <1>1
<1>6. /\ Len(Wrapped(k).items) = n
      /\ \A i \in 1..n : Wrapped(k).items[i] = [label |-> Sources[k.profile][i],
                                                alg   |-> k.handles[i].alg,
                                                id    |-> k.handles[i].id]
  BY <1>2, <1>4
<1> HIDE DEF f
<1>7. Wrapped(k) \in Payload
  BY <1>1, <1>2, <1>4, <1>5 DEF Payload
<1> QED
  BY <1>6, <1>7

LEMMA WrapUnwrap ==
  ASSUME NEW k \in KeySet, Exportable(k)
  PROVE  Unwrapped(Wrapped(k)) = k
<1> DEFINE g == [i \in 1..Len(k.handles) |->
                   [alg |-> k.handles[i].alg, id |-> k.handles[i].id]]
<1>1. k.handles \in Seq(Handle)
  BY DEF KeySet
<1>2. g = k.handles
  <2>1. \A i \in 1..Len(k.handles) : k.handles[i] \in Handle
    BY <1>1
  <2>2. \A i \in 1..Len(k.handles) : g[i] = k.handles[i]
    BY <2>1 DEF Handle
  <2>3. k.handles = [i \in 1..Len(k.handles) |-> k.handles[i]]
    BY <1>1
  <2> QED
    BY <2>2, <2>3
<1>3. Unwrapped(Wrapped(k)) = [profile |-> k.profile, bundle |-> k.bundle,
                               pubs |-> k.pubs, handles |-> g]
  <2> DEFINE w == Wrapped(k)
  <2>1. w.profile = k.profile /\ w.bundle = k.bundle /\ w.pubs = k.pubs
    BY DEF Wrapped
  <2>2. /\ Len(w.items) = Len(k.handles)
        /\ \A i \in 1..Len(k.handles) :
              w.items[i].alg = k.handles[i].alg /\ w.items[i].id = k.handles[i].id
    <3>1. \A i \in 1..Len(k.handles) :
             w.items[i] = [label |-> Sources[k.profile][i],
                           alg   |-> k.handles[i].alg,
                           id    |-> k.handles[i].id]
      BY WrappedType
    <3>2. Len(w.items) = Len(k.handles)
      BY WrappedType
    <3>3. ASSUME NEW i \in 1..Len(k.handles)
          PROVE  w.items[i].alg = k.handles[i].alg /\ w.items[i].id = k.handles[i].id
      <4> HIDE DEF w
      <4>1. w.items[i] = [label |-> Sources[k.profile][i], alg |-> k.handles[i].alg,
                          id |-> k.handles[i].id]
        BY <3>1
      <4> QED
        BY <4>1
    <3> QED
      BY <3>2, <3>3
  <2>3. Unwrapped(w) = [profile |-> w.profile, bundle |-> w.bundle, pubs |-> w.pubs,
          handles |-> [i \in 1..Len(w.items) |->
                         [alg |-> w.items[i].alg, id |-> w.items[i].id]]]
    BY DEF Unwrapped
  <2> HIDE DEF w
  <2>4. [i \in 1..Len(w.items) |-> [alg |-> w.items[i].alg, id |-> w.items[i].id]] = g
    BY <2>2
  <2>5. Unwrapped(w) = [profile |-> k.profile, bundle |-> k.bundle,
                        pubs |-> k.pubs, handles |-> g]
    BY <2>1, <2>3, <2>4
  <2> QED
    BY <2>5 DEF w
<1> QED
  BY <1>2, <1>3 DEF KeySet

\* What an import returns is well typed, and genuine whoever made it.
LEMMA UnwrappedGenuine ==
  ASSUME NEW p \in Payload, WellFormed(p)
  PROVE  Unwrapped(p) \in KeySet /\ IsGenuine(Unwrapped(p))
<1> DEFINE src == Sources[p.profile]
           h   == [i \in 1..Len(p.items) |-> [alg |-> p.items[i].alg, id |-> p.items[i].id]]
<1>1. /\ p.profile \in ProfileId /\ p.bundle = p.profile
      /\ p.items \in Seq(Item) /\ p.pubs \in Seq(Alg \cup {Unknown})
      /\ src \in Seq(Alg) /\ Len(p.items) = Len(src) /\ Len(p.pubs) = Len(src)
      /\ Len(src) \in Nat
  BY SourcesType DEF Payload, WellFormed
<1>2. \A i \in 1..Len(src) : /\ p.pubs[i] = src[i] /\ p.items[i].alg = src[i]
                             /\ src[i] \in Alg
  BY <1>1 DEF WellFormed
<1>3. p.pubs = src
  BY <1>1, <1>2
<1>4. ASSUME NEW i \in 1..Len(src) PROVE h[i] \in Handle /\ h[i].alg = src[i]
  <2>1. p.items[i] \in Item
    BY <1>1
  <2> QED
    BY <1>1, <1>2, <2>1 DEF Item, Handle
<1>5. h \in Seq(Handle) /\ Len(h) = Len(src)
  <2>1. h \in [1..Len(src) -> Handle]
    BY <1>1, <1>4
  <2> HIDE DEF h
  <2> QED
    BY <1>1, <2>1, IsASequence
<1>6. [i \in 1..Len(h) |-> h[i].alg] = src
  <2>1. src = [i \in 1..Len(src) |-> src[i]]
    BY <1>1
  <2> QED
    BY <1>4, <1>5, <2>1
<1>7. Unwrapped(p) = [profile |-> p.profile, bundle |-> p.bundle, pubs |-> p.pubs,
                      handles |-> h]
  BY DEF Unwrapped
<1> DEFINE u == Unwrapped(p)
<1> HIDE DEF h
<1>8. u.profile = p.profile /\ u.bundle = p.profile /\ u.pubs = src /\ u.handles = h
  BY <1>1, <1>3, <1>7
<1>9. u \in KeySet
  BY <1>1, <1>3, <1>5, <1>7 DEF KeySet
<1> HIDE DEF u
<1>10. IsGenuine(u)
  BY <1>6, <1>8 DEF IsGenuine
<1> QED
  BY <1>9, <1>10 DEF u

-----------------------------------------------------------------------------
\* The keystores an import may be given.

LEMMA StoredOrigin ==
  ASSUME KeystoreInv, NEW k \in Stored
  PROVE  k \in Keystore /\ Origin(k.sealed)
<1>1. CASE k \in Foreign
  BY <1>1, KeySetsAssumption, ForeignAssumption DEF Origin
<1>2. ASSUME NEW c \in Call, k = result[c], k \in Keystore PROVE Origin(k.sealed)
  <2>1. pc[c] = "returned" /\ CallInv(c)
    BY <1>2, DistinctAssumption DEF KeystoreInv, CallInv, BufferInv
  <2>2. arg[c].op # "import"
    <3> SUFFICES ASSUME arg[c].op = "import" PROVE FALSE
      OBVIOUS
    <3>1. result[c] = Unwrapped(arg[c].blob.sealed.payload)
      BY <2>1 DEF CallInv, ImportInv
    <3>2. DOMAIN result[c] = {"profile", "bundle", "pubs", "handles"}
      BY <3>1 DEF Unwrapped
    <3>3. DOMAIN k = {"size", "magic", "salt", "sealed"}
      BY <1>2 DEF Keystore
    <3> QED
      BY <1>2, <3>2, <3>3
  <2>3. arg[c].op = "export"
    BY <2>1, <2>2 DEF CallInv, Argument
  <2>4. result[c].sealed = SealOf(c)
    BY <2>1, <2>3 DEF CallInv, ExportInv, Error
  <2> QED
    BY <1>2, <2>1, <2>3, <2>4 DEF Origin, Exported
<1> QED
  BY <1>1, <1>2 DEF Stored

LEMMA OfferedOrigin ==
  ASSUME KeystoreInv, NEW b \in Offered
  PROVE  b \in Keystore /\ Origin(b.sealed)
<1>1. CASE b \in Stored
  BY <1>1, StoredOrigin
<1>2. ASSUME NEW k \in Stored,
             b \in {[k EXCEPT !.size = "short", !.sealed = None], [k EXCEPT !.size = "over"],
                    [k EXCEPT !.sealed = None]}
      PROVE  b \in Keystore /\ Origin(b.sealed)
  <2>1. k \in Keystore /\ Origin(k.sealed)
    BY StoredOrigin
  <2>2. b \in Keystore /\ (b.sealed = None \/ b.sealed = k.sealed)
    BY <1>2, <2>1 DEF Keystore
  <2> QED
    BY <2>1, <2>2 DEF Origin
<1>3. ASSUME NEW k \in Stored, NEW m \in Kdf \cup {Unknown}, b = [k EXCEPT !.magic = m]
      PROVE  b \in Keystore /\ Origin(b.sealed)
  <2>1. k \in Keystore /\ Origin(k.sealed)
    BY StoredOrigin
  <2> QED
    BY <1>3, <2>1 DEF Keystore
<1>4. ASSUME NEW k \in Stored, NEW s \in Stored, b = [k EXCEPT !.salt = s.salt]
      PROVE  b \in Keystore /\ Origin(b.sealed)
  <2>1. k \in Keystore /\ Origin(k.sealed) /\ s \in Keystore
    BY StoredOrigin
  <2> QED
    BY <1>4, <2>1 DEF Keystore
<1>5. \/ b \in Stored
      \/ \E k \in Stored :
           \/ b \in {[k EXCEPT !.size = "short", !.sealed = None],
                     [k EXCEPT !.size = "over"], [k EXCEPT !.sealed = None]}
           \/ b \in {[k EXCEPT !.magic = m] : m \in Kdf \cup {Unknown}}
           \/ b \in {[k EXCEPT !.salt = s.salt] : s \in Stored}
  BY DEF Offered
<1> QED
  BY <1>1, <1>2, <1>3, <1>4, <1>5

-----------------------------------------------------------------------------
\* Preservation.  A step of call c leaves the other calls alone, and what an
\* export has returned stays what it is.

Others(c) ==
  \A x \in Call \ {c} : /\ pc'[x] = pc[x] /\ arg'[x] = arg[x]
                        /\ key'[x] = key[x] /\ result'[x] = result[x]

LEMMA OriginStable ==
  ASSUME KeystoreInv, NEW c \in Call, Others(c), pc[c] # "returned",
         NEW sealed, Origin(sealed)
  PROVE  Origin(sealed)'
<1>1. ASSUME NEW e \in Call, Exported(e), sealed = SealOf(e)
      PROVE  Exported(e)' /\ sealed = SealOf(e)'
  <2>1. e # c
    BY <1>1 DEF Exported
  <2> QED
    BY <1>1, <2>1 DEF Others, Exported, SealOf
<1> QED
  BY <1>1 DEF Origin

LEMMA OthersKeep ==
  ASSUME KeystoreInv, NEW c \in Call, Others(c), pc[c] # "returned",
         outage => outage', NEW x \in Call, x # c
  PROVE  CallInv(x)'
<1>1. /\ pc'[x] = pc[x] /\ arg'[x] = arg[x] /\ key'[x] = key[x] /\ result'[x] = result[x]
      /\ CallInv(x)
  BY DEF Others, KeystoreInv
<1>2. SealOf(x)' = SealOf(x)
  BY <1>1 DEF SealOf
<1>3. BufferInv(x)'
  BY <1>1 DEF CallInv, BufferInv
<1>4. ExportInv(x) => ExportInv(x)'
  BY <1>1, <1>2 DEF ExportInv
<1>5. ImportInv(x) => ImportInv(x)'
  BY <1>1, OriginStable DEF ImportInv
<1> QED
  BY <1>1, <1>3, <1>4, <1>5 DEF CallInv

\* The conjuncts of a step that neither starts nor ends a call.
LEMMA SameResult ==
  ASSUME KeystoreInv, NEW c \in Call, NEW s \in State, NEW k \in {"unset", "live", "wiped"},
         pc' = [pc EXCEPT ![c] = s], key' = [key EXCEPT ![c] = k],
         UNCHANGED <<sources, arg, result>>,
         pc[c] \in {"waiting", "deriving", "derived"},
         s \in {"deriving", "derived", "RuntimeError", "MemoryError"},
         k = "live" <=> s = "derived"
  PROVE  KeystoreInv'
<1>1. Others(c) /\ pc'[c] = s /\ key'[c] = k
  BY DEF KeystoreInv, Others
<1>2. ASSUME NEW x \in Call, x # c PROVE CallInv(x)'
  BY <1>1, <1>2, OthersKeep DEF sources
<1>3. CallInv(c)'
  <2>1. arg'[c] = arg[c] /\ result'[c] = result[c] /\ CallInv(c)
    BY DEF KeystoreInv
  <2>2. BufferInv(c)'
    BY <1>1, <2>1 DEF CallInv, BufferInv
  <2>3. ASSUME arg[c].op = "export" PROVE ExportInv(c)'
    BY <1>1, <2>1, <2>3 DEF CallInv, ExportInv, Error
  <2>4. ASSUME arg[c].op = "import" PROVE ImportInv(c)'
    <3>1. Origin(arg[c].blob.sealed)'
      BY <1>1, <2>1, <2>4, OriginStable DEF CallInv, ImportInv
    <3> QED
      BY <1>1, <2>1, <3>1 DEF ImportInv
  <2> QED
    BY <2>1, <2>2, <2>3, <2>4 DEF CallInv
<1>4. /\ pc' \in [Call -> State] /\ key' \in [Call -> {"unset", "live", "wiped"}]
      /\ UNCHANGED <<pqc, outage, arg, result>>
  BY DEF KeystoreInv, sources
<1> QED
  BY <1>2, <1>3, <1>4 DEF KeystoreInv

LEMMA ExportStep ==
  ASSUME KeystoreInv, NEW c \in Call, NEW s \in KeySets, NEW w \in Password, NEW f \in Kdf,
         Export(c, s, w, f)
  PROVE  KeystoreInv'
<1> DEFINE a == [op |-> "export", keyset |-> s, password |-> w, kdf |-> f]
<1>1. PICK t \in {"ValueError", "DecryptionError", "waiting"} :
         /\ pc' = [pc EXCEPT ![c] = t]
         /\ t \notin Error => Exportable(s)
  BY DEF Export, Become, Error
<1>2. /\ pc[c] = "idle" /\ arg' = [arg EXCEPT ![c] = a] /\ a \in Argument
      /\ UNCHANGED <<pqc, outage, key, result>>
  BY KeySetsAssumption DEF Export, sources, Argument
<1>3. Others(c) /\ pc'[c] = t /\ arg'[c] = a
  BY <1>1, <1>2 DEF KeystoreInv, Others
<1>4. ASSUME NEW x \in Call, x # c PROVE CallInv(x)'
  BY <1>2, <1>3, <1>4, OthersKeep
<1>5. CallInv(c)'
  <2>1. key[c] # "live" /\ result[c] = None
    BY <1>2 DEF KeystoreInv, CallInv, BufferInv
  <2>2. BufferInv(c)'
    BY <1>2, <1>3, <2>1 DEF BufferInv
  <2>3. ExportInv(c)'
    BY <1>1, <1>3 DEF ExportInv
  <2> QED
    BY <1>2, <1>3, <2>2, <2>3 DEF CallInv
<1>6. pc' \in [Call -> State] /\ arg' \in [Call -> Argument \cup {None}]
  BY <1>1, <1>2 DEF KeystoreInv, State, Error
<1> QED
  BY <1>2, <1>4, <1>5, <1>6 DEF KeystoreInv

LEMMA ImportStep ==
  ASSUME KeystoreInv, NEW c \in Call, NEW b \in Offered, NEW w \in Password,
         Import(c, b, w)
  PROVE  KeystoreInv'
<1> DEFINE a == [op |-> "import", blob |-> b, password |-> w]
<1>1. PICK t \in {"ValueError", "DecryptionError", "waiting"} :
         /\ pc' = [pc EXCEPT ![c] = t]
         /\ t = "DecryptionError" => b.size # "proper" \/ b.magic \notin Kdf
  BY DEF Import, Become
<1>2. /\ pc[c] = "idle" /\ arg' = [arg EXCEPT ![c] = a]
      /\ UNCHANGED <<pqc, outage, key, result>>
  BY DEF Import, sources
<1>3. b \in Keystore /\ Origin(b.sealed) /\ a \in Argument
  BY OfferedOrigin DEF Argument
<1>4. Others(c) /\ pc'[c] = t /\ arg'[c] = a
  BY <1>1, <1>2 DEF KeystoreInv, Others
<1>5. ASSUME NEW x \in Call, x # c PROVE CallInv(x)'
  BY <1>2, <1>4, <1>5, OthersKeep
<1>6. CallInv(c)'
  <2>1. key[c] # "live" /\ result[c] = None
    BY <1>2 DEF KeystoreInv, CallInv, BufferInv
  <2>2. BufferInv(c)'
    BY <1>2, <1>4, <2>1 DEF BufferInv
  <2>3. Origin(b.sealed)'
    BY <1>2, <1>3, <1>4, OriginStable
  <2>4. ImportInv(c)'
    BY <1>1, <1>4, <2>3 DEF ImportInv
  <2> QED
    BY <1>3, <1>4, <2>2, <2>4 DEF CallInv
<1>7. pc' \in [Call -> State] /\ arg' \in [Call -> Argument \cup {None}]
  BY <1>1, <1>2, <1>3 DEF KeystoreInv, State, Error
<1> QED
  BY <1>2, <1>5, <1>6, <1>7 DEF KeystoreInv

\* The export returns what it sealed.
LEMMA SealReturns ==
  ASSUME KeystoreInv, NEW c \in Call, Seal(c), pc'[c] = "returned"
  PROVE  KeystoreInv'
<1>1. /\ pc[c] = "derived" /\ arg[c].op = "export"
      /\ pc' = [pc EXCEPT ![c] = "returned"] /\ key' = [key EXCEPT ![c] = "wiped"]
      /\ UNCHANGED <<pqc, outage, arg>>
  BY DEF Seal, Return, Become, sources, KeystoreInv
<1>2. CallInv(c) /\ arg[c] \in Argument /\ ExportInv(c)
  BY <1>1 DEF KeystoreInv, CallInv
<1>3. /\ arg[c].keyset \in KeySet /\ arg[c].password \in Password /\ arg[c].kdf \in Kdf
      /\ Exportable(arg[c].keyset)
  BY <1>1, <1>2 DEF Argument, ExportInv, Error
<1> DEFINE r == [size |-> "proper", magic |-> arg[c].kdf, salt |-> c, sealed |-> SealOf(c)]
<1>4. result' = [result EXCEPT ![c] = r]
  BY DEF Seal, Return, Become, SealOf, KeystoreInv
<1>5. SealOf(c) \in Sealed /\ r \in Keystore
  <2>1. Wrapped(arg[c].keyset) \in Payload
    BY <1>3, WrappedType
  <2>2. SealOf(c) \in Sealed
    BY <1>3, <2>1 DEF SealOf, Sealed
  <2> QED
    BY <1>3, <2>2 DEF Keystore
<1> HIDE DEF r
<1>6. /\ pc' \in [Call -> State] /\ key' \in [Call -> {"unset", "live", "wiped"}]
      /\ result' \in [Call -> Keystore \cup KeySet \cup {None}]
  BY <1>1, <1>4, <1>5 DEF KeystoreInv, State
<1>7. Others(c) /\ pc'[c] = "returned" /\ key'[c] = "wiped" /\ result'[c] = r
  BY <1>1, <1>4 DEF KeystoreInv, Others
<1>8. ASSUME NEW x \in Call, x # c PROVE CallInv(x)'
  BY <1>1, <1>7, <1>8, OthersKeep
<1>9. CallInv(c)'
  <2>1. arg'[c] = arg[c] /\ SealOf(c)' = SealOf(c)
    BY <1>1 DEF SealOf
  <2>2. BufferInv(c)'
    BY <1>7 DEF BufferInv
  <2>3. ExportInv(c)'
    BY <1>3, <1>7, <2>1 DEF ExportInv, r
  <2> QED
    BY <1>1, <1>2, <2>1, <2>2, <2>3 DEF CallInv
<1> QED
  BY <1>1, <1>6, <1>8, <1>9 DEF KeystoreInv

\* AES-GCM has returned, or raised and left nothing behind.
LEMMA SealStep ==
  ASSUME KeystoreInv, NEW c \in Call, Seal(c)
  PROVE  KeystoreInv'
<1>1. /\ pc[c] = "derived" /\ key' = [key EXCEPT ![c] = "wiped"]
      /\ UNCHANGED <<sources, arg>>
      /\ \/ pc' = [pc EXCEPT ![c] = "returned"]
         \/ pc' = [pc EXCEPT ![c] = "MemoryError"] /\ UNCHANGED result
  BY DEF Seal, Return, Become
<1>2. CASE pc' = [pc EXCEPT ![c] = "returned"]
  BY <1>2, SealReturns DEF KeystoreInv
<1>3. CASE pc' = [pc EXCEPT ![c] = "MemoryError"] /\ UNCHANGED result
  BY <1>1, <1>3, SameResult DEF State, Error
<1> QED
  BY <1>1, <1>2, <1>3

\* If liboqs was there all the time, a payload that is well formed is rebuilt.
LEMMA UnsealStep ==
  ASSUME KeystoreInv, NEW c \in Call, Unseal(c)
  PROVE  KeystoreInv'
<1> DEFINE blob    == arg[c].blob
           payload == blob.sealed.payload
           good    == Opens(blob, arg[c].password) /\ WellFormed(payload)
<1>1. /\ pc[c] = "derived" /\ arg[c].op = "import"
      /\ key' = [key EXCEPT ![c] = "wiped"]
      /\ UNCHANGED <<pqc, outage, arg>>
  BY DEF Unseal, sources
<1>2. CallInv(c) /\ arg[c] \in Argument /\ ImportInv(c) /\ result[c] = None
  BY <1>1 DEF KeystoreInv, CallInv, BufferInv
<1>3. \/ /\ good
         /\ pc' = [pc EXCEPT ![c] = "returned"]
         /\ result' = [result EXCEPT ![c] = Unwrapped(payload)]
      \/ /\ ~good \/ ~IsAvailable(payload.profile, pqc)
         /\ pc' = [pc EXCEPT ![c] = "DecryptionError"]
         /\ result' = result
  BY DEF Unseal, Return, Become
<1>4. good => Unwrapped(payload) \in KeySet
  <2>1. ASSUME good PROVE blob.sealed # None /\ blob.sealed \in Sealed
    BY <1>1, <1>2, <2>1 DEF Argument, Keystore, Opens
  <2>2. ASSUME good PROVE payload \in Payload
    BY <2>1, <2>2 DEF Sealed
  <2> QED
    BY <2>2, UnwrappedGenuine
<1>5. ~IsAvailable(payload.profile, pqc) => outage
  BY DEF KeystoreInv, IsAvailable, Usable
<1>6. /\ pc' \in [Call -> State] /\ key' \in [Call -> {"unset", "live", "wiped"}]
      /\ result' \in [Call -> Keystore \cup KeySet \cup {None}]
  <2> HIDE DEF good, payload
  <2> QED
    BY <1>1, <1>3, <1>4 DEF KeystoreInv, State, Error
<1>7. /\ Others(c) /\ key'[c] = "wiped" /\ arg'[c] = arg[c]
      /\ \/ good /\ pc'[c] = "returned" /\ result'[c] = Unwrapped(payload)
         \/ /\ ~good \/ outage
            /\ pc'[c] = "DecryptionError" /\ result'[c] = result[c]
  <2> HIDE DEF good, payload
  <2> QED
    BY <1>1, <1>3, <1>5 DEF KeystoreInv, Others
<1>8. ASSUME NEW x \in Call, x # c PROVE CallInv(x)'
  BY <1>1, <1>7, <1>8, OthersKeep
<1>9. CallInv(c)'
  <2>1. BufferInv(c)'
    BY <1>2, <1>7 DEF BufferInv
  <2>2. Origin(blob.sealed)'
    BY <1>1, <1>2, <1>7, OriginStable DEF ImportInv
  <2>3. ImportInv(c)'
    BY <1>1, <1>7, <2>2 DEF ImportInv
  <2> QED
    BY <1>1, <1>2, <1>7, <2>1, <2>3 DEF CallInv
<1> QED
  BY <1>1, <1>6, <1>8, <1>9 DEF KeystoreInv

LEMMA CallStep ==
  ASSUME KeystoreInv, NEW c \in Call, Step(c)
  PROVE  KeystoreInv'
<1>1. CASE Acquire(c)
  <2>1. key' = [key EXCEPT ![c] = key[c]] /\ key[c] \in {"unset", "wiped"}
    BY <1>1 DEF Acquire, KeystoreInv, CallInv, BufferInv
  <2> QED
    BY <1>1, <2>1, SameResult DEF Acquire, Become, State
<1>2. CASE TimeOut(c)
  <2>1. key' = [key EXCEPT ![c] = key[c]] /\ key[c] \in {"unset", "wiped"}
    BY <1>2 DEF TimeOut, KeystoreInv, CallInv, BufferInv
  <2> QED
    BY <1>2, <2>1, SameResult DEF TimeOut, Become, State, Error
<1>3. CASE Derive(c)
  <2>1. /\ pc[c] = "deriving" /\ UNCHANGED <<sources, arg, result>>
        /\ \/ pc' = [pc EXCEPT ![c] = "derived"] /\ key' = [key EXCEPT ![c] = "live"]
           \/ pc' = [pc EXCEPT ![c] = "MemoryError"] /\ key' = key
    BY <1>3 DEF Derive, Become
  <2>2. CASE pc' = [pc EXCEPT ![c] = "derived"] /\ key' = [key EXCEPT ![c] = "live"]
    BY <2>1, <2>2, SameResult DEF State
  <2>3. CASE pc' = [pc EXCEPT ![c] = "MemoryError"] /\ key' = key
    <3>1. key' = [key EXCEPT ![c] = key[c]] /\ key[c] \in {"unset", "wiped"}
      BY <2>1, <2>3 DEF KeystoreInv, CallInv, BufferInv
    <3> QED
      BY <2>1, <2>3, <3>1, SameResult DEF State, Error
  <2> QED
    BY <2>1, <2>2, <2>3
<1> QED
  BY <1>1, <1>2, <1>3, SealStep, UnsealStep DEF Step

\* A step that changes no call keeps what is known of each.
LEMMA NoCallStep ==
  ASSUME KeystoreInv, UNCHANGED <<pc, arg, key, result>>, outage => outage',
         NEW c \in Call
  PROVE  CallInv(c)'
<1>1. CallInv(c) /\ SealOf(c)' = SealOf(c)
  BY DEF KeystoreInv, SealOf
<1>2. BufferInv(c)' /\ (ExportInv(c) => ExportInv(c)')
  BY <1>1 DEF CallInv, BufferInv, ExportInv
<1>3. \A sealed : Origin(sealed) => Origin(sealed)'
  BY DEF Origin, Exported, SealOf
<1>4. ImportInv(c) => ImportInv(c)'
  BY <1>3 DEF ImportInv
<1> QED
  BY <1>1, <1>2, <1>4 DEF CallInv

LEMMA KeystoreInit == Init => KeystoreInv
BY DEF Init, KeystoreInv, CallInv, BufferInv, State

LEMMA KeystoreStep == KeystoreInv /\ [Next]_vars => KeystoreInv'
<1> SUFFICES ASSUME KeystoreInv, [Next]_vars PROVE KeystoreInv'
  OBVIOUS
<1>1. CASE PqcChanges
  <2>1. \A c \in Call : CallInv(c)'
    BY <1>1, NoCallStep DEF PqcChanges
  <2>2. pqc' \subseteq Pqc /\ outage' = TRUE
    BY <1>1 DEF PqcChanges
  <2> QED
    BY <1>1, <2>1, <2>2 DEF PqcChanges, KeystoreInv
<1>2. CASE UNCHANGED vars
  <2>1. \A c \in Call : CallInv(c)'
    BY <1>2, NoCallStep DEF vars
  <2> QED
    BY <1>2, <2>1 DEF vars, KeystoreInv
<1>3. ASSUME NEW c \in Call, Start(c) PROVE KeystoreInv'
  BY <1>3, ExportStep, ImportStep DEF Start
<1>4. ASSUME NEW c \in Call, Step(c) PROVE KeystoreInv'
  BY <1>4, CallStep
<1> QED
  BY <1>1, <1>2, <1>3, <1>4 DEF Next

\* The inductive invariant of the keystore's calls, for any number of threads,
\* any key sets, and any keystores of other programs.
THEOREM KeystoreInvariant == Spec => []KeystoreInv
BY KeystoreInit, KeystoreStep, PTL DEF Spec

\* Type correctness of export, import and the semaphore.
THEOREM TypeCorrect == Spec => []TypeOK
<1>1. KeystoreInv /\ GateInv => TypeOK
  <2> SUFFICES ASSUME KeystoreInv, GateInv PROVE TypeOK
    OBVIOUS
  <2>1. permits \in 0..Limit
    BY DerivingFinite, CallAssumption DEF GateInv, PermitsConserved
  <2>2. ASSUME NEW c \in Call, pc[c] # "idle" PROVE arg[c] \in Argument
    BY <2>2 DEF KeystoreInv, CallInv
  <2>3. ASSUME NEW c \in Call, result[c] # None
        PROVE  result[c] \in IF arg[c].op = "export" THEN Keystore ELSE KeySet
    <3>1. pc[c] = "returned" /\ arg[c] \in Argument /\ CallInv(c)
      BY <2>3 DEF KeystoreInv, CallInv, BufferInv
    <3>2. CASE arg[c].op = "export"
      <4>1. result[c].sealed = SealOf(c) /\ DOMAIN result[c] = {"size", "magic", "salt", "sealed"}
        BY <3>1, <3>2 DEF CallInv, ExportInv, Error
      <4>2. result[c] \notin KeySet
        BY <4>1 DEF KeySet
      <4> QED
        BY <2>3, <3>2, <4>2 DEF KeystoreInv
    <3>3. CASE arg[c].op # "export"
      <4>1. arg[c].op = "import" /\ ImportInv(c)
        BY <3>1, <3>3 DEF CallInv, Argument
      <4>2. result[c] = Unwrapped(arg[c].blob.sealed.payload)
        BY <3>1, <4>1 DEF ImportInv
      <4>3. DOMAIN result[c] = {"profile", "bundle", "pubs", "handles"}
        BY <4>2 DEF Unwrapped
      <4>4. result[c] \notin Keystore
        BY <4>3 DEF Keystore
      <4> QED
        BY <2>3, <3>3, <4>4 DEF KeystoreInv
    <3> QED
      BY <3>2, <3>3
  <2> QED
    BY <2>1, <2>2, <2>3 DEF TypeOK, KeystoreInv, GateInv
<1> QED
  BY <1>1, KeystoreInvariant, GateInit, GateStep, PTL DEF Spec

\* No call ends, by whatever exception, with its wrapping key in the buffer.
THEOREM KeysWiped == Spec => []WrappingKeysWiped
<1>1. KeystoreInv => WrappingKeysWiped
  BY DEF KeystoreInv, CallInv, BufferInv, WrappingKeysWiped, Error
<1> QED
  BY <1>1, KeystoreInvariant, PTL

\* A key set that was imported has exactly the sources of its profile.
THEOREM Genuine == Spec => []ImportedGenuine
<1>1. ASSUME KeystoreInv PROVE ImportedGenuine
  <2> SUFFICES ASSUME NEW c \in Call, pc[c] = "returned", arg[c].op = "import"
               PROVE  IsGenuine(result[c])
    BY DEF ImportedGenuine
  <2>1. arg[c] \in Argument /\ ImportInv(c)
    BY <1>1 DEF KeystoreInv, CallInv
  <2>2. arg[c].blob.sealed \in Sealed
    BY <2>1 DEF Argument, Keystore, ImportInv, Opens
  <2>3. arg[c].blob.sealed.payload \in Payload
    BY <2>2 DEF Sealed
  <2> QED
    BY <2>1, <2>3, UnwrappedGenuine DEF ImportInv
<1> QED
  BY <1>1, KeystoreInvariant, PTL

\* What an import returns was exported, or made, under its password.
THEOREM Faithful == Spec => []ImportFaithful
<1>1. ASSUME KeystoreInv PROVE ImportFaithful
  <2> SUFFICES ASSUME NEW c \in Call, pc[c] = "returned", arg[c].op = "import"
               PROVE  \/ \E e \in Call : /\ pc[e] = "returned" /\ arg[e].op = "export"
                                         /\ arg[e].password = arg[c].password
                                         /\ result[c] = arg[e].keyset
                      \/ \E k \in Foreign : /\ k.sealed # None
                                            /\ k.sealed.password = arg[c].password
                                            /\ result[c] = Unwrapped(k.sealed.payload)
    BY DEF ImportFaithful
  <2> DEFINE sealed == arg[c].blob.sealed
  <2>1. /\ Origin(sealed) /\ sealed # None /\ sealed.password = arg[c].password
        /\ result[c] = Unwrapped(sealed.payload)
    BY <1>1 DEF KeystoreInv, CallInv, ImportInv, Opens
  <2>2. ASSUME NEW e \in Call, Exported(e), sealed = SealOf(e)
        PROVE  arg[e].password = arg[c].password /\ result[c] = arg[e].keyset
    <3>1. arg[e] \in Argument /\ ExportInv(e) /\ pc[e] = "returned" /\ arg[e].op = "export"
      BY <1>1, <2>2 DEF KeystoreInv, CallInv, Exported
    <3>2. arg[e].keyset \in KeySet /\ Exportable(arg[e].keyset)
      BY <3>1 DEF Argument, ExportInv, Error
    <3>3. sealed.payload = Wrapped(arg[e].keyset) /\ sealed.password = arg[e].password
      BY <2>2 DEF SealOf
    <3> QED
      BY <2>1, <3>2, <3>3, WrapUnwrap
  <2>3. \/ \E e \in Call : Exported(e) /\ sealed = SealOf(e)
        \/ \E k \in Foreign : sealed = k.sealed
    BY <2>1 DEF Origin
  <2> QED
    BY <2>1, <2>2, <2>3 DEF Exported
<1> QED
  BY <1>1, KeystoreInvariant, PTL

\* An untouched keystore of a genuine key set is refused only for want of liboqs.
THEOREM RoundTrips == Spec => []RoundTrip
<1>1. ASSUME KeystoreInv PROVE RoundTrip
  <2> SUFFICES ASSUME NEW c \in Call, NEW e \in Call,
                      pc[c] = "DecryptionError", arg[c].op = "import",
                      pc[e] = "returned", arg[e].op = "export", IsGenuine(arg[e].keyset),
                      arg[c].blob = result[e], arg[c].password = arg[e].password
               PROVE  outage
    BY DEF RoundTrip
  <2> DEFINE blob == arg[c].blob
             ks   == arg[e].keyset
  <2>1. ImportInv(c) /\ ExportInv(e) /\ arg[e] \in Argument
    BY <1>1 DEF KeystoreInv, CallInv
  <2>2. ks \in KeySet /\ Exportable(ks) /\ arg[e].kdf \in Kdf
    BY <2>1 DEF Argument, ExportInv, Error
  <2>3. blob = [size |-> "proper", magic |-> arg[e].kdf, salt |-> e, sealed |-> SealOf(e)]
    BY <2>1 DEF ExportInv
  <2>4. SealOf(e) # None
    <3>1. Wrapped(ks) \in Payload
      BY <2>2, WrappedType
    <3>2. SealOf(e) \in Sealed
      BY <2>1, <2>2, <3>1 DEF SealOf, Sealed, Argument
    <3> QED
      BY <3>2, DistinctAssumption
  <2>5. Opens(blob, arg[c].password)
    BY <2>3, <2>4 DEF Opens, SealOf
  <2>6. WellFormed(Wrapped(ks))
    <3>1. /\ ks.profile \in ProfileId /\ ks.bundle = ks.profile
          /\ ks.pubs = Sources[ks.profile] /\ ks.handles \in Seq(Handle)
          /\ Len(ks.handles) = Len(Sources[ks.profile])
          /\ [i \in 1..Len(ks.handles) |-> ks.handles[i].alg] = Sources[ks.profile]
      BY <2>2 DEF KeySet, Exportable, IsGenuine
    <3> DEFINE w == Wrapped(ks)
    <3>2. w.profile = ks.profile /\ w.bundle = ks.bundle /\ w.pubs = ks.pubs
      BY DEF Wrapped
    <3>3. /\ Len(w.items) = Len(ks.handles)
          /\ \A i \in 1..Len(ks.handles) :
               w.items[i] = [label |-> Sources[ks.profile][i],
                             alg |-> ks.handles[i].alg, id |-> ks.handles[i].id]
      BY <2>2, WrappedType
    <3> HIDE DEF w
    <3>4. \A i \in 1..Len(ks.handles) : ks.handles[i].alg = Sources[ks.profile][i]
      BY <3>1
    <3>5. ASSUME NEW i \in 1..Len(w.items)
          PROVE  /\ Sources[w.profile][i] = w.items[i].label
                 /\ Sources[w.profile][i] = w.pubs[i]
                 /\ w.items[i].alg = w.items[i].label
      <4>1. i \in 1..Len(ks.handles)
        BY <3>3
      <4>2. w.items[i] = [label |-> Sources[ks.profile][i],
                          alg |-> ks.handles[i].alg, id |-> ks.handles[i].id]
        BY <3>3, <4>1
      <4>3. ks.handles[i].alg = Sources[ks.profile][i]
        BY <3>4, <4>1
      <4> QED
        BY <3>1, <3>2, <4>2, <4>3
    <3>6. WellFormed(w)
      BY <3>1, <3>2, <3>3, <3>5 DEF WellFormed
    <3> QED
      BY <3>6 DEF w
  <2>7. blob.sealed.payload = Wrapped(ks)
    BY <2>3 DEF SealOf
  <2> QED
    BY <2>1, <2>2, <2>3, <2>5, <2>6, <2>7 DEF ImportInv
<1> QED
  BY <1>1, KeystoreInvariant, PTL
=============================================================================
