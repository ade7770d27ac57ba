------------------------------ MODULE MCKeystore ----------------------------
(***************************************************************************)
(* TLC instances of Keystore.                                              *)
(***************************************************************************)
EXTENDS Keystore, TLC

H(alg, id) == [alg |-> alg, id |-> id]

Genuine(profile) ==
  [profile |-> profile, bundle |-> profile, pubs |-> Sources[profile],
   handles |-> [i \in 1..Len(Sources[profile]) |-> H(Sources[profile][i], i)]]

\* Key sets of establish_keys(), and with a bundle of another profile, a handle
\* too many, a public key or a handle of another algorithm.
SomeKeySets ==
  {Genuine("classical_only"), Genuine("hybrid_high"),
   [Genuine("classical_only") EXCEPT !.bundle = "hybrid_high"],
   [Genuine("classical_only") EXCEPT !.handles = @ \o <<H("x25519", 2)>>],
   [Genuine("hybrid_high") EXCEPT !.pubs[2] = "mlkem768"],
   [Genuine("hybrid_high") EXCEPT !.handles[2] = H("mlkem768", 2)]}

It(label, alg, id) == [label |-> label, alg |-> alg, id |-> id]

Base == Wrapped(Genuine("hybrid_high"))

\* Another key set, and payloads with a foreign or missing part, sealed properly
\* under password w.
Made(payload, w) ==
  [size |-> "proper", magic |-> "scrypt", salt |-> None,
   sealed |-> [password |-> w, salt |-> None, kdf |-> "scrypt", aad |-> "scrypt",
               payload |-> payload]]

MadeFrom(w) ==
  {Made(p, w) : p \in {[Base EXCEPT !.items[1].id = 7],
                       [Base EXCEPT !.profile = Unknown],
                       [Base EXCEPT !.bundle = "hybrid_standard"],
                       [Base EXCEPT !.pubs = <<"x25519">>],
                       [Base EXCEPT !.pubs[2] = "mlkem768"],
                       [Base EXCEPT !.items = <<It("x25519", "x25519", 7)>>],
                       [Base EXCEPT !.items[2] = It("mlkem1024", Unknown, 7)],
                       [Base EXCEPT !.items[2] = It("mlkem768", "mlkem768", 7)]}}

CONSTANTS w1, w2

SomeForeign == MadeFrom(w1)
=============================================================================
