------------------------------ MODULE MCCliFiles ----------------------------
(***************************************************************************)
(* TLC instances of CliFiles.                                              *)
(***************************************************************************)
EXTENDS CliFiles, TLC

CONSTANTS
  p1, p2, p3,                      \* processes
  old,                             \* the key pair that exists
  doc,                             \* the document
  bundle, key, input, cipher, out  \* paths

MCInitial ==
  (bundle :> [kind |-> "bundle", key |-> old]) @@
  (key    :> [kind |-> "keyset", key |-> old]) @@
  (input  :> [kind |-> "plain",  doc |-> doc]) @@
  (cipher :> [kind |-> "cipher", key |-> old, doc |-> doc]) @@
  (out    :> None)

Cmd(op, in, to, k, b) ==
  [op : {op}, stream : BOOLEAN, in : {in}, out : {to}, key : {k}, bundle : {b}]

Keygen == {c \in Cmd("keygen", None, None, key, bundle) : ~c.stream}

\* Both processes may make new keys; they encrypt, decrypt and migrate over
\* the same files, with the input for an output too.
FileCommands ==
  (p1 :> (Keygen \cup Cmd("encrypt", input, cipher, None, bundle)
                 \cup Cmd("migrate_file", out, out, None, None))) @@
  (p2 :> (Keygen \cup Cmd("encrypt", input, cipher, None, bundle)
          \cup Cmd("encrypt", input, input, None, bundle)
          \cup Cmd("decrypt", cipher, out, key, None)
          \cup Cmd("migrate", cipher, out, key, bundle)
          \cup Cmd("migrate", cipher, cipher, key, bundle)
          \cup Cmd("migrate_file", cipher, out, None, None)))

KeygenOnly == [p \in {p1} |-> Keygen]
DecryptOnly == [p \in {p1} |-> Cmd("decrypt", cipher, out, key, None)]
=============================================================================
