------------------------------- MODULE CliFiles -----------------------------
(***************************************************************************)
(* What the commands keygen, encrypt, decrypt and migrate, and the library *)
(* function migrate_file(), do to files.  Each process runs one of them;   *)
(* they run concurrently over one directory, any call may raise, a process *)
(* may be interrupted, and the power may fail.                             *)
(*                                                                         *)
(* A command is the sequence of the calls it makes (Program).  A file's    *)
(* content is what it decodes to; an open file keeps the content it had,   *)
(* because every writer replaces files and writes none in place.           *)
(***************************************************************************)
EXTENDS Integers, Sequences

CONSTANTS
  Proc,      \* the processes
  Path,      \* the resolved paths they name
  OldKey,    \* the key pairs that exist already; keygen p makes the pair p
  Doc,       \* the documents
  Commands,  \* Commands[p]: what process p may be asked to run
  Initial,   \* Initial[path]: what is there at first
  None,      \* no file, no temporary file, nothing read
  Torn       \* the content of a file that is not written in full

Key     == Proc \cup OldKey
Bundle  == [kind : {"bundle"}, key : Key]
Keyset  == [kind : {"keyset"}, key : Key]
Plain   == [kind : {"plain"}, doc : Doc]
Cipher  == [kind : {"cipher"}, key : Key, doc : Doc]
Whole   == Bundle \cup Keyset \cup Plain \cup Cipher
Content == Whole \cup {Torn}

\* in, out, key and bundle are the path arguments the operation has, and None.
Takes(op, in, out, key, bundle) ==
  [op : {op}, stream : BOOLEAN, in : in, out : out, key : key, bundle : bundle]

Command ==
  LET no == {None} IN
     {c \in Takes("keygen", no, no, Path, Path) : ~c.stream}
  \cup Takes("encrypt", Path, Path, no, Path)
  \cup Takes("decrypt", Path, Path, Path, no)
  \cup Takes("migrate", Path, Path, Path, Path)
  \cup Takes("migrate_file", Path, Path, no, no)

ASSUME CommandsAssumption == Commands \in [Proc -> SUBSET Command]
ASSUME InitialAssumption  == Initial \in [Path -> Whole \cup {None}]
\* A key pair that keygen makes is in no file yet.
ASSUME FreshAssumption    ==
  /\ Proc \cap OldKey = {}
  /\ \A x \in Path : Initial[x] \in Bundle \cup Keyset => Initial[x].key \in OldKey
ASSUME AbsentAssumption   ==
  None \notin Path \cup Content \cup Command /\ Torn \notin Whole

VARIABLES
  disk,      \* the content of each path, as processes see it
  durable,   \* the contents each path may have if the power fails now
  status,    \* "idle", "running", "done", "failed", "interrupted" or "killed"
  cmd,       \* the command a process runs
  todo,      \* the calls it has still to make
  mem,       \* the keyset, bundle and input it has read
  overlaps,  \* history: the pairs of keygens that ran at the same time
  temp,      \* the content of its temporary file
  synced,    \* whether the temporary file reached the disk
  fd,        \* whether it holds the descriptor of the temporary file
  replaced,  \* history: the paths it has replaced, in order
  faults,    \* history: which of fsync, unlink and the report failed
  power      \* FALSE once the power has failed

vars == <<disk, durable, status, cmd, todo, mem, overlaps, temp, synced, fd,
          replaced, faults, power>>

files   == <<disk, durable, power>>
args    == <<cmd, mem, overlaps>>
temps   == <<temp, synced, fd>>
history == <<replaced, faults>>

Nothing == [keyset |-> None, bundle |-> None, input |-> None]

Init ==
  /\ disk      = Initial
  /\ durable   = [x \in Path |-> {Initial[x]}]
  /\ status    = [p \in Proc |-> "idle"]
  /\ cmd       = [p \in Proc |-> None]
  /\ todo      = [p \in Proc |-> <<>>]
  /\ mem       = [p \in Proc |-> Nothing]
  /\ overlaps  = {}
  /\ temp      = [p \in Proc |-> None]
  /\ synced    = [p \in Proc |-> FALSE]
  /\ fd        = [p \in Proc |-> FALSE]
  /\ replaced  = [p \in Proc |-> <<>>]
  /\ faults    = {}
  /\ power     = TRUE

-----------------------------------------------------------------------------
\* _atomic_write_bytes() and _atomic_stream_write(), and keygen's copy of them.
AtomicWrite == <<"temp", "write", "replace">>

\* The calls each command makes.  A streaming command computes its output while
\* it writes it; migrate_file() makes its temporary file first, and prints
\* nothing.
Program(c) ==
  LET compute == IF c.stream THEN <<>> ELSE <<"compute">>
      body    == CASE c.op = "keygen"  -> AtomicWrite
                   [] c.op = "encrypt" -> <<"alias", "bundle", "input">> \o compute
                   [] c.op = "decrypt" -> <<"alias", "keyset", "input">> \o compute
                   [] c.op = "migrate" ->
                        <<"alias", "keyset", "bundle", "input">> \o compute
  IN IF c.op = "migrate_file"
     THEN <<"alias", "temp", "input">> \o compute \o <<"write", "replace">>
     ELSE body \o AtomicWrite \o <<"report">>

\* The files a command writes, in order.
Targets(c) == IF c.op = "keygen" THEN <<c.bundle, c.key>> ELSE <<c.out>>
Target(p) == Targets(cmd[p])[Len(replaced[p]) + 1]

\* What it writes next, if what it has read lets it write anything: decrypting
\* with the wrong keyset, or what is no ciphertext, raises.  Only documents are
\* encrypted here, not ciphertexts again.
Output(p) ==
  LET c == cmd[p]  m == mem[p] IN
  CASE c.op = "keygen" ->
         {x \in IF replaced[p] = <<>> THEN Bundle ELSE Keyset : x.key = p}
    [] c.op = "encrypt" ->
         {x \in Cipher : /\ m.input \in Plain
                         /\ x.key = m.bundle.key /\ x.doc = m.input.doc}
    [] c.op = "decrypt" ->
         {x \in Plain : /\ m.input \in Cipher
                        /\ m.input.key = m.keyset.key /\ x.doc = m.input.doc}
    [] c.op \in {"migrate", "migrate_file"} ->
         {x \in Cipher : /\ m.input \in Cipher /\ m.input.key = m.keyset.key
                         /\ x.key = m.bundle.key /\ x.doc = m.input.doc}

\* Process p is about to make the call `step', and then goes on to the next.
At(p, step) == status[p] = "running" /\ Head(todo[p]) = step
Advance(p)  == todo' = [todo EXCEPT ![p] = Tail(@)] /\ UNCHANGED status

-----------------------------------------------------------------------------
\* The caller of migrate_file() holds the keys already; a command reads them.
Start(p) ==
  /\ status[p] = "idle"
  /\ \E c \in Commands[p] :
        /\ cmd'  = [cmd EXCEPT ![p] = c]
        /\ todo' = [todo EXCEPT ![p] = Program(c)]
        /\ IF c.op = "migrate_file"
           THEN \E k \in Keyset, b \in Bundle :
                   /\ {k.key, b.key} \subseteq OldKey
                   /\ mem' = [mem EXCEPT ![p] = [Nothing EXCEPT !.keyset = k, !.bundle = b]]
           ELSE UNCHANGED mem
        /\ overlaps' = overlaps \cup
             {{p, q} : q \in {r \in Proc : /\ c.op = "keygen" /\ status[r] = "running"
                                        /\ cmd[r].op = "keygen"}}
  /\ status' = [status EXCEPT ![p] = "running"]
  /\ UNCHANGED <<files, temps, history>>

\* A slip: the paths are not compared.
CheckAliasNever(p) ==
  /\ At(p, "alias")
  /\ Advance(p)
  /\ UNCHANGED <<files, args, temps, history>>

\* _check_path_alias(), or migrate_file()'s check of files that exist.
CheckAlias(p) ==
  /\ At(p, "alias")
  /\ \/ cmd[p].in # cmd[p].out
     \/ cmd[p].op = "migrate_file" /\ disk[cmd[p].in] = None
  /\ Advance(p)
  /\ UNCHANGED <<files, temps, history, args>>

\* Opening a file and reading it, or opening the input of a streaming command.
Read(p) ==
  /\ \/ /\ At(p, "keyset")
        /\ disk[cmd[p].key] \in Keyset
        /\ mem' = [mem EXCEPT ![p].keyset = disk[cmd[p].key]]
     \/ /\ At(p, "bundle")
        /\ disk[cmd[p].bundle] \in Bundle
        /\ mem' = [mem EXCEPT ![p].bundle = disk[cmd[p].bundle]]
     \/ /\ At(p, "input")
        /\ disk[cmd[p].in] # None
        /\ mem' = [mem EXCEPT ![p].input = disk[cmd[p].in]]
  /\ Advance(p)
  /\ UNCHANGED <<files, temps, history, cmd, overlaps>>

Compute(p) ==
  /\ At(p, "compute")
  /\ Output(p) # {}
  /\ Advance(p)
  /\ UNCHANGED <<files, temps, history, args>>

\* mkstemp().  One-shot migrate_file() closes the descriptor at once.
MakeTemp(p) ==
  /\ At(p, "temp")
  /\ temp' = [temp EXCEPT ![p] = Torn]
  /\ fd'   = [fd EXCEPT ![p] = ~(cmd[p].op = "migrate_file" /\ ~cmd[p].stream)]
  /\ Advance(p)
  /\ UNCHANGED <<files, history, args, synced>>

\* A slip: an output that could not be computed is written as far as it got.
WriteAnything(p) ==
  /\ At(p, "write")
  /\ temp'   = [temp EXCEPT ![p] = IF Output(p) = {} THEN Torn ELSE CHOOSE x \in Output(p) : TRUE]
  /\ synced' = [synced EXCEPT ![p] = TRUE]
  /\ fd'     = [fd EXCEPT ![p] = FALSE]
  /\ Advance(p)
  /\ UNCHANGED <<files, history, args>>

\* The output is written, flushed and synced, and the file closed.  A failure
\* of fsync() is ignored.
Write(p) ==
  /\ At(p, "write")
  /\ \E x \in Output(p) : temp' = [temp EXCEPT ![p] = x]
  /\ \E ok \in BOOLEAN :
        /\ synced' = [synced EXCEPT ![p] = ok]
        /\ faults' = IF ok THEN faults ELSE faults \cup {"fsync"}
  /\ fd' = [fd EXCEPT ![p] = FALSE]
  /\ Advance(p)
  /\ UNCHANGED <<files, args, replaced>>

\* A slip: after its last file migrate_file() does not return.
ReplaceGoesOn(p) ==
  /\ At(p, "replace")
  /\ disk'     = [disk EXCEPT ![Target(p)] = temp[p]]
  /\ temp'     = [temp EXCEPT ![p] = None]
  /\ replaced' = [replaced EXCEPT ![p] = Append(@, Target(p))]
  /\ Advance(p)
  /\ UNCHANGED <<durable, power, args, synced, fd, faults>>

\* os.replace(): at once for every process, but no directory is synced, so that
\* the power may still take it back, and with it what fsync() did not write.
Replace(p) ==
  /\ At(p, "replace")
  /\ disk'     = [disk EXCEPT ![Target(p)] = temp[p]]
  /\ durable'  = [durable EXCEPT ![Target(p)] =
                    @ \cup {temp[p]} \cup (IF synced[p] THEN {} ELSE {Torn})]
  /\ temp'     = [temp EXCEPT ![p] = None]
  /\ replaced' = [replaced EXCEPT ![p] = Append(@, Target(p))]
  /\ todo'     = [todo EXCEPT ![p] = Tail(@)]
  /\ status'   = [status EXCEPT ![p] = IF Tail(todo[p]) = <<>> THEN "done" ELSE @]
  /\ UNCHANGED <<args, synced, fd, faults, power>>

\* The command reports its success and returns 0.
Report(p) ==
  /\ At(p, "report")
  /\ status' = [status EXCEPT ![p] = "done"]
  /\ todo'   = [todo EXCEPT ![p] = <<>>]
  /\ UNCHANGED <<files, temps, history, args>>

\* A slip: the temporary file is left behind.
RaiseKeepsTemp(p) ==
  /\ status[p] = "running"
  /\ status' = [status EXCEPT ![p] = "failed"]
  /\ fd'     = [fd EXCEPT ![p] = FALSE]
  /\ UNCHANGED <<files, history, args, todo, temp, synced>>

\* A slip: os.replace() in a finally clause.
RaiseReplaces(p) ==
  /\ status[p] = "running"
  /\ status' = [status EXCEPT ![p] = "failed"]
  /\ IF temp[p] = None THEN UNCHANGED <<disk, replaced>>
     ELSE /\ disk' = [disk EXCEPT ![Target(p)] = temp[p]]
          /\ replaced' = [replaced EXCEPT ![p] = Append(@, Target(p))]
  /\ temp' = [temp EXCEPT ![p] = None]
  /\ UNCHANGED <<args, durable, todo, synced, fd, faults, power>>

\* A slip: the exception is swallowed.
RaiseSwallowed(p) ==
  /\ status[p] = "running"
  /\ status' = [status EXCEPT ![p] = "done"]
  /\ temp' = [temp EXCEPT ![p] = None]
  /\ UNCHANGED <<files, args, history, todo, synced, fd>>

\* The next call raises an Exception: because of what was read or not found, or
\* for any reason of its own.  The temporary file is removed, if it can be, and
\* closed, unless streaming migrate_file() cannot open its input.
Raise(p) ==
  /\ status[p] = "running"
  /\ status' = [status EXCEPT ![p] = "failed"]
  /\ \/ /\ temp'   = [temp EXCEPT ![p] = None]
        /\ faults' = faults \cup (IF At(p, "report") THEN {"report"} ELSE {})
     \/ /\ temp[p] # None
        /\ faults' = faults \cup {"unlink"}
        /\ UNCHANGED temp
  /\ fd' = [fd EXCEPT ![p] =
              @ /\ cmd[p].op = "migrate_file" /\ cmd[p].stream /\ At(p, "input")]
  /\ UNCHANGED <<files, args, todo, synced, replaced>>

Step(p) ==
  \/ CheckAlias(p) \/ Read(p) \/ Compute(p) \/ MakeTemp(p) \/ Write(p)
  \/ Replace(p) \/ Report(p) \/ Raise(p)

\* A KeyboardInterrupt, which `except Exception' does not catch: the with block
\* closes the temporary file, where there is one, and nothing removes it.
Interrupt(p) ==
  /\ status[p] = "running"
  /\ status' = [status EXCEPT ![p] = "interrupted"]
  /\ fd' = [fd EXCEPT ![p] =
              @ /\ cmd[p].op = "migrate_file" /\ cmd[p].stream /\ At(p, "input")]
  /\ UNCHANGED <<files, history, args, todo, temp, synced>>

\* SIGKILL: no clause of the program runs.
Kill(p) ==
  /\ status[p] = "running"
  /\ status' = [status EXCEPT ![p] = "killed"]
  /\ fd'     = [fd EXCEPT ![p] = FALSE]
  /\ UNCHANGED <<files, history, args, todo, temp, synced>>

PowerFailure ==
  /\ power
  /\ power' = FALSE
  /\ LET dirty == {x \in Path : durable[x] # {disk[x]}} IN
       \E d \in [dirty -> UNION {durable[x] : x \in dirty}] :
          /\ \A x \in dirty : d[x] \in durable[x]
          /\ disk' = [x \in Path |-> IF x \in dirty THEN d[x] ELSE disk[x]]
  /\ durable' = [x \in Path |-> {disk'[x]}]
  /\ status' = [p \in Proc |-> IF status[p] = "running" THEN "killed" ELSE status[p]]
  /\ fd'     = [p \in Proc |-> FALSE]
  /\ UNCHANGED <<history, args, todo, temp, synced>>

Next ==
  PowerFailure \/ \E p \in Proc : Start(p) \/ Step(p) \/ Interrupt(p) \/ Kill(p)

Spec == Init /\ [][Next]_vars

-----------------------------------------------------------------------------
TypeOK ==
  /\ disk      \in [Path -> Content \cup {None}]
  /\ durable   \in [Path -> SUBSET (Content \cup {None})]
  /\ status    \in [Proc -> {"idle", "running", "done", "failed", "interrupted", "killed"}]
  /\ cmd       \in [Proc -> Command \cup {None}]
  /\ mem       \in [Proc -> [keyset : Keyset \cup {None}, bundle : Bundle \cup {None},
                             input : Content \cup {None}]]
  /\ overlaps  \subseteq {{p, q} : p, q \in Proc}
  /\ temp      \in [Proc -> Content \cup {None}]
  /\ synced    \in [Proc -> BOOLEAN]
  /\ fd        \in [Proc -> BOOLEAN]
  /\ replaced  \in [Proc -> Seq(Path)]
  /\ faults    \subseteq {"fsync", "unlink", "report"}
  /\ power     \in BOOLEAN
  /\ \A p \in Proc : status[p] = "running" =>
        todo[p] # <<>> /\ Len(replaced[p]) <= Len(Targets(cmd[p]))

\* No path ever holds part of an output: not while commands write, not after
\* they fail or are interrupted, nor after a power failure, unless fsync() had
\* failed as well.  A partial plaintext of a streaming decryption in particular
\* never gets to its destination.
DestinationsWhole ==
  (\E x \in Path : disk[x] = Torn) => ~power /\ "fsync" \in faults

\* A command with one output that returns an error has not touched it, unless
\* printing the report of its success is what failed.
FailurePreserves ==
  \A p \in Proc :
     (status[p] = "failed" /\ cmd[p].op # "keygen" /\ replaced[p] # <<>>)
        => "report" \in faults

\* A command that has returned leaves no temporary file, unless it could not
\* be removed; and however it ended, short of being killed, it leaves no
\* descriptor open but migrate_file()'s when its input is missing.
NothingLeft ==
  \A p \in Proc :
     /\ status[p] \in {"done", "failed"} => temp[p] = None \/ "unlink" \in faults
     /\ (status[p] \in {"done", "failed", "interrupted"} /\ fd[p]) =>
           cmd[p].op = "migrate_file" /\ cmd[p].stream /\ mem[p].input = None

\* keygen replaces the bundle and then the keyset: between the two, and for good
\* if it fails or is interrupted there, what is encrypted to the bundle cannot
\* be decrypted with the keyset.  Short of a power failure only one thing else
\* separates the two: keygens that run at the same time, each of which may win
\* one of the files and report its success.  Keygens one after the other do not.
PairsMatch ==
  \A p \in Proc :
     LET c == cmd[p]  b == disk[c.bundle]  k == disk[c.key] IN
     (/\ c # None /\ c.op = "keygen" /\ c.bundle # c.key /\ power
      /\ b \in Bundle /\ k \in Keyset /\ b.key # k.key) =>
         /\ b.key \in Proc
         /\ \/ Len(replaced[b.key]) = 1 /\ status[b.key] # "done"
            \/ /\ {b.key, k.key} \in overlaps
               /\ Len(replaced[b.key]) = 2 /\ Len(replaced[k.key]) = 2

\* No operation replaces the file it reads, except a migrate_file() that found
\* nothing there when it compared the two paths.
InputKept ==
  \A p \in Proc : \A i \in 1..Len(replaced[p]) :
     replaced[p][i] = cmd[p].in =>
        cmd[p].op = "migrate_file" /\ Initial[cmd[p].in] = None

-----------------------------------------------------------------------------
\* What cli.py says and the code does not do.

\* Module docstring: when an operation, keygen included, fails at any point,
\* the original destination is preserved unchanged.
FailedKeygenPreserves ==
  \A p \in Proc :
     (status[p] = "failed" /\ cmd[p].op = "keygen") => replaced[p] = <<>>

\* _atomic_stream_write(): if write_fn raises, the temporary file is removed.
InterruptedWriteRemovesTemp ==
  \A p \in Proc :
     (status[p] = "interrupted" /\ cmd[p].stream /\ Head(todo[p]) = "write")
        => temp[p] = None
=============================================================================
