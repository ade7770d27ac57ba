---------------------------- MODULE CliFilesProofs --------------------------
(***************************************************************************)
(* What is proved of the commands and their files, for any number of       *)
(* processes, paths, keys, documents and commands.                         *)
(*                                                                         *)
(* The calls a process has still to make are in the order of its program,  *)
(* so that the next one says what its temporary file holds and how many of *)
(* its files it has replaced.  Of a path it is enough to know what the     *)
(* power may leave there.                                                  *)
(***************************************************************************)
EXTENDS CliFiles, TLAPS

Call == {"alias", "keyset", "bundle", "input", "compute", "temp", "write",
         "replace", "report"}

\* The calls that may follow the call `a' in the program of command c.
Following(c, a) ==
  IF c.op = "migrate_file"
  THEN CASE a = "alias"   -> {"temp"}
         [] a = "temp"    -> {"input"}
         [] a = "input"   -> {"compute", "write"}
         [] a = "compute" -> {"write"}
         [] a = "write"   -> {"replace"}
         [] OTHER         -> {}
  ELSE CASE a = "alias"   -> {"keyset", "bundle"}
         [] a = "keyset"  -> {"bundle", "input"}
         [] a = "bundle"  -> {"input"}
         [] a = "input"   -> {"compute", "temp"}
         [] a = "compute" -> {"temp"}
         [] a = "temp"    -> {"write"}
         [] a = "write"   -> {"replace"}
         [] a = "replace" -> {"temp", "report"}
         [] OTHER         -> {}

\* How many calls are left of the program when it replaces a file.
LeftAtReplace(c) ==
  IF c.op = "keygen" THEN {5, 2} ELSE IF c.op = "migrate_file" THEN {1} ELSE {2}

LastCall(c) == IF c.op = "migrate_file" THEN "replace" ELSE "report"

Reads == {"alias", "keyset", "bundle", "input", "compute"}

\* t is the end of the program of c, or could be.
Ordered(c, t) ==
  /\ t \in Seq(Call) /\ t # <<>>
  /\ t[Len(t)] = LastCall(c)
  /\ \A i \in 1..(Len(t) - 1) : t[i + 1] \in Following(c, t[i])
  /\ \A i \in 1..Len(t) : t[i] = "replace" <=> Len(t) + 1 - i \in LeftAtReplace(c)
  /\ c.op = "keygen" => \A i \in 1..Len(t) : t[i] \notin Reads

\* The files that are replaced when n calls are left.
Done(c, n) ==
  CASE c.op = "keygen"       -> IF n >= 5 THEN 0 ELSE IF n >= 2 THEN 1 ELSE 2
    [] c.op = "migrate_file" -> 0
    [] OTHER                 -> IF n >= 2 THEN 0 ELSE 1

\* A command that writes to what it reads gets no further than its first call.
Apart(c) ==
  c.op = "keygen" \/ c.in # c.out \/ (c.op = "migrate_file" /\ Initial[c.in] = None)

\* What a process holds while its next call is `next'.
Holds(p, next) ==
  /\ CASE next = "write" -> temp[p] = Torn
       [] next = "replace" -> /\ temp[p] \in Output(p)
                              /\ synced[p] \/ "fsync" \in faults
       [] next \in {"input", "compute"} /\ cmd[p].op = "migrate_file" -> temp[p] = Torn
       [] OTHER -> temp[p] = None
  /\ fd[p] => temp[p] = Torn
  /\ next # "alias" => Apart(cmd[p])
  /\ next \in {"alias", "temp", "input"} /\ cmd[p].op = "migrate_file"
        => mem[p].input = None

RunningInv(p) ==
  status[p] = "running" =>
     /\ Ordered(cmd[p], todo[p])
     /\ Len(replaced[p]) = Done(cmd[p], Len(todo[p]))
     /\ Holds(p, Head(todo[p]))

StoppedInv(p) ==
  /\ status[p] = "idle" =>
        /\ cmd[p] = None /\ temp[p] = None /\ ~fd[p]
        /\ replaced[p] = <<>> /\ mem[p] = Nothing
  /\ status[p] # "idle" => cmd[p] \in Commands[p]
  /\ (status[p] = "failed" /\ cmd[p].op # "keygen" /\ replaced[p] # <<>>)
        => "report" \in faults
  /\ status[p] \in {"done", "failed"} => temp[p] = None \/ "unlink" \in faults
  /\ (status[p] \in {"done", "failed", "interrupted"} /\ fd[p]) =>
        cmd[p].op = "migrate_file" /\ cmd[p].stream /\ mem[p].input = None

KeptInv(p) ==
  \A i \in 1..Len(replaced[p]) : replaced[p][i] = cmd[p].in =>
     cmd[p].op = "migrate_file" /\ Initial[cmd[p].in] = None

ProcInv(p) == RunningInv(p) /\ StoppedInv(p) /\ KeptInv(p)

\* What the processes see is one of the contents that may survive; those are
\* outputs in full unless fsync() failed, and a file that was there stays.
DiskInv ==
  \A x \in Path :
     /\ disk[x] \in durable[x]
     /\ Torn \in durable[x] => "fsync" \in faults
     /\ power => disk[x] # Torn
     /\ Initial[x] # None => None \notin durable[x]

TypeInv ==
  /\ disk      \in [Path -> Content \cup {None}]
  /\ durable   \in [Path -> SUBSET (Content \cup {None})]
  /\ status    \in [Proc -> {"idle", "running", "done", "failed", "interrupted", "killed"}]
  /\ cmd       \in [Proc -> Command \cup {None}]
  /\ todo      \in [Proc -> Seq(Call)]
  /\ mem       \in [Proc -> [keyset : Keyset \cup {None}, bundle : Bundle \cup {None},
                             input : Content \cup {None}]]
  /\ overlaps  \subseteq {{p, q} : p, q \in Proc}
  /\ temp      \in [Proc -> Content \cup {None}]
  /\ synced    \in [Proc -> BOOLEAN]
  /\ fd        \in [Proc -> BOOLEAN]
  /\ replaced  \in [Proc -> Seq(Path)]
  /\ faults    \subseteq {"fsync", "unlink", "report"}
  /\ power     \in BOOLEAN

FilesInv == TypeInv /\ DiskInv /\ \A p \in Proc : ProcInv(p)

-----------------------------------------------------------------------------
\* Programs.

LEMMA CommandOps ==
  ASSUME NEW c \in Command
  PROVE  /\ c.op \in {"keygen", "encrypt", "decrypt", "migrate", "migrate_file"}
         /\ c.stream \in BOOLEAN
         /\ c.op = "keygen" => ~c.stream /\ c.in = None /\ c.bundle \in Path /\ c.key \in Path
         /\ c.op # "keygen" => c.in \in Path /\ c.out \in Path
         /\ c.op \in {"encrypt", "migrate"} => c.bundle \in Path
         /\ c.op \in {"decrypt", "migrate"} => c.key \in Path
  BY DEF Command, Takes

LEMMA ProgramSeq ==
  ASSUME NEW c \in Command
  PROVE  Program(c) \in Seq(Call)
<1> DEFINE compute == IF c.stream THEN <<>> ELSE <<"compute">>
<1> DEFINE body == CASE c.op = "keygen"  -> AtomicWrite
                   [] c.op = "encrypt" -> <<"alias", "bundle", "input">> \o compute
                   [] c.op = "decrypt" -> <<"alias", "keyset", "input">> \o compute
                   [] c.op = "migrate" ->
                        <<"alias", "keyset", "bundle", "input">> \o compute
<1>1. compute \in Seq(Call)
  <2>1. <<>> \in Seq(Call) /\ <<"compute">> \in Seq(Call)  BY DEF Call
  <2> QED  BY <2>1
<1>2. AtomicWrite \in Seq(Call)  BY DEF AtomicWrite, Call
<1>3. /\ <<"alias", "bundle", "input">> \in Seq(Call)
      /\ <<"alias", "keyset", "input">> \in Seq(Call)
      /\ <<"alias", "keyset", "bundle", "input">> \in Seq(Call)
      /\ <<"alias", "temp", "input">> \in Seq(Call)
      /\ <<"write", "replace">> \in Seq(Call)
      /\ <<"report">> \in Seq(Call)
  BY DEF Call
<1>4. ASSUME NEW s \in Seq(Call), NEW t \in Seq(Call)
      PROVE  s \o t \in Seq(Call)
  OBVIOUS
<1> HIDE DEF compute
<1>5. c.op # "migrate_file" => body \in Seq(Call)
  BY <1>1, <1>2, <1>3, <1>4, CommandOps
<1> HIDE DEF body
<1>6. Program(c) = IF c.op = "migrate_file"
                   THEN <<"alias", "temp", "input">> \o compute \o <<"write", "replace">>
                   ELSE body \o AtomicWrite \o <<"report">>
  BY DEF Program, compute, body
<1> QED  BY <1>1, <1>2, <1>3, <1>4, <1>5, <1>6

\* The program of each command, call by call, from its length down.
LEMMA ProgramCalls ==
  ASSUME NEW c \in Command
  PROVE  LET P == Program(c)  n == Len(P) IN
         /\ c.op = "keygen" =>
              /\ n = 7
              /\ P[1] = "temp" /\ P[2] = "write" /\ P[3] = "replace"
              /\ P[4] = "temp" /\ P[5] = "write" /\ P[6] = "replace" /\ P[7] = "report"
         /\ c.op = "migrate_file" =>
              /\ n = IF c.stream THEN 5 ELSE 6
              /\ P[1] = "alias" /\ P[2] = "temp" /\ P[3] = "input"
              /\ c.stream => P[4] = "write" /\ P[5] = "replace"
              /\ ~c.stream => P[4] = "compute" /\ P[5] = "write" /\ P[6] = "replace"
         /\ c.op \in {"encrypt", "decrypt"} =>
              /\ n = IF c.stream THEN 7 ELSE 8
              /\ P[1] = "alias" /\ P[2] \in {"keyset", "bundle"} /\ P[3] = "input"
              /\ c.stream =>
                   P[4] = "temp" /\ P[5] = "write" /\ P[6] = "replace" /\ P[7] = "report"
              /\ ~c.stream => /\ P[4] = "compute" /\ P[5] = "temp" /\ P[6] = "write"
                              /\ P[7] = "replace" /\ P[8] = "report"
         /\ c.op = "migrate" =>
              /\ n = IF c.stream THEN 8 ELSE 9
              /\ P[1] = "alias" /\ P[2] = "keyset" /\ P[3] = "bundle" /\ P[4] = "input"
              /\ c.stream =>
                   P[5] = "temp" /\ P[6] = "write" /\ P[7] = "replace" /\ P[8] = "report"
              /\ ~c.stream => /\ P[5] = "compute" /\ P[6] = "temp" /\ P[7] = "write"
                              /\ P[8] = "replace" /\ P[9] = "report"
<1>1. CASE c.op = "keygen"   BY <1>1, CommandOps DEF Program, AtomicWrite
<1>2. CASE c.op = "migrate_file"
  BY <1>2, CommandOps DEF Program, AtomicWrite
<1>3. CASE c.op \in {"encrypt", "decrypt"}
  <2>1. CASE c.op = "encrypt"  BY <2>1, CommandOps DEF Program, AtomicWrite
  <2>2. CASE c.op = "decrypt"  BY <2>2, CommandOps DEF Program, AtomicWrite
  <2> QED  BY <1>3, <2>1, <2>2
<1>4. CASE c.op = "migrate"
  BY <1>4, CommandOps DEF Program, AtomicWrite
<1> QED  BY <1>1, <1>2, <1>3, <1>4, CommandOps

LEMMA StartOrdered ==
  ASSUME NEW c \in Command
  PROVE  /\ Ordered(c, Program(c))
         /\ Done(c, Len(Program(c))) = 0
         /\ Head(Program(c)) = IF c.op = "keygen" THEN "temp" ELSE "alias"
<1> DEFINE P == Program(c)
<1>1. P \in Seq(Call)  BY ProgramSeq
<1> HIDE DEF P
<1>2. CASE c.op = "keygen"
  <2>1. /\ Len(P) = 7
        /\ P[1] = "temp" /\ P[2] = "write" /\ P[3] = "replace"
        /\ P[4] = "temp" /\ P[5] = "write" /\ P[6] = "replace" /\ P[7] = "report"
    BY <1>2, ProgramCalls DEF P
  <2>2. P # <<>> /\ P[Len(P)] = LastCall(c) /\ Head(P) = P[1]
    <3>1. P # <<>>  BY <2>1
    <3>2. LastCall(c) = "report"  BY <1>2 DEF LastCall
    <3> QED  BY <1>1, <2>1, <3>1, <3>2
  <2>3. \A i \in 1..(Len(P) - 1) : P[i + 1] \in Following(c, P[i])
    BY <1>1, <1>2, <2>1 DEF Following
  <2>4. \A i \in 1..Len(P) : P[i] = "replace" <=> Len(P) + 1 - i \in LeftAtReplace(c)
    BY <1>1, <1>2, <2>1 DEF LeftAtReplace
  <2>5. Done(c, Len(P)) = 0  BY <1>2, <2>1 DEF Done
  <2>6. \A i \in 1..Len(P) : P[i] \notin Reads  BY <2>1 DEF Reads
  <2> QED  BY <1>1, <1>2, <2>1, <2>2, <2>3, <2>4, <2>5, <2>6 DEF P, Ordered
<1>3. CASE c.op = "migrate_file"
  <2>1. /\ Len(P) = IF c.stream THEN 5 ELSE 6
        /\ P[1] = "alias" /\ P[2] = "temp" /\ P[3] = "input"
        /\ c.stream => P[4] = "write" /\ P[5] = "replace"
        /\ ~c.stream => P[4] = "compute" /\ P[5] = "write" /\ P[6] = "replace"
    BY <1>3, ProgramCalls DEF P
  <2>2. P # <<>> /\ P[Len(P)] = LastCall(c) /\ Head(P) = P[1]
    BY <1>1, <1>3, <2>1 DEF LastCall
  <2>3. \A i \in 1..(Len(P) - 1) : P[i + 1] \in Following(c, P[i])
    BY <1>1, <1>3, <2>1 DEF Following
  <2>4. \A i \in 1..Len(P) : P[i] = "replace" <=> Len(P) + 1 - i \in LeftAtReplace(c)
    BY <1>1, <1>3, <2>1 DEF LeftAtReplace
  <2>5. Done(c, Len(P)) = 0  BY <1>3, <2>1 DEF Done
  <2> QED  BY <1>1, <1>3, <2>1, <2>2, <2>3, <2>4, <2>5 DEF P, Ordered
<1>4. CASE c.op \in {"encrypt", "decrypt"}
  <2>1. /\ Len(P) = IF c.stream THEN 7 ELSE 8
        /\ P[1] = "alias" /\ P[2] \in {"keyset", "bundle"} /\ P[3] = "input"
        /\ c.stream =>
             P[4] = "temp" /\ P[5] = "write" /\ P[6] = "replace" /\ P[7] = "report"
        /\ ~c.stream => /\ P[4] = "compute" /\ P[5] = "temp" /\ P[6] = "write"
                        /\ P[7] = "replace" /\ P[8] = "report"
    BY <1>4, ProgramCalls DEF P
  <2>2. P # <<>> /\ P[Len(P)] = LastCall(c) /\ Head(P) = P[1]
    BY <1>1, <1>4, <2>1 DEF LastCall
  <2>3. \A i \in 1..(Len(P) - 1) : P[i + 1] \in Following(c, P[i])
    <3>1. CASE c.stream   BY <1>1, <1>4, <2>1, <3>1 DEF Following
    <3>2. CASE ~c.stream  BY <1>1, <1>4, <2>1, <3>2 DEF Following
    <3> QED  BY <3>1, <3>2
  <2>4. \A i \in 1..Len(P) : P[i] = "replace" <=> Len(P) + 1 - i \in LeftAtReplace(c)
    BY <1>1, <1>4, <2>1 DEF LeftAtReplace
  <2>5. Done(c, Len(P)) = 0  BY <1>4, <2>1 DEF Done
  <2> QED  BY <1>1, <1>4, <2>1, <2>2, <2>3, <2>4, <2>5 DEF P, Ordered
<1>5. CASE c.op = "migrate"
  <2>1. /\ Len(P) = IF c.stream THEN 8 ELSE 9
        /\ P[1] = "alias" /\ P[2] = "keyset" /\ P[3] = "bundle" /\ P[4] = "input"
        /\ c.stream =>
             P[5] = "temp" /\ P[6] = "write" /\ P[7] = "replace" /\ P[8] = "report"
        /\ ~c.stream => /\ P[5] = "compute" /\ P[6] = "temp" /\ P[7] = "write"
                        /\ P[8] = "replace" /\ P[9] = "report"
    BY <1>5, ProgramCalls DEF P
  <2>2. P # <<>> /\ P[Len(P)] = LastCall(c) /\ Head(P) = P[1]
    BY <1>1, <1>5, <2>1 DEF LastCall
  <2>3. \A i \in 1..(Len(P) - 1) : P[i + 1] \in Following(c, P[i])
    <3>1. CASE c.stream   BY <1>1, <1>5, <2>1, <3>1 DEF Following
    <3>2. CASE ~c.stream  BY <1>1, <1>5, <2>1, <3>2 DEF Following
    <3> QED  BY <3>1, <3>2
  <2>4. \A i \in 1..Len(P) : P[i] = "replace" <=> Len(P) + 1 - i \in LeftAtReplace(c)
    BY <1>1, <1>5, <2>1 DEF LeftAtReplace
  <2>5. Done(c, Len(P)) = 0  BY <1>5, <2>1 DEF Done
  <2> QED  BY <1>1, <1>5, <2>1, <2>2, <2>3, <2>4, <2>5 DEF P, Ordered
<1> QED  BY <1>2, <1>3, <1>4, <1>5, CommandOps

LEMMA TailSeq ==
  ASSUME NEW t \in Seq(Call), t # <<>>
  PROVE  /\ Tail(t) \in Seq(Call)
         /\ Len(Tail(t)) = Len(t) - 1
         /\ \A i \in 1..Len(Tail(t)) : Tail(t)[i] = t[i + 1]
         /\ Head(t) = t[1] /\ Head(t) \in Call
         /\ Len(t) \in Nat /\ Len(t) >= 1
         /\ Tail(t) = <<>> <=> Len(t) = 1
<1>1. Len(t) \in Nat /\ Len(t) >= 1  OBVIOUS
<1>2. /\ Tail(t) \in Seq(Call) /\ Len(Tail(t)) = Len(t) - 1
      /\ \A i \in 1..Len(Tail(t)) : Tail(t)[i] = t[i + 1]
  OBVIOUS
<1>3. Head(t) = t[1] /\ Head(t) \in Call  OBVIOUS
<1>4. Tail(t) = <<>> <=> Len(t) = 1
  <2>1. \A s \in Seq(Call) : s = <<>> <=> Len(s) = 0  OBVIOUS
  <2> QED  BY <1>1, <1>2, <2>1
<1> QED  BY <1>1, <1>2, <1>3, <1>4

\* What is left of a program after a call is in order too.
LEMMA TailOrdered ==
  ASSUME NEW c \in Command, NEW t, Ordered(c, t), Tail(t) # <<>>
  PROVE  /\ Ordered(c, Tail(t))
         /\ Head(Tail(t)) \in Following(c, Head(t))
<1> DEFINE s == Tail(t)
<1>1. t \in Seq(Call) /\ t # <<>>  BY DEF Ordered
<1>2. /\ s \in Seq(Call) /\ s # <<>>
      /\ Len(t) \in Nat /\ Len(s) = Len(t) - 1
      /\ \A i \in 1..Len(s) : s[i] = t[i + 1]
      /\ Head(t) = t[1] /\ Len(s) >= 1 /\ Head(s) = s[1]
  BY <1>1, TailSeq
<1> HIDE DEF s
<1>3. s[Len(s)] = LastCall(c)  BY <1>2 DEF Ordered
<1>4. \A i \in 1..(Len(s) - 1) : s[i + 1] \in Following(c, s[i])
  <2> SUFFICES ASSUME NEW i \in 1..(Len(s) - 1)
               PROVE  s[i + 1] \in Following(c, s[i])
    OBVIOUS
  <2>1. s[i] = t[i + 1] /\ s[i + 1] = t[i + 2] /\ i + 1 \in 1..(Len(t) - 1)
    BY <1>2
  <2>2. t[(i + 1) + 1] \in Following(c, t[i + 1])  BY <2>1 DEF Ordered
  <2> QED  BY <2>1, <2>2
<1>5. \A i \in 1..Len(s) : s[i] = "replace" <=> Len(s) + 1 - i \in LeftAtReplace(c)
  <2> SUFFICES ASSUME NEW i \in 1..Len(s)
               PROVE  s[i] = "replace" <=> Len(s) + 1 - i \in LeftAtReplace(c)
    OBVIOUS
  <2>1. s[i] = t[i + 1] /\ i + 1 \in 1..Len(t) /\ Len(t) + 1 - (i + 1) = Len(s) + 1 - i
    BY <1>2
  <2> QED  BY <2>1 DEF Ordered
<1>6. s[1] = t[2] /\ 1 \in 1..(Len(t) - 1)  BY <1>2
<1>7. s[1] \in Following(c, t[1])  BY <1>6 DEF Ordered
<1>8. c.op = "keygen" => \A i \in 1..Len(s) : s[i] \notin Reads
  <2> SUFFICES ASSUME c.op = "keygen", NEW i \in 1..Len(s)
               PROVE  s[i] \notin Reads
    OBVIOUS
  <2>1. s[i] = t[i + 1] /\ i + 1 \in 1..Len(t)  BY <1>2
  <2> QED  BY <2>1 DEF Ordered
<1> QED  BY <1>2, <1>3, <1>4, <1>5, <1>7, <1>8 DEF Ordered, s

LEMMA DoneSteps ==
  ASSUME NEW c, NEW n \in Nat, n >= 1
  PROVE  /\ n \notin LeftAtReplace(c) /\ n # 1 => Done(c, n - 1) = Done(c, n)
         /\ n \in LeftAtReplace(c) =>
              /\ c.op = "keygen" => /\ Done(c, n) \in {0, 1}
                                    /\ Done(c, n - 1) = Done(c, n) + 1
              /\ c.op # "keygen" => Done(c, n) = 0
              /\ c.op \notin {"keygen", "migrate_file"} => Done(c, n - 1) = 1
              /\ n = 1 <=> c.op = "migrate_file"
<1>1. CASE c.op = "keygen"
  <2>1. n \in LeftAtReplace(c) <=> n = 5 \/ n = 2  BY <1>1 DEF LeftAtReplace
  <2>2. Done(c, n) = IF n >= 5 THEN 0 ELSE IF n >= 2 THEN 1 ELSE 2  BY <1>1 DEF Done
  <2>3. Done(c, n - 1) = IF n - 1 >= 5 THEN 0 ELSE IF n - 1 >= 2 THEN 1 ELSE 2
    BY <1>1 DEF Done
  <2> QED  BY <1>1, <2>1, <2>2, <2>3
<1>2. CASE c.op = "migrate_file"
  <2>1. n \in LeftAtReplace(c) <=> n = 1  BY <1>2 DEF LeftAtReplace
  <2>2. Done(c, n) = 0 /\ Done(c, n - 1) = 0  BY <1>2 DEF Done
  <2> QED  BY <1>2, <2>1, <2>2
<1>3. CASE c.op \notin {"keygen", "migrate_file"}
  <2>1. n \in LeftAtReplace(c) <=> n = 2  BY <1>3 DEF LeftAtReplace
  <2>2. Done(c, n) = IF n >= 2 THEN 0 ELSE 1  BY <1>3 DEF Done
  <2>3. Done(c, n - 1) = IF n - 1 >= 2 THEN 0 ELSE 1  BY <1>3 DEF Done
  <2> QED  BY <1>3, <2>1, <2>2, <2>3
<1> QED  BY <1>1, <1>2, <1>3

LEMMA HeadReplaces ==
  ASSUME NEW c, NEW t, Ordered(c, t)
  PROVE  /\ Len(t) \in Nat /\ Len(t) >= 1
         /\ Len(Tail(t)) = Len(t) - 1
         /\ Tail(t) = <<>> <=> Len(t) = 1
         /\ Head(t) = "replace" <=> Len(t) \in LeftAtReplace(c)
         /\ Len(t) = 1 => Head(t) = LastCall(c)
         /\ c.op = "keygen" => Head(t) \notin Reads
<1>1. /\ t \in Seq(Call) /\ Len(t) \in Nat /\ Len(t) >= 1 /\ Head(t) = t[1]
      /\ Len(Tail(t)) = Len(t) - 1
      /\ Tail(t) = <<>> <=> Len(t) = 1
  BY TailSeq DEF Ordered
<1>2. 1 \in 1..Len(t) /\ Len(t) + 1 - 1 = Len(t)  BY <1>1
<1>3. t[1] = "replace" <=> Len(t) + 1 - 1 \in LeftAtReplace(c)  BY <1>2 DEF Ordered
<1> QED  BY <1>1, <1>2, <1>3 DEF Ordered

\* A call that replaces no file is followed by another, unless it is the report.
LEMMA GoesOn ==
  ASSUME NEW c \in Command, NEW t, Ordered(c, t),
         Head(t) \notin {"replace", "report"}
  PROVE  Tail(t) # <<>> /\ Done(c, Len(Tail(t))) = Done(c, Len(t))
<1>1. Len(t) # 1  BY HeadReplaces DEF LastCall
<1> QED  BY <1>1, HeadReplaces, DoneSteps

LEMMA ReplaceCounts ==
  ASSUME NEW c \in Command, NEW t, Ordered(c, t), Head(t) = "replace"
  PROVE  /\ Tail(t) = <<>> <=> c.op = "migrate_file"
         /\ c.op = "keygen" => /\ Done(c, Len(t)) \in {0, 1}
                               /\ Done(c, Len(Tail(t))) = Done(c, Len(t)) + 1
         /\ c.op # "keygen" => Done(c, Len(t)) = 0
         /\ c.op \notin {"keygen", "migrate_file"} => Done(c, Len(Tail(t))) = 1
  BY HeadReplaces, DoneSteps

LEMMA ReportIsLast ==
  ASSUME NEW c \in Command, NEW t, Ordered(c, t), Head(t) = "report"
  PROVE  Len(t) = 1 /\ c.op # "migrate_file"
<1>1. t \in Seq(Call) /\ Len(t) \in Nat /\ Len(t) >= 1 /\ Head(t) = t[1]
  BY TailSeq DEF Ordered
<1>2. Following(c, "report") = {}  BY DEF Following
<1>3. Len(t) = 1
  <2> SUFFICES ASSUME Len(t) # 1 PROVE FALSE  OBVIOUS
  <2> DEFINE n == Len(t)
  <2>1. n \in Nat /\ n >= 1 /\ n # 1  BY <1>1
  <2> HIDE DEF n
  <2>2. 1 \in 1..(n - 1)  BY <2>1
  <2>3. 1 \in 1..(Len(t) - 1)  BY <2>2 DEF n
  <2>4. t[1 + 1] \in Following(c, t[1])  BY <2>3 DEF Ordered
  <2> QED  BY <1>1, <1>2, <2>4
<1> QED  BY <1>1, <1>3 DEF Ordered, LastCall
-----------------------------------------------------------------------------
\* Steps.

LEMMA OutputWhole ==
  ASSUME TypeInv, NEW p \in Proc, cmd[p] \in Command
  PROVE  /\ Output(p) \subseteq Whole
         /\ cmd[p].op # "keygen" => Output(p) \subseteq Plain \cup Cipher
         /\ cmd[p].op = "keygen" =>
              Output(p) \subseteq {x \in IF replaced[p] = <<>> THEN Bundle ELSE Keyset : x.key = p}
<1>1. CASE cmd[p].op = "keygen"        BY <1>1 DEF Output, Whole
<1>2. CASE cmd[p].op = "encrypt"       BY <1>2 DEF Output, Whole
<1>3. CASE cmd[p].op = "decrypt"       BY <1>3 DEF Output, Whole
<1>4. CASE cmd[p].op \in {"migrate", "migrate_file"}  BY <1>4 DEF Output, Whole
<1> QED  BY <1>1, <1>2, <1>3, <1>4, CommandOps

\* A process is where it was if nothing it holds changes.
LEMMA ProcessKept ==
  ASSUME NEW p \in Proc, ProcInv(p), faults \subseteq faults',
         status'[p] = status[p], cmd'[p] = cmd[p], todo'[p] = todo[p],
         mem'[p] = mem[p], temp'[p] = temp[p], synced'[p] = synced[p],
         fd'[p] = fd[p], replaced'[p] = replaced[p]
  PROVE  ProcInv(p)'
<1>1. RunningInv(p)'
  <2>1. Output(p)' = Output(p)  BY DEF Output
  <2> QED  BY <2>1 DEF ProcInv, RunningInv, Holds
<1>2. StoppedInv(p)'  BY DEF ProcInv, StoppedInv
<1>3. KeptInv(p)'     BY DEF ProcInv, KeptInv
<1> QED  BY <1>1, <1>2, <1>3 DEF ProcInv

\* A process that makes a call which replaces no file, and goes on.
LEMMA Advances ==
  ASSUME FilesInv, NEW p \in Proc, status[p] = "running",
         Head(todo[p]) \notin {"replace", "report"},
         todo'[p] = Tail(todo[p]), status'[p] = "running",
         cmd'[p] = cmd[p], replaced'[p] = replaced[p],
         \A next \in Following(cmd[p], Head(todo[p])) : Holds(p, next)'
  PROVE  ProcInv(p)'
<1> DEFINE c == cmd[p]
<1> DEFINE t == todo[p]
<1>1. /\ c \in Command /\ Ordered(c, t)
      /\ Len(replaced[p]) = Done(c, Len(t))
  BY CommandsAssumption DEF FilesInv, ProcInv, RunningInv, StoppedInv
<1>2. Tail(t) # <<>> /\ Done(c, Len(Tail(t))) = Done(c, Len(t))
  BY <1>1, GoesOn
<1>3. Ordered(c, Tail(t)) /\ Head(Tail(t)) \in Following(c, Head(t))
  BY <1>1, <1>2, TailOrdered
<1>4. RunningInv(p)'  BY <1>1, <1>2, <1>3 DEF RunningInv
<1>5. StoppedInv(p)'  BY DEF FilesInv, ProcInv, StoppedInv
<1>6. KeptInv(p)'     BY DEF FilesInv, ProcInv, KeptInv
<1> QED  BY <1>4, <1>5, <1>6 DEF ProcInv

LEMMA RunningFacts ==
  ASSUME FilesInv, NEW p \in Proc, status[p] = "running"
  PROVE  /\ cmd[p] \in Command /\ cmd[p] \in Commands[p] /\ cmd[p] # None
         /\ Ordered(cmd[p], todo[p]) /\ todo[p] \in Seq(Call) /\ todo[p] # <<>>
         /\ Tail(todo[p]) \in Seq(Call) /\ Head(todo[p]) \in Call
         /\ Len(replaced[p]) = Done(cmd[p], Len(todo[p]))
         /\ Holds(p, Head(todo[p]))
<1>1. /\ cmd[p] \in Commands[p] /\ Ordered(cmd[p], todo[p])
      /\ Len(replaced[p]) = Done(cmd[p], Len(todo[p]))
      /\ Holds(p, Head(todo[p]))
  BY DEF FilesInv, ProcInv, RunningInv, StoppedInv
<1>2. cmd[p] \in Command /\ cmd[p] # None
  BY <1>1, CommandsAssumption, AbsentAssumption
<1>3. todo[p] \in Seq(Call) /\ todo[p] # <<>>  BY <1>1 DEF Ordered
<1> QED  BY <1>1, <1>2, <1>3, TailSeq

LEMMA DiskKept ==
  ASSUME FilesInv, UNCHANGED files, faults \subseteq faults'
  PROVE  DiskInv'
  BY DEF FilesInv, DiskInv, files

LEMMA InitFiles == Init => FilesInv
<1> SUFFICES ASSUME Init PROVE FilesInv  OBVIOUS
<1>1. TypeInv
  <2>1. disk \in [Path -> Content \cup {None}]  BY InitialAssumption DEF Init, Content
  <2>2. durable \in [Path -> SUBSET (Content \cup {None})]
    BY InitialAssumption DEF Init, Content
  <2>3. <<>> \in Seq(Call) /\ <<>> \in Seq(Path)  OBVIOUS
  <2>4. Nothing \in [keyset : Keyset \cup {None}, bundle : Bundle \cup {None},
                     input : Content \cup {None}]
    BY DEF Nothing
  <2> QED  BY <2>1, <2>2, <2>3, <2>4 DEF Init, TypeInv
<1>2. DiskInv
  BY InitialAssumption, AbsentAssumption DEF Init, DiskInv, Content
<1>3. ASSUME NEW p \in Proc PROVE ProcInv(p)
  BY DEF Init, ProcInv, RunningInv, StoppedInv, KeptInv
<1> QED  BY <1>1, <1>2, <1>3 DEF FilesInv

LEMMA StartKeeps ==
  ASSUME FilesInv, NEW p \in Proc, Start(p)
  PROVE  FilesInv'
<1>1. status[p] = "idle" /\ UNCHANGED <<files, temps, history>>
  BY DEF Start
<1>2. PICK c \in Commands[p] :
        /\ cmd'  = [cmd EXCEPT ![p] = c]
        /\ todo' = [todo EXCEPT ![p] = Program(c)]
        /\ IF c.op = "migrate_file"
           THEN \E k \in Keyset, b \in Bundle :
                   /\ {k.key, b.key} \subseteq OldKey
                   /\ mem' = [mem EXCEPT ![p] = [Nothing EXCEPT !.keyset = k, !.bundle = b]]
           ELSE UNCHANGED mem
        /\ overlaps' = overlaps \cup
             {{p, q} : q \in {r \in Proc : /\ c.op = "keygen" /\ status[r] = "running"
                                        /\ cmd[r].op = "keygen"}}
  BY DEF Start
<1>3. c \in Command /\ c # None  BY CommandsAssumption, AbsentAssumption
<1>4. Program(c) \in Seq(Call)   BY <1>3, ProgramSeq
<1>5. /\ status' = [status EXCEPT ![p] = "running"]
      /\ cmd'    = [cmd EXCEPT ![p] = c]
      /\ todo'   = [todo EXCEPT ![p] = Program(c)]
  BY <1>2 DEF Start
<1>6. UNCHANGED <<disk, durable, temp, synced, fd, replaced, faults, power>>
  BY <1>1 DEF files, temps, history
<1>7. TypeInv  BY DEF FilesInv
<1>8. /\ mem' \in [Proc -> [keyset : Keyset \cup {None}, bundle : Bundle \cup {None},
                            input : Content \cup {None}]]
      /\ \A q \in Proc \ {p} : mem'[q] = mem[q]
      /\ mem'[p].input = None
  <2>1. mem[p] = Nothing  BY <1>1 DEF FilesInv, ProcInv, StoppedInv
  <2>2. mem \in [Proc -> [keyset : Keyset \cup {None}, bundle : Bundle \cup {None},
                          input : Content \cup {None}]]
    BY <1>7 DEF TypeInv
  <2>3. CASE c.op = "migrate_file"
    <3>1. PICK k \in Keyset, b \in Bundle :
             mem' = [mem EXCEPT ![p] = [Nothing EXCEPT !.keyset = k, !.bundle = b]]
      BY <1>2, <2>3
    <3> DEFINE m == [Nothing EXCEPT !.keyset = k, !.bundle = b]
    <3>2. /\ m \in [keyset : Keyset \cup {None}, bundle : Bundle \cup {None},
                    input : Content \cup {None}]
          /\ m.input = None
      BY DEF Nothing
    <3> HIDE DEF m
    <3>3. mem' = [mem EXCEPT ![p] = m]  BY <3>1 DEF m
    <3> QED  BY <2>2, <3>2, <3>3
  <2>4. CASE c.op # "migrate_file"
    <3>1. mem' = mem  BY <1>2, <2>4
    <3> QED  BY <2>1, <2>2, <3>1 DEF Nothing
  <2> QED  BY <2>3, <2>4
<1>9. TypeInv'
  <2>1. overlaps' \subseteq {{q, r} : q, r \in Proc}
    <3>1. overlaps' \subseteq overlaps \cup {{p, q} : q \in Proc}  BY <1>2
    <3>2. overlaps \subseteq {{q, r} : q, r \in Proc}  BY <1>7 DEF TypeInv
    <3> QED  BY <3>1, <3>2
  <2>2. cmd' \in [Proc -> Command \cup {None}]  BY <1>3, <1>5, <1>7 DEF TypeInv
  <2>3. todo' \in [Proc -> Seq(Call)]  BY <1>4, <1>5, <1>7 DEF TypeInv
  <2>4. status' \in [Proc -> {"idle", "running", "done", "failed", "interrupted", "killed"}]
    BY <1>5, <1>7 DEF TypeInv
  <2> QED  BY <1>6, <1>7, <1>8, <2>1, <2>2, <2>3, <2>4 DEF TypeInv
<1>10. DiskInv'  BY <1>1, DiskKept DEF history
<1>11. ASSUME NEW q \in Proc PROVE ProcInv(q)'
  <2>1. CASE q # p
    <3>1. /\ status'[q] = status[q] /\ cmd'[q] = cmd[q] /\ todo'[q] = todo[q]
          /\ mem'[q] = mem[q]
      BY <1>5, <1>7, <1>8, <2>1 DEF TypeInv
    <3> QED  BY <1>6, <3>1, ProcessKept DEF FilesInv
  <2>2. CASE q = p
    <3>1. /\ cmd'[p] = c /\ todo'[p] = Program(c) /\ status'[p] = "running"
      BY <1>5, <1>7 DEF TypeInv
    <3>2. temp'[p] = None /\ ~fd'[p] /\ replaced'[p] = <<>>
      BY <1>1, <1>6 DEF FilesInv, ProcInv, StoppedInv
    <3>3. RunningInv(p)'
      BY <1>3, <1>8, <3>1, <3>2, StartOrdered DEF RunningInv, Holds, Apart
    <3>4. StoppedInv(p)'  BY <3>1 DEF StoppedInv
    <3>5. KeptInv(p)'     BY <3>2 DEF KeptInv
    <3> QED  BY <2>2, <3>3, <3>4, <3>5 DEF ProcInv
  <2> QED  BY <2>1, <2>2
<1> QED  BY <1>9, <1>10, <1>11 DEF FilesInv
\* Process p takes a step that changes what p holds and nothing of the others.
LEMMA StepKeeps ==
  ASSUME FilesInv, NEW p \in Proc, TypeInv', DiskInv', ProcInv(p)',
         faults \subseteq faults',
         \A q \in Proc \ {p} :
            /\ status'[q] = status[q] /\ cmd'[q] = cmd[q] /\ todo'[q] = todo[q]
            /\ mem'[q] = mem[q] /\ temp'[q] = temp[q] /\ synced'[q] = synced[q]
            /\ fd'[q] = fd[q] /\ replaced'[q] = replaced[q]
  PROVE  FilesInv'
<1>1. ASSUME NEW q \in Proc PROVE ProcInv(q)'
  <2>1. CASE q # p  BY <2>1, ProcessKept DEF FilesInv
  <2> QED  BY <2>1
<1> QED  BY <1>1 DEF FilesInv

LEMMA AdvanceTodo ==
  ASSUME FilesInv, NEW p \in Proc, status[p] = "running", Advance(p)
  PROVE  /\ todo' \in [Proc -> Seq(Call)] /\ status' = status
         /\ todo'[p] = Tail(todo[p])
         /\ \A q \in Proc \ {p} : todo'[q] = todo[q]
<1>1. todo \in [Proc -> Seq(Call)]  BY DEF FilesInv, TypeInv
<1>2. Tail(todo[p]) \in Seq(Call)   BY RunningFacts
<1> QED  BY <1>1, <1>2 DEF Advance

LEMMA CheckAliasKeeps ==
  ASSUME FilesInv, NEW p \in Proc, CheckAlias(p)
  PROVE  FilesInv'
<1>1. /\ status[p] = "running" /\ Head(todo[p]) = "alias" /\ Advance(p)
      /\ UNCHANGED <<files, temps, history, args>>
      /\ cmd[p].in # cmd[p].out \/ (cmd[p].op = "migrate_file" /\ disk[cmd[p].in] = None)
  BY DEF CheckAlias, At
<1>2. /\ todo' \in [Proc -> Seq(Call)] /\ status' = status
      /\ todo'[p] = Tail(todo[p])
      /\ \A q \in Proc \ {p} : todo'[q] = todo[q]
  BY <1>1, AdvanceTodo
<1>3. UNCHANGED <<disk, durable, power, cmd, mem, overlaps, temp, synced, fd,
                  replaced, faults>>
  BY <1>1 DEF files, args, temps, history
<1>4. TypeInv'  BY <1>2, <1>3 DEF FilesInv, TypeInv
<1>5. DiskInv'  BY <1>1, DiskKept DEF history
<1>6. cmd[p] \in Command /\ Holds(p, "alias")  BY <1>1, RunningFacts
<1>7. Apart(cmd[p])
  <2>1. CASE cmd[p].op = "migrate_file" /\ disk[cmd[p].in] = None
    <3>1. cmd[p].in \in Path  BY <1>6, <2>1, CommandOps
    <3>2. None \in durable[cmd[p].in]  BY <2>1, <3>1 DEF FilesInv, DiskInv
    <3> QED  BY <2>1, <3>1, <3>2 DEF FilesInv, DiskInv, Apart
  <2> QED  BY <1>1, <2>1 DEF Apart
<1>8. ASSUME NEW next \in Following(cmd[p], "alias") PROVE Holds(p, next)'
  <2>1. next \in {"temp", "keyset", "bundle"}  BY DEF Following
  <2>2. temp[p] = None /\ ~(fd[p] /\ temp[p] # Torn)  BY <1>6 DEF Holds
  <2> QED  BY <1>3, <1>6, <1>7, <2>1 DEF Holds, Apart
<1>9. ProcInv(p)'  BY <1>1, <1>2, <1>3, <1>8, Advances
<1> QED  BY <1>2, <1>3, <1>4, <1>5, <1>9, StepKeeps

LEMMA ReadKeeps ==
  ASSUME FilesInv, NEW p \in Proc, Read(p)
  PROVE  FilesInv'
<1> DEFINE Memory == [keyset : Keyset \cup {None}, bundle : Bundle \cup {None},
                      input : Content \cup {None}]
<1>1. /\ status[p] = "running" /\ Head(todo[p]) \in {"keyset", "bundle", "input"}
      /\ Advance(p) /\ UNCHANGED <<files, temps, history, cmd, overlaps>>
  BY DEF Read, At
<1>2. /\ todo' \in [Proc -> Seq(Call)] /\ status' = status
      /\ todo'[p] = Tail(todo[p])
      /\ \A q \in Proc \ {p} : todo'[q] = todo[q]
  BY <1>1, AdvanceTodo
<1>3. UNCHANGED <<disk, durable, power, cmd, overlaps, temp, synced, fd,
                  replaced, faults>>
  BY <1>1 DEF files, temps, history
<1>4. mem' \in [Proc -> Memory] /\ \A q \in Proc \ {p} : mem'[q] = mem[q]
  <2>1. mem \in [Proc -> Memory]  BY DEF FilesInv, TypeInv
  <2>2. CASE Head(todo[p]) = "keyset"
    <3>1. /\ disk[cmd[p].key] \in Keyset
          /\ mem' = [mem EXCEPT ![p].keyset = disk[cmd[p].key]]
      BY <2>2 DEF Read, At
    <3> QED  BY <2>1, <3>1
  <2>3. CASE Head(todo[p]) = "bundle"
    <3>1. /\ disk[cmd[p].bundle] \in Bundle
          /\ mem' = [mem EXCEPT ![p].bundle = disk[cmd[p].bundle]]
      BY <2>3 DEF Read, At
    <3> QED  BY <2>1, <3>1
  <2>4. CASE Head(todo[p]) = "input"
    <3>1. mem' = [mem EXCEPT ![p].input = disk[cmd[p].in]]
      BY <2>4 DEF Read, At
    <3>2. cmd[p].op # "keygen"
      <4>1. cmd[p] \in Command /\ Holds(p, "input") /\ Ordered(cmd[p], todo[p])
        BY <1>1, <2>4, RunningFacts
      <4> QED  BY <2>4, <4>1, HeadReplaces DEF Reads
    <3>3. disk[cmd[p].in] \in Content \cup {None}
      BY <1>1, <3>2, RunningFacts, CommandOps DEF FilesInv, TypeInv
    <3> QED  BY <2>1, <3>1, <3>3
  <2> QED  BY <1>1, <2>2, <2>3, <2>4
<1>5. TypeInv'  BY <1>2, <1>3, <1>4 DEF FilesInv, TypeInv
<1>6. DiskInv'  BY <1>1, DiskKept DEF history
<1>7. cmd[p] \in Command /\ Holds(p, Head(todo[p]))  BY <1>1, RunningFacts
<1>8. ASSUME NEW next \in Following(cmd[p], Head(todo[p])) PROVE Holds(p, next)'
  <2>1. CASE cmd[p].op = "migrate_file"
    <3>1. \/ next \in {"compute", "write"} /\ Head(todo[p]) = "input"
          \/ Head(todo[p]) \in {"keyset", "bundle"}
      BY <1>1, <2>1 DEF Following
    <3>2. Following(cmd[p], "keyset") = {} /\ Following(cmd[p], "bundle") = {}
      BY <2>1 DEF Following
    <3>3. next \in {"compute", "write"} /\ Head(todo[p]) = "input"
      BY <3>1, <3>2
    <3> QED  BY <1>3, <1>7, <2>1, <3>3 DEF Holds, Apart
  <2>2. CASE cmd[p].op # "migrate_file"
    <3>1. next \in {"bundle", "input", "compute", "temp"}
      BY <1>1, <2>2 DEF Following
    <3> QED  BY <1>1, <1>3, <1>7, <2>2, <3>1 DEF Holds, Apart
  <2> QED  BY <2>1, <2>2
<1>9. ProcInv(p)'  BY <1>1, <1>2, <1>3, <1>8, Advances
<1> QED  BY <1>2, <1>3, <1>4, <1>5, <1>6, <1>9, StepKeeps
LEMMA ComputeKeeps ==
  ASSUME FilesInv, NEW p \in Proc, Compute(p)
  PROVE  FilesInv'
<1>1. /\ status[p] = "running" /\ Head(todo[p]) = "compute" /\ Advance(p)
      /\ UNCHANGED <<files, args, temps, history>>
  BY DEF Compute, At
<1>2. /\ todo' \in [Proc -> Seq(Call)] /\ status' = status
      /\ todo'[p] = Tail(todo[p])
      /\ \A q \in Proc \ {p} : todo'[q] = todo[q]
  BY <1>1, AdvanceTodo
<1>3. UNCHANGED <<disk, durable, power, cmd, mem, overlaps, temp, synced, fd,
                  replaced, faults>>
  BY <1>1 DEF files, args, temps, history
<1>4. TypeInv'  BY <1>2, <1>3 DEF FilesInv, TypeInv
<1>5. DiskInv'  BY <1>1, DiskKept DEF history
<1>6. cmd[p] \in Command /\ Holds(p, "compute")  BY <1>1, RunningFacts
<1>7. ASSUME NEW next \in Following(cmd[p], "compute") PROVE Holds(p, next)'
  <2>1. next = IF cmd[p].op = "migrate_file" THEN "write" ELSE "temp"
    BY DEF Following
  <2> QED  BY <1>3, <1>6, <2>1 DEF Holds, Apart
<1>8. ProcInv(p)'  BY <1>1, <1>2, <1>3, <1>7, Advances
<1> QED  BY <1>2, <1>3, <1>4, <1>5, <1>8, StepKeeps

LEMMA MakeTempKeeps ==
  ASSUME FilesInv, NEW p \in Proc, MakeTemp(p)
  PROVE  FilesInv'
<1>1. /\ status[p] = "running" /\ Head(todo[p]) = "temp" /\ Advance(p)
      /\ temp' = [temp EXCEPT ![p] = Torn]
      /\ fd' = [fd EXCEPT ![p] = ~(cmd[p].op = "migrate_file" /\ ~cmd[p].stream)]
      /\ UNCHANGED <<files, history, args, synced>>
  BY DEF MakeTemp, At
<1>2. /\ todo' \in [Proc -> Seq(Call)] /\ status' = status
      /\ todo'[p] = Tail(todo[p])
      /\ \A q \in Proc \ {p} : todo'[q] = todo[q]
  BY <1>1, AdvanceTodo
<1>3. UNCHANGED <<disk, durable, power, cmd, mem, overlaps, synced, replaced, faults>>
  BY <1>1 DEF files, args, history
<1>4. /\ temp' \in [Proc -> Content \cup {None}] /\ fd' \in [Proc -> BOOLEAN]
      /\ temp'[p] = Torn
      /\ \A q \in Proc \ {p} : temp'[q] = temp[q] /\ fd'[q] = fd[q]
  <2>1. temp \in [Proc -> Content \cup {None}] /\ fd \in [Proc -> BOOLEAN]
    BY DEF FilesInv, TypeInv
  <2>2. Torn \in Content  BY DEF Content
  <2>3. (~(cmd[p].op = "migrate_file" /\ ~cmd[p].stream)) \in BOOLEAN  OBVIOUS
  <2> QED  BY <1>1, <2>1, <2>2, <2>3
<1>5. TypeInv'  BY <1>2, <1>3, <1>4 DEF FilesInv, TypeInv
<1>6. DiskInv'  BY <1>1, DiskKept DEF history
<1>7. cmd[p] \in Command /\ Holds(p, "temp")  BY <1>1, RunningFacts
<1>8. ASSUME NEW next \in Following(cmd[p], "temp") PROVE Holds(p, next)'
  <2>1. next = IF cmd[p].op = "migrate_file" THEN "input" ELSE "write"
    BY DEF Following
  <2> QED  BY <1>3, <1>4, <1>7, <2>1 DEF Holds, Apart
<1>9. ProcInv(p)'  BY <1>1, <1>2, <1>3, <1>8, Advances
<1> QED  BY <1>2, <1>3, <1>4, <1>5, <1>6, <1>9, StepKeeps

LEMMA WriteKeeps ==
  ASSUME FilesInv, NEW p \in Proc, Write(p)
  PROVE  FilesInv'
<1>1. /\ status[p] = "running" /\ Head(todo[p]) = "write" /\ Advance(p)
      /\ fd' = [fd EXCEPT ![p] = FALSE]
      /\ UNCHANGED <<files, args, replaced>>
  BY DEF Write, At
<1>2. PICK x \in Output(p) : temp' = [temp EXCEPT ![p] = x]  BY DEF Write
<1>3. PICK ok \in BOOLEAN :
        /\ synced' = [synced EXCEPT ![p] = ok]
        /\ faults' = IF ok THEN faults ELSE faults \cup {"fsync"}
  BY DEF Write
<1>4. /\ todo' \in [Proc -> Seq(Call)] /\ status' = status
      /\ todo'[p] = Tail(todo[p])
      /\ \A q \in Proc \ {p} : todo'[q] = todo[q]
  BY <1>1, AdvanceTodo
<1>5. UNCHANGED <<disk, durable, power, cmd, mem, overlaps, replaced>>
  BY <1>1 DEF files, args
<1>6. cmd[p] \in Command /\ Holds(p, "write")  BY <1>1, RunningFacts
<1>7. x \in Whole  BY <1>6, OutputWhole DEF FilesInv
<1>8. /\ temp' \in [Proc -> Content \cup {None}] /\ fd' \in [Proc -> BOOLEAN]
      /\ synced' \in [Proc -> BOOLEAN] /\ faults' \subseteq {"fsync", "unlink", "report"}
      /\ temp'[p] = x /\ ~fd'[p] /\ faults \subseteq faults'
      /\ synced'[p] \/ "fsync" \in faults'
      /\ \A q \in Proc \ {p} :
            temp'[q] = temp[q] /\ fd'[q] = fd[q] /\ synced'[q] = synced[q]
  BY <1>1, <1>2, <1>3, <1>7 DEF FilesInv, TypeInv, Content
<1>9. TypeInv'  BY <1>4, <1>5, <1>8 DEF FilesInv, TypeInv
<1>10. DiskInv'  BY <1>1, <1>8, DiskKept
<1>11. ASSUME NEW next \in Following(cmd[p], "write") PROVE Holds(p, next)'
  <2>1. next = "replace"  BY DEF Following
  <2>2. Output(p)' = Output(p)  BY <1>5 DEF Output
  <2>3. x # Torn  BY <1>7, AbsentAssumption
  <2> QED  BY <1>5, <1>6, <1>8, <2>1, <2>2, <2>3 DEF Holds, Apart
<1>12. ProcInv(p)'  BY <1>1, <1>4, <1>5, <1>11, Advances
<1> QED  BY <1>4, <1>5, <1>8, <1>9, <1>10, <1>12, StepKeeps

\* What a process replaces next is a path, and no file it has read.
LEMMA TargetFacts ==
  ASSUME FilesInv, NEW p \in Proc, status[p] = "running", Head(todo[p]) = "replace"
  PROVE  /\ Target(p) \in Path
         /\ Target(p) = cmd[p].in =>
              cmd[p].op = "migrate_file" /\ Initial[cmd[p].in] = None
         /\ cmd[p].op # "keygen" => replaced[p] = <<>> /\ Target(p) = cmd[p].out
         /\ cmd[p].op = "keygen" =>
              /\ Len(replaced[p]) \in {0, 1}
              /\ Target(p) = IF Len(replaced[p]) = 0 THEN cmd[p].bundle ELSE cmd[p].key
<1>1. /\ cmd[p] \in Command /\ Ordered(cmd[p], todo[p])
      /\ Len(replaced[p]) = Done(cmd[p], Len(todo[p]))
      /\ Holds(p, "replace")
  BY RunningFacts
<1>2. replaced[p] \in Seq(Path)  BY DEF FilesInv, TypeInv
<1>3. CASE cmd[p].op = "keygen"
  <2>1. Len(replaced[p]) \in {0, 1}  BY <1>1, <1>3, ReplaceCounts
  <2>2. Target(p) = IF Len(replaced[p]) = 0 THEN cmd[p].bundle ELSE cmd[p].key
    <3>1. Target(p) = <<cmd[p].bundle, cmd[p].key>>[Len(replaced[p]) + 1]
      BY <1>3 DEF Target, Targets
    <3>2. CASE Len(replaced[p]) = 0  BY <3>1, <3>2
    <3>3. CASE Len(replaced[p]) = 1  BY <3>1, <3>3
    <3> QED  BY <2>1, <3>2, <3>3
  <2> QED  BY <1>1, <1>3, <2>1, <2>2, CommandOps, AbsentAssumption
<1>4. CASE cmd[p].op # "keygen"
  <2>1. Len(replaced[p]) = 0  BY <1>1, <1>4, ReplaceCounts
  <2>2. replaced[p] = <<>>    BY <1>2, <2>1
  <2>3. Target(p) = cmd[p].out  BY <1>4, <2>1 DEF Target, Targets
  <2> QED  BY <1>1, <1>4, <2>2, <2>3, CommandOps DEF Holds, Apart
<1> QED  BY <1>3, <1>4
\* What a process holds after it has replaced a file, whichever it was.
LEMMA ReplaceStep ==
  ASSUME FilesInv, NEW p \in Proc, Replace(p)
  PROVE  /\ status[p] = "running" /\ Head(todo[p]) = "replace"
         /\ Target(p) \in Path /\ temp[p] \in Whole
         /\ synced[p] \/ "fsync" \in faults
         /\ disk' = [disk EXCEPT ![Target(p)] = temp[p]]
         /\ durable' = [durable EXCEPT ![Target(p)] =
                          @ \cup {temp[p]} \cup (IF synced[p] THEN {} ELSE {Torn})]
         /\ UNCHANGED <<cmd, mem, overlaps, synced, fd, faults, power>>
         /\ temp'[p] = None /\ ~fd'[p] /\ todo'[p] = Tail(todo[p])
         /\ replaced'[p] = Append(replaced[p], Target(p))
         /\ Len(replaced'[p]) = Len(replaced[p]) + 1
         /\ status'[p] = IF cmd[p].op = "migrate_file" THEN "done" ELSE "running"
         /\ \A q \in Proc \ {p} :
               /\ status'[q] = status[q] /\ todo'[q] = todo[q] /\ temp'[q] = temp[q]
               /\ replaced'[q] = replaced[q]
<1>1. /\ status[p] = "running" /\ Head(todo[p]) = "replace"
      /\ temp'     = [temp EXCEPT ![p] = None]
      /\ replaced' = [replaced EXCEPT ![p] = Append(@, Target(p))]
      /\ todo'     = [todo EXCEPT ![p] = Tail(@)]
      /\ status'   = [status EXCEPT ![p] = IF Tail(todo[p]) = <<>> THEN "done" ELSE @]
      /\ UNCHANGED <<cmd, mem, overlaps, synced, fd, faults, power>>
  BY DEF Replace, At, args
<1>2. /\ disk' = [disk EXCEPT ![Target(p)] = temp[p]]
      /\ durable' = [durable EXCEPT ![Target(p)] =
                       @ \cup {temp[p]} \cup (IF synced[p] THEN {} ELSE {Torn})]
  BY DEF Replace
<1>3. /\ cmd[p] \in Command /\ Ordered(cmd[p], todo[p]) /\ Holds(p, "replace")
  BY <1>1, RunningFacts
<1>4. Tail(todo[p]) = <<>> <=> cmd[p].op = "migrate_file"
  BY <1>1, <1>3, ReplaceCounts
<1>5. temp[p] \in Whole /\ ~fd[p] /\ (synced[p] \/ "fsync" \in faults)
  BY <1>3, OutputWhole, AbsentAssumption DEF Holds, FilesInv
<1>6. Target(p) \in Path  BY <1>1, TargetFacts
<1>7. replaced[p] \in Seq(Path)  BY DEF FilesInv, TypeInv
<1>8. Len(Append(replaced[p], Target(p))) = Len(replaced[p]) + 1  BY <1>6, <1>7
<1>9. /\ temp'[p] = None /\ todo'[p] = Tail(todo[p])
      /\ replaced'[p] = Append(replaced[p], Target(p))
      /\ status'[p] = IF cmd[p].op = "migrate_file" THEN "done" ELSE "running"
      /\ \A q \in Proc \ {p} :
            /\ status'[q] = status[q] /\ todo'[q] = todo[q] /\ temp'[q] = temp[q]
            /\ replaced'[q] = replaced[q]
  BY <1>1, <1>4 DEF FilesInv, TypeInv
<1> QED  BY <1>1, <1>2, <1>5, <1>6, <1>8, <1>9

LEMMA ReplaceKeeps ==
  ASSUME FilesInv, NEW p \in Proc, Replace(p)
  PROVE  FilesInv'
<1> DEFINE x == Target(p)
<1>1. /\ status[p] = "running" /\ Head(todo[p]) = "replace"
      /\ x \in Path /\ temp[p] \in Whole
      /\ synced[p] \/ "fsync" \in faults
      /\ disk' = [disk EXCEPT ![x] = temp[p]]
      /\ durable' = [durable EXCEPT ![x] =
                       @ \cup {temp[p]} \cup (IF synced[p] THEN {} ELSE {Torn})]
      /\ UNCHANGED <<cmd, mem, overlaps, synced, fd, faults, power>>
  BY ReplaceStep
<1>2. /\ temp'[p] = None /\ ~fd'[p] /\ todo'[p] = Tail(todo[p])
      /\ replaced'[p] = Append(replaced[p], x)
      /\ Len(replaced'[p]) = Len(replaced[p]) + 1
      /\ status'[p] = IF cmd[p].op = "migrate_file" THEN "done" ELSE "running"
      /\ \A q \in Proc \ {p} :
            /\ status'[q] = status[q] /\ todo'[q] = todo[q] /\ temp'[q] = temp[q]
            /\ replaced'[q] = replaced[q]
  BY ReplaceStep
<1>3. /\ cmd[p] \in Command /\ cmd[p] \in Commands[p] /\ Ordered(cmd[p], todo[p])
      /\ Tail(todo[p]) \in Seq(Call)
      /\ Len(replaced[p]) = Done(cmd[p], Len(todo[p])) /\ Holds(p, "replace")
  BY <1>1, RunningFacts
<1>4. replaced[p] \in Seq(Path)  BY DEF FilesInv, TypeInv
<1> HIDE DEF x
<1>5. TypeInv'
  <2>1. disk' \in [Path -> Content \cup {None}]
    BY <1>1 DEF FilesInv, TypeInv, Content
  <2>2. durable' \in [Path -> SUBSET (Content \cup {None})]
    BY <1>1 DEF FilesInv, TypeInv, Content
  <2>3. temp' = [temp EXCEPT ![p] = None]  BY DEF Replace
  <2>4. replaced' = [replaced EXCEPT ![p] = Append(replaced[p], x)]
    BY DEF Replace, x, FilesInv, TypeInv
  <2>5. Append(replaced[p], x) \in Seq(Path)  BY <1>1, <1>4
  <2>6. todo' = [todo EXCEPT ![p] = Tail(todo[p])]
    BY DEF Replace, FilesInv, TypeInv
  <2>7. status' \in [Proc -> {"idle", "running", "done", "failed", "interrupted", "killed"}]
    BY DEF Replace, FilesInv, TypeInv
  <2>8. temp' \in [Proc -> Content \cup {None}]  BY <2>3 DEF FilesInv, TypeInv
  <2>9. replaced' \in [Proc -> Seq(Path)]  BY <2>4, <2>5 DEF FilesInv, TypeInv
  <2>10. todo' \in [Proc -> Seq(Call)]  BY <1>3, <2>6 DEF FilesInv, TypeInv
  <2> QED  BY <1>1, <2>1, <2>2, <2>7, <2>8, <2>9, <2>10 DEF FilesInv, TypeInv
<1>6. DiskInv'
  <2> SUFFICES ASSUME NEW y \in Path
               PROVE  /\ disk'[y] \in durable'[y]
                      /\ Torn \in durable'[y] => "fsync" \in faults'
                      /\ power' => disk'[y] # Torn
                      /\ Initial[y] # None => None \notin durable'[y]
    BY DEF DiskInv
  <2>1. CASE y # x  BY <1>1, <2>1 DEF FilesInv, DiskInv, TypeInv
  <2>2. CASE y = x
    <3>1. /\ disk'[y] = temp[p]
          /\ durable'[y] = durable[y] \cup {temp[p]}
                             \cup (IF synced[p] THEN {} ELSE {Torn})
      BY <1>1, <2>2 DEF FilesInv, TypeInv
    <3>2. temp[p] # Torn /\ temp[p] # None /\ Torn # None
      BY <1>1, AbsentAssumption DEF Content
    <3> QED  BY <1>1, <3>1, <3>2 DEF FilesInv, DiskInv
  <2> QED  BY <2>1, <2>2
<1>7. ProcInv(p)'
  <2>1. RunningInv(p)'
    <3> SUFFICES ASSUME cmd[p].op # "migrate_file" PROVE RunningInv(p)'
      BY <1>2 DEF RunningInv
    <3>1. Tail(todo[p]) # <<>>  BY <1>1, <1>3, ReplaceCounts
    <3>2. /\ Ordered(cmd[p], Tail(todo[p]))
          /\ Head(Tail(todo[p])) \in {"temp", "report"}
      BY <1>1, <1>3, <3>1, TailOrdered DEF Following
    <3>3. Done(cmd[p], Len(Tail(todo[p]))) = Len(replaced[p]) + 1
      <4>1. CASE cmd[p].op = "keygen"
        <5>1. Done(cmd[p], Len(Tail(todo[p]))) = Done(cmd[p], Len(todo[p])) + 1
          BY <1>1, <1>3, <4>1, ReplaceCounts
        <5> QED  BY <1>3, <5>1
      <4>2. CASE cmd[p].op # "keygen"
        <5>1. Done(cmd[p], Len(todo[p])) = 0 /\ Done(cmd[p], Len(Tail(todo[p]))) = 1
          BY <1>1, <1>3, <4>2, ReplaceCounts
        <5> QED  BY <1>3, <5>1
      <4> QED  BY <4>1, <4>2
    <3>4. Apart(cmd[p])  BY <1>3 DEF Holds
    <3> QED  BY <1>1, <1>2, <3>2, <3>3, <3>4 DEF RunningInv, Holds, Apart
  <2>2. StoppedInv(p)'  BY <1>1, <1>2, <1>3 DEF StoppedInv
  <2>3. KeptInv(p)'
    <3> SUFFICES ASSUME NEW i \in 1..Len(replaced'[p]), replaced'[p][i] = cmd[p].in
                 PROVE  cmd[p].op = "migrate_file" /\ Initial[cmd[p].in] = None
      BY <1>1 DEF KeptInv
    <3>1. CASE i = Len(replaced[p]) + 1
      <4>1. replaced'[p][i] = x  BY <1>1, <1>2, <1>4, <3>1
      <4> QED  BY <1>1, <4>1, TargetFacts DEF x
    <3>2. CASE i # Len(replaced[p]) + 1
      <4>1. Len(replaced[p]) \in Nat  BY <1>4
      <4>2. i \in 1..Len(replaced[p])  BY <1>2, <3>2, <4>1
      <4>3. replaced'[p][i] = replaced[p][i]  BY <1>1, <1>2, <1>4, <4>2
      <4> QED  BY <4>2, <4>3 DEF FilesInv, ProcInv, KeptInv
    <3> QED  BY <3>1, <3>2
  <2> QED  BY <2>1, <2>2, <2>3 DEF ProcInv
<1> QED  BY <1>1, <1>2, <1>5, <1>6, <1>7, StepKeeps
LEMMA ReportKeeps ==
  ASSUME FilesInv, NEW p \in Proc, Report(p)
  PROVE  FilesInv'
<1>1. /\ status[p] = "running" /\ Head(todo[p]) = "report"
      /\ status' = [status EXCEPT ![p] = "done"]
      /\ todo'   = [todo EXCEPT ![p] = <<>>]
      /\ UNCHANGED <<files, temps, history, args>>
  BY DEF Report, At
<1>2. UNCHANGED <<disk, durable, power, cmd, mem, overlaps, temp, synced, fd,
                  replaced, faults>>
  BY <1>1 DEF files, args, temps, history
<1>3. <<>> \in Seq(Call)  OBVIOUS
<1>4. TypeInv'  BY <1>1, <1>2, <1>3 DEF FilesInv, TypeInv
<1>5. DiskInv'  BY <1>1, DiskKept DEF history
<1>6. /\ cmd[p] \in Commands[p] /\ temp[p] = None /\ ~fd[p]
  <2>1. Holds(p, "report") /\ cmd[p] \in Commands[p]  BY <1>1, RunningFacts
  <2> QED  BY <2>1, AbsentAssumption DEF Holds, Content
<1>7. /\ status'[p] = "done"
      /\ \A q \in Proc \ {p} : status'[q] = status[q] /\ todo'[q] = todo[q]
  BY <1>1 DEF FilesInv, TypeInv
<1>8. ProcInv(p)'
  BY <1>2, <1>6, <1>7 DEF FilesInv, ProcInv, RunningInv, StoppedInv, KeptInv
<1> QED  BY <1>2, <1>4, <1>5, <1>7, <1>8, StepKeeps

LEMMA RaiseKeeps ==
  ASSUME FilesInv, NEW p \in Proc, Raise(p)
  PROVE  FilesInv'
<1>1. /\ status[p] = "running"
      /\ status' = [status EXCEPT ![p] = "failed"]
      /\ fd' = [fd EXCEPT ![p] =
                  @ /\ cmd[p].op = "migrate_file" /\ cmd[p].stream /\ At(p, "input")]
      /\ UNCHANGED <<disk, durable, power, cmd, mem, overlaps, todo, synced, replaced>>
  BY DEF Raise, files, args
<1>2. \/ /\ temp' = [temp EXCEPT ![p] = None]
         /\ faults' = faults \cup (IF At(p, "report") THEN {"report"} ELSE {})
      \/ /\ temp[p] # None /\ temp' = temp
         /\ faults' = faults \cup {"unlink"}
  BY DEF Raise
<1>3. /\ cmd[p] \in Command /\ cmd[p] \in Commands[p] /\ Ordered(cmd[p], todo[p])
      /\ Len(replaced[p]) = Done(cmd[p], Len(todo[p]))
      /\ Holds(p, Head(todo[p]))
  BY <1>1, RunningFacts
<1>4. /\ faults \subseteq faults' /\ faults' \subseteq {"fsync", "unlink", "report"}
      /\ temp' \in [Proc -> Content \cup {None}]
      /\ \A q \in Proc \ {p} : temp'[q] = temp[q]
      /\ temp'[p] = None \/ "unlink" \in faults'
  <2>1. /\ temp \in [Proc -> Content \cup {None}]
        /\ faults \subseteq {"fsync", "unlink", "report"}
    BY DEF FilesInv, TypeInv
  <2>2. CASE /\ temp' = [temp EXCEPT ![p] = None]
             /\ faults' = faults \cup (IF At(p, "report") THEN {"report"} ELSE {})
    BY <2>1, <2>2
  <2>3. CASE temp' = temp /\ faults' = faults \cup {"unlink"}
    BY <2>1, <2>3
  <2> QED  BY <1>2, <2>2, <2>3
<1>5. /\ fd' \in [Proc -> BOOLEAN]
      /\ \A q \in Proc \ {p} : fd'[q] = fd[q]
      /\ fd'[p] => cmd[p].op = "migrate_file" /\ cmd[p].stream /\ At(p, "input")
  <2>1. fd \in [Proc -> BOOLEAN]  BY DEF FilesInv, TypeInv
  <2> DEFINE b == fd[p] /\ cmd[p].op = "migrate_file" /\ cmd[p].stream /\ At(p, "input")
  <2>2. b \in BOOLEAN /\ fd' = [fd EXCEPT ![p] = b]  BY <1>1
  <2>3. b => cmd[p].op = "migrate_file" /\ cmd[p].stream /\ At(p, "input")  OBVIOUS
  <2> HIDE DEF b
  <2> QED  BY <2>1, <2>2, <2>3
<1>6. /\ status'[p] = "failed"
      /\ status' \in [Proc -> {"idle", "running", "done", "failed", "interrupted", "killed"}]
      /\ \A q \in Proc \ {p} : status'[q] = status[q]
  BY <1>1 DEF FilesInv, TypeInv
<1>7. TypeInv'  BY <1>1, <1>4, <1>5, <1>6 DEF FilesInv, TypeInv
<1>8. DiskInv'  BY <1>1, <1>4, DiskKept DEF files
<1>9. ASSUME cmd[p].op # "keygen", replaced[p] # <<>> PROVE "report" \in faults'
  <2>1. Len(replaced[p]) # 0
    <3>1. replaced[p] \in Seq(Path)  BY DEF FilesInv, TypeInv
    <3> QED  BY <1>9, <3>1
  <2>2. Len(todo[p]) = 1 /\ cmd[p].op # "migrate_file"
    <3> DEFINE n == Len(todo[p])
    <3>1. n \in Nat /\ n >= 1     BY <1>3, HeadReplaces
    <3>2. Done(cmd[p], n) # 0     BY <1>3, <2>1
    <3> HIDE DEF n
    <3>3. cmd[p].op # "migrate_file"  BY <3>2 DEF Done
    <3>4. ~(n >= 2)  BY <1>9, <3>2, <3>3 DEF Done
    <3>5. n = 1      BY <3>1, <3>4
    <3> QED  BY <3>3, <3>5 DEF n
  <2>3. Head(todo[p]) = "report"  BY <1>3, <2>2, HeadReplaces DEF LastCall
  <2>4. temp[p] = None  BY <1>3, <2>3 DEF Holds
  <2> QED  BY <1>1, <1>2, <2>3, <2>4 DEF At
<1>10. ProcInv(p)'
  <2>1. RunningInv(p)'  BY <1>6 DEF RunningInv
  <2>2. fd'[p] => cmd[p].op = "migrate_file" /\ cmd[p].stream /\ mem[p].input = None
    BY <1>3, <1>5 DEF At, Holds
  <2>3. StoppedInv(p)'  BY <1>1, <1>3, <1>4, <1>6, <1>9, <2>2 DEF StoppedInv
  <2>4. KeptInv(p)'     BY <1>1 DEF FilesInv, ProcInv, KeptInv
  <2> QED  BY <2>1, <2>3, <2>4 DEF ProcInv
<1> QED  BY <1>1, <1>4, <1>5, <1>6, <1>7, <1>8, <1>10, StepKeeps

LEMMA InterruptKeeps ==
  ASSUME FilesInv, NEW p \in Proc, Interrupt(p)
  PROVE  FilesInv'
<1>1. /\ status[p] = "running"
      /\ status' = [status EXCEPT ![p] = "interrupted"]
      /\ fd' = [fd EXCEPT ![p] =
                  @ /\ cmd[p].op = "migrate_file" /\ cmd[p].stream /\ At(p, "input")]
      /\ UNCHANGED <<disk, durable, power, cmd, mem, overlaps, todo, temp, synced,
                     replaced, faults>>
  BY DEF Interrupt, files, args, history
<1>2. cmd[p] \in Commands[p] /\ Holds(p, Head(todo[p]))  BY <1>1, RunningFacts
<1>3. /\ fd' \in [Proc -> BOOLEAN]
      /\ \A q \in Proc \ {p} : fd'[q] = fd[q]
      /\ fd'[p] => cmd[p].op = "migrate_file" /\ cmd[p].stream /\ At(p, "input")
  <2>1. fd \in [Proc -> BOOLEAN]  BY DEF FilesInv, TypeInv
  <2> DEFINE b == fd[p] /\ cmd[p].op = "migrate_file" /\ cmd[p].stream /\ At(p, "input")
  <2>2. b \in BOOLEAN /\ fd' = [fd EXCEPT ![p] = b]  BY <1>1
  <2>3. b => cmd[p].op = "migrate_file" /\ cmd[p].stream /\ At(p, "input")  OBVIOUS
  <2> HIDE DEF b
  <2> QED  BY <2>1, <2>2, <2>3
<1>4. /\ status'[p] = "interrupted"
      /\ status' \in [Proc -> {"idle", "running", "done", "failed", "interrupted", "killed"}]
      /\ \A q \in Proc \ {p} : status'[q] = status[q]
  BY <1>1 DEF FilesInv, TypeInv
<1>5. TypeInv'  BY <1>1, <1>3, <1>4 DEF FilesInv, TypeInv
<1>6. DiskInv'  BY <1>1, DiskKept DEF files
<1>7. ProcInv(p)'
  <2>1. RunningInv(p)'  BY <1>4 DEF RunningInv
  <2>2. fd'[p] => cmd[p].op = "migrate_file" /\ cmd[p].stream /\ mem[p].input = None
    BY <1>2, <1>3 DEF At, Holds
  <2>3. StoppedInv(p)'  BY <1>1, <1>2, <1>4, <2>2 DEF StoppedInv
  <2>4. KeptInv(p)'     BY <1>1 DEF FilesInv, ProcInv, KeptInv
  <2> QED  BY <2>1, <2>3, <2>4 DEF ProcInv
<1> QED  BY <1>1, <1>3, <1>4, <1>5, <1>6, <1>7, StepKeeps

LEMMA KillKeeps ==
  ASSUME FilesInv, NEW p \in Proc, Kill(p)
  PROVE  FilesInv'
<1>1. /\ status[p] = "running"
      /\ status' = [status EXCEPT ![p] = "killed"]
      /\ fd' = [fd EXCEPT ![p] = FALSE]
      /\ UNCHANGED <<disk, durable, power, cmd, mem, overlaps, todo, temp, synced,
                     replaced, faults>>
  BY DEF Kill, files, args, history
<1>2. TypeInv'  BY <1>1 DEF FilesInv, TypeInv
<1>3. DiskInv'  BY <1>1, DiskKept DEF files
<1>4. cmd[p] \in Commands[p]  BY <1>1, RunningFacts
<1>5. /\ status'[p] = "killed"
      /\ \A q \in Proc \ {p} : status'[q] = status[q] /\ fd'[q] = fd[q]
  BY <1>1 DEF FilesInv, TypeInv
<1>6. ProcInv(p)'
  BY <1>1, <1>4, <1>5 DEF FilesInv, ProcInv, RunningInv, StoppedInv, KeptInv
<1> QED  BY <1>1, <1>2, <1>3, <1>5, <1>6, StepKeeps

\* What the power failure leaves of a path is one of the contents it might.
LEMMA PowerStep ==
  ASSUME FilesInv, PowerFailure
  PROVE  \A x \in Path : disk'[x] \in durable[x] /\ durable'[x] = {disk'[x]}
<1> DEFINE dirty == {x \in Path : durable[x] # {disk[x]}}
<1>1. PICK d \in [dirty -> UNION {durable[x] : x \in dirty}] :
         /\ \A x \in dirty : d[x] \in durable[x]
         /\ disk' = [x \in Path |-> IF x \in dirty THEN d[x] ELSE disk[x]]
  BY DEF PowerFailure
<1>2. durable' = [x \in Path |-> {disk'[x]}]  BY DEF PowerFailure
<1>3. ASSUME NEW x \in Path PROVE disk'[x] \in durable[x]
  <2>1. CASE x \in dirty  BY <1>1, <2>1
  <2>2. CASE x \notin dirty
    <3>1. disk'[x] = disk[x]  BY <1>1, <2>2
    <3> QED  BY <3>1 DEF FilesInv, DiskInv
  <2> QED  BY <2>1, <2>2
<1> QED  BY <1>2, <1>3

LEMMA PowerFailureKeeps ==
  ASSUME FilesInv, PowerFailure
  PROVE  FilesInv'
<1>1. /\ power' = FALSE
      /\ durable' = [x \in Path |-> {disk'[x]}]
      /\ status' = [p \in Proc |-> IF status[p] = "running" THEN "killed" ELSE status[p]]
      /\ fd'     = [p \in Proc |-> FALSE]
      /\ UNCHANGED <<cmd, mem, overlaps, todo, temp, synced, replaced, faults>>
  BY DEF PowerFailure, args, history
<1>2. \A x \in Path : disk'[x] \in durable[x] /\ durable'[x] = {disk'[x]}
  BY PowerStep
<1>3. TypeInv'
  <2>1. disk' = [x \in Path |-> disk'[x]]
    <3> DEFINE dirty == {x \in Path : durable[x] # {disk[x]}}
    <3>1. PICK d \in [dirty -> UNION {durable[x] : x \in dirty}] :
             disk' = [x \in Path |-> IF x \in dirty THEN d[x] ELSE disk[x]]
      BY DEF PowerFailure
    <3> QED  BY <3>1
  <2>2. \A x \in Path : disk'[x] \in Content \cup {None}
    BY <1>2 DEF FilesInv, TypeInv
  <2>3. disk' \in [Path -> Content \cup {None}]  BY <2>1, <2>2
  <2>4. durable' \in [Path -> SUBSET (Content \cup {None})]  BY <1>1, <2>2
  <2>5. status' \in [Proc -> {"idle", "running", "done", "failed", "interrupted", "killed"}]
    BY <1>1 DEF FilesInv, TypeInv
  <2>6. fd' \in [Proc -> BOOLEAN] /\ power' \in BOOLEAN  BY <1>1
  <2>7. TypeInv  BY DEF FilesInv
  <2> QED  BY <1>1, <2>3, <2>4, <2>5, <2>6, <2>7 DEF TypeInv
<1>4. DiskInv'  BY <1>1, <1>2 DEF FilesInv, DiskInv
<1>5. ASSUME NEW p \in Proc PROVE ProcInv(p)'
  <2>1. /\ ~fd'[p] /\ status'[p] # "running"
        /\ status'[p] = status[p] \/ (status[p] = "running" /\ status'[p] = "killed")
    BY <1>1
  <2>2. RunningInv(p)'  BY <2>1 DEF RunningInv
  <2>3. StoppedInv(p)'  BY <1>1, <2>1 DEF FilesInv, ProcInv, StoppedInv
  <2>4. KeptInv(p)'     BY <1>1 DEF FilesInv, ProcInv, KeptInv
  <2> QED  BY <2>2, <2>3, <2>4 DEF ProcInv
<1> QED  BY <1>3, <1>4, <1>5 DEF FilesInv

LEMMA StutterKeeps ==
  ASSUME FilesInv, UNCHANGED vars
  PROVE  FilesInv'
<1>1. UNCHANGED <<disk, durable, status, cmd, todo, mem, overlaps, temp, synced, fd,
                  replaced, faults, power>>
  BY DEF vars
<1>2. TypeInv'  BY <1>1 DEF FilesInv, TypeInv
<1>3. DiskInv'  BY <1>1 DEF FilesInv, DiskInv
<1>4. ASSUME NEW p \in Proc PROVE ProcInv(p)'
  BY <1>1, ProcessKept DEF FilesInv
<1> QED  BY <1>2, <1>3, <1>4 DEF FilesInv

LEMMA StepFiles ==
  ASSUME FilesInv, [Next]_vars
  PROVE  FilesInv'
<1>1. CASE PowerFailure    BY <1>1, PowerFailureKeeps
<1>2. CASE UNCHANGED vars  BY <1>2, StutterKeeps
<1>3. ASSUME NEW p \in Proc, Start(p) \/ Step(p) \/ Interrupt(p) \/ Kill(p)
      PROVE  FilesInv'
  <2>1. CASE Start(p)       BY <2>1, StartKeeps
  <2>2. CASE Interrupt(p)   BY <2>2, InterruptKeeps
  <2>3. CASE CheckAlias(p)  BY <2>3, CheckAliasKeeps
  <2>4. CASE Read(p)        BY <2>4, ReadKeeps
  <2>5. CASE Compute(p)     BY <2>5, ComputeKeeps
  <2>6. CASE MakeTemp(p)    BY <2>6, MakeTempKeeps
  <2>7. CASE Write(p)       BY <2>7, WriteKeeps
  <2>8. CASE Replace(p)     BY <2>8, ReplaceKeeps
  <2>9. CASE Report(p)      BY <2>9, ReportKeeps
  <2>10. CASE Raise(p)      BY <2>10, RaiseKeeps
  <2>11. CASE Kill(p)       BY <2>11, KillKeeps
  <2> QED
    BY <1>3, <2>1, <2>2, <2>3, <2>4, <2>5, <2>6, <2>7, <2>8, <2>9, <2>10, <2>11
       DEF Step
<1> QED  BY <1>1, <1>2, <1>3 DEF Next

\* The invariant the theorems rest on.
THEOREM FilesInvariant == Spec => []FilesInv
  BY InitFiles, StepFiles, PTL DEF Spec

\* Every variable has its type, and a command that runs has calls to make and
\* has not replaced more files than it writes.
THEOREM TypeCorrect == Spec => []TypeOK
<1>1. FilesInv => TypeOK
  <2> SUFFICES ASSUME FilesInv, NEW p \in Proc, status[p] = "running"
               PROVE  todo[p] # <<>> /\ Len(replaced[p]) <= Len(Targets(cmd[p]))
    BY DEF FilesInv, TypeInv, TypeOK
  <2>1. /\ cmd[p] \in Command /\ Ordered(cmd[p], todo[p]) /\ todo[p] # <<>>
        /\ Len(replaced[p]) = Done(cmd[p], Len(todo[p]))
    BY RunningFacts
  <2>2. Done(cmd[p], Len(todo[p])) <= Len(Targets(cmd[p]))
    <3>1. CASE cmd[p].op = "keygen"
      <4>1. Len(Targets(cmd[p])) = 2  BY <3>1 DEF Targets
      <4>2. Done(cmd[p], Len(todo[p])) \in {0, 1, 2}  BY <3>1 DEF Done
      <4> QED  BY <4>1, <4>2
    <3>2. CASE cmd[p].op # "keygen"
      <4>1. Len(Targets(cmd[p])) = 1  BY <3>2 DEF Targets
      <4>2. Done(cmd[p], Len(todo[p])) \in {0, 1}  BY <3>2 DEF Done
      <4> QED  BY <4>1, <4>2
    <3> QED  BY <3>1, <3>2
  <2> QED  BY <2>1, <2>2
<1> QED  BY <1>1, FilesInvariant, PTL

\* No path ever holds part of an output, whatever fails or is interrupted,
\* unless fsync() failed and the power too: _atomic_write_bytes(),
\* _atomic_stream_write() and keygen replace a destination with a whole file.
THEOREM WholeDestinations == Spec => []DestinationsWhole
<1>1. FilesInv => DestinationsWhole
  BY DEF FilesInv, DiskInv, TypeInv, DestinationsWhole
<1> QED  BY <1>1, FilesInvariant, PTL

\* A command with one output that returns an error has not touched it, unless
\* only the report of its success failed.
THEOREM FailuresPreserve == Spec => []FailurePreserves
<1>1. FilesInv => FailurePreserves
  BY DEF FilesInv, ProcInv, StoppedInv, FailurePreserves
<1> QED  BY <1>1, FilesInvariant, PTL

\* A command that has returned leaves no temporary file and no descriptor, but
\* for the two cases that NothingLeft names.
THEOREM NothingIsLeft == Spec => []NothingLeft
<1>1. FilesInv => NothingLeft
  BY DEF FilesInv, ProcInv, StoppedInv, NothingLeft
<1> QED  BY <1>1, FilesInvariant, PTL

\* No operation replaces the file it reads, except a migrate_file() whose two
\* paths were one that did not exist: _check_path_alias().
THEOREM InputIsKept == Spec => []InputKept
<1>1. FilesInv => InputKept
  BY DEF FilesInv, ProcInv, KeptInv, InputKept
<1> QED  BY <1>1, FilesInvariant, PTL
-----------------------------------------------------------------------------
\* Key pairs.

Keygen(c) == c # None /\ c.op = "keygen"

Keygens == {c \in UNION {Commands[p] : p \in Proc} : c.op = "keygen"}

\* Two keygens are given the same two paths, or have none in common; and where
\* there is a bundle and a keyset already, they are of one pair.
PairsApart ==
  /\ \A c, d \in Keygens :
        \/ c.bundle = d.bundle /\ c.key = d.key
        \/ {c.bundle, c.key} \cap {d.bundle, d.key} = {}
  /\ \A c \in Keygens :
        Initial[c.bundle] \in Bundle /\ Initial[c.key] \in Keyset
           => Initial[c.bundle].key = Initial[c.key].key

\* How far a keygen got, and that those which run together are recorded.
KeygenInv ==
  /\ \A q \in Proc : Keygen(cmd[q]) =>
        /\ Len(replaced[q]) \in {0, 1, 2}
        /\ status[q] = "done" => Len(replaced[q]) = 2
  /\ \A q, r \in Proc :
        (/\ q # r /\ status[q] = "running" /\ status[r] = "running"
         /\ Keygen(cmd[q]) /\ Keygen(cmd[r])) => {q, r} \in overlaps

\* A file that names a keygen's pair is the one that keygen replaced.
OwnFiles ==
  /\ \A x \in Path : disk[x] \in Bundle /\ disk[x].key \in Proc =>
        LET q == disk[x].key IN
        Keygen(cmd[q]) /\ cmd[q].bundle = x /\ Len(replaced[q]) \in {1, 2}
  /\ \A x \in Path : disk[x] \in Keyset /\ disk[x].key \in Proc =>
        LET r == disk[x].key IN
        Keygen(cmd[r]) /\ cmd[r].key = x /\ Len(replaced[r]) = 2

\* A keygen that is about to replace the keyset finds its own bundle, or that
\* of another keygen that runs at the same time.
BundleInv ==
  \A r \in Proc :
     LET b == disk[cmd[r].bundle] IN
     (/\ Keygen(cmd[r]) /\ status[r] = "running" /\ Len(replaced[r]) = 1
      /\ cmd[r].bundle # cmd[r].key /\ b \in Bundle /\ b.key # r)
        => b.key \in Proc /\ {r, b.key} \in overlaps

\* PairsMatch, of the keygens that have not started too.
MatchInv ==
  \A c \in Keygens :
     LET b == disk[c.bundle]  k == disk[c.key] IN
     (c.bundle # c.key /\ b \in Bundle /\ k \in Keyset /\ b.key # k.key) =>
        /\ b.key \in Proc
        /\ \/ Len(replaced[b.key]) = 1 /\ status[b.key] # "done"
           \/ /\ {b.key, k.key} \in overlaps
              /\ Len(replaced[b.key]) = 2 /\ Len(replaced[k.key]) = 2

PairInv == KeygenInv /\ (power => OwnFiles /\ BundleInv /\ MatchInv)

LEMMA KeygenCommand ==
  ASSUME FilesInv, NEW p \in Proc, Keygen(cmd[p])
  PROVE  /\ cmd[p] \in Keygens /\ cmd[p] \in Command
         /\ cmd[p].bundle \in Path /\ cmd[p].key \in Path
<1>1. status[p] # "idle" => cmd[p] \in Commands[p]
  BY DEF FilesInv, ProcInv, StoppedInv
<1>2. cmd[p] \in Commands[p]  BY <1>1 DEF FilesInv, ProcInv, StoppedInv, Keygen
<1>3. cmd[p] \in Command      BY <1>2, CommandsAssumption
<1> QED  BY <1>2, <1>3, CommandOps DEF Keygen, Keygens

LEMMA KeygensCommand ==
  ASSUME NEW c \in Keygens
  PROVE  c \in Command /\ c.op = "keygen" /\ c.bundle \in Path /\ c.key \in Path
<1>1. c \in Command  BY CommandsAssumption DEF Keygens
<1> QED  BY <1>1, CommandOps DEF Keygens

LEMMA InitPairs ==
  ASSUME PairsApart, Init
  PROVE  PairInv
<1>1. KeygenInv
  BY DEF Init, KeygenInv, Keygen
<1>2. OwnFiles
  <2>1. ASSUME NEW x \in Path, disk[x] \in Bundle \cup Keyset
        PROVE  disk[x].key \notin Proc
    BY <2>1, FreshAssumption DEF Init
  <2> QED  BY <2>1 DEF OwnFiles
<1>3. BundleInv  BY DEF Init, BundleInv
<1>4. MatchInv
  <2> SUFFICES ASSUME NEW c \in Keygens, disk[c.bundle] \in Bundle, disk[c.key] \in Keyset
               PROVE  disk[c.bundle].key = disk[c.key].key
    BY DEF MatchInv
  <2> QED  BY DEF PairsApart, Init
<1> QED  BY <1>1, <1>2, <1>3, <1>4 DEF PairInv

\* A step that replaces no file keeps the invariant if it keeps KeygenInv: a
\* keygen that it starts has replaced nothing, one that it ends had replaced two.
LEMMA PairsKept ==
  ASSUME FilesInv, PairInv, KeygenInv', replaced' = replaced,
         overlaps \subseteq overlaps',
         power' => power /\ disk' = disk,
         \A q \in Proc : Keygen(cmd[q]) => cmd'[q] = cmd[q],
         \A q \in Proc : status'[q] = "running" =>
            (status[q] = "running" /\ cmd'[q] = cmd[q]) \/ replaced[q] = <<>>
  PROVE  PairInv'
<1> SUFFICES ASSUME power' PROVE OwnFiles' /\ BundleInv' /\ MatchInv'
  BY DEF PairInv
<1>1. disk' = disk /\ OwnFiles /\ BundleInv /\ MatchInv /\ KeygenInv
  BY DEF PairInv
<1>2. OwnFiles'  BY <1>1 DEF OwnFiles, Keygen
<1>3. BundleInv'
  <2> SUFFICES ASSUME NEW r \in Proc, Keygen(cmd'[r]), status'[r] = "running",
                      Len(replaced[r]) = 1, cmd'[r].bundle # cmd'[r].key,
                      disk[cmd'[r].bundle] \in Bundle, disk[cmd'[r].bundle].key # r
               PROVE  /\ disk[cmd'[r].bundle].key \in Proc
                      /\ {r, disk[cmd'[r].bundle].key} \in overlaps
    BY <1>1 DEF BundleInv
  <2>1. replaced[r] # <<>>
    <3>1. Len(<<>>) = 0  OBVIOUS
    <3> QED  BY <3>1
  <2>2. status[r] = "running" /\ cmd'[r] = cmd[r]  BY <2>1
  <2> QED  BY <1>1, <2>2 DEF BundleInv
<1>4. MatchInv'
  <2> SUFFICES ASSUME NEW c \in Keygens, c.bundle # c.key, disk[c.bundle] \in Bundle,
                      disk[c.key] \in Keyset, disk[c.bundle].key # disk[c.key].key
               PROVE  LET b == disk[c.bundle]  k == disk[c.key] IN
                      /\ b.key \in Proc
                      /\ \/ Len(replaced[b.key]) = 1 /\ status'[b.key] # "done"
                         \/ /\ {b.key, k.key} \in overlaps'
                            /\ Len(replaced[b.key]) = 2 /\ Len(replaced[k.key]) = 2
    BY <1>1 DEF MatchInv
  <2> DEFINE q == disk[c.bundle].key
  <2>1. /\ q \in Proc
        /\ \/ Len(replaced[q]) = 1
           \/ /\ {q, disk[c.key].key} \in overlaps
              /\ Len(replaced[q]) = 2 /\ Len(replaced[disk[c.key].key]) = 2
    BY <1>1 DEF MatchInv
  <2>2. c.bundle \in Path  BY KeygensCommand
  <2>3. Keygen(cmd[q])  BY <1>1, <2>1, <2>2 DEF OwnFiles
  <2>4. Keygen(cmd'[q])  BY <2>1, <2>3
  <2>5. status'[q] = "done" => Len(replaced[q]) = 2
    BY <2>1, <2>4 DEF KeygenInv
  <2> QED  BY <2>1, <2>5
<1> QED  BY <1>2, <1>3, <1>4
LEMMA StartPairs ==
  ASSUME FilesInv, PairInv, NEW p \in Proc, Start(p)
  PROVE  PairInv'
<1>1. /\ status[p] = "idle" /\ status' = [status EXCEPT ![p] = "running"]
      /\ UNCHANGED <<disk, power, replaced>>
  BY DEF Start, files, history
<1>2. PICK c \in Commands[p] :
        /\ cmd'  = [cmd EXCEPT ![p] = c]
        /\ overlaps' = overlaps \cup
             {{p, q} : q \in {r \in Proc : /\ c.op = "keygen" /\ status[r] = "running"
                                        /\ cmd[r].op = "keygen"}}
  BY DEF Start
<1>3. cmd[p] = None /\ replaced[p] = <<>>  BY <1>1 DEF FilesInv, ProcInv, StoppedInv
<1>4. overlaps \subseteq overlaps'  BY <1>2
<1>5. /\ cmd'[p] = c /\ status'[p] = "running"
      /\ \A q \in Proc \ {p} : cmd'[q] = cmd[q] /\ status'[q] = status[q]
  BY <1>1, <1>2 DEF FilesInv, TypeInv
<1>6. KeygenInv'
  <2>1. Len(replaced[p]) = 0  BY <1>3
  <2>2. \A q \in Proc : Keygen(cmd'[q]) =>
          /\ Len(replaced[q]) \in {0, 1, 2}
          /\ status'[q] = "done" => Len(replaced[q]) = 2
    BY <1>5, <2>1 DEF PairInv, KeygenInv
  <2>3. ASSUME NEW q \in Proc, NEW r \in Proc, q # r,
               status'[q] = "running", status'[r] = "running",
               Keygen(cmd'[q]), Keygen(cmd'[r])
        PROVE  {q, r} \in overlaps'
    <3>1. CASE q # p /\ r # p
      BY <1>4, <1>5, <2>3, <3>1 DEF PairInv, KeygenInv
    <3>2. CASE q = p
      <4>1. c.op = "keygen" /\ status[r] = "running" /\ cmd[r].op = "keygen"
        BY <1>5, <2>3, <3>2 DEF Keygen
      <4> QED  BY <1>2, <3>2, <4>1
    <3>3. CASE r = p
      <4>1. c.op = "keygen" /\ status[q] = "running" /\ cmd[q].op = "keygen"
        BY <1>5, <2>3, <3>3 DEF Keygen
      <4>2. {p, q} \in overlaps'  BY <1>2, <4>1
      <4>3. {q, r} = {p, q}       BY <3>3
      <4> QED  BY <4>2, <4>3
    <3> QED  BY <3>1, <3>2, <3>3
  <2> QED  BY <1>1, <2>2, <2>3 DEF KeygenInv
<1>7. \A q \in Proc : Keygen(cmd[q]) => cmd'[q] = cmd[q]
  BY <1>3, <1>5 DEF Keygen
<1>8. \A q \in Proc : status'[q] = "running" =>
         (status[q] = "running" /\ cmd'[q] = cmd[q]) \/ replaced[q] = <<>>
  BY <1>3, <1>5
<1> QED  BY <1>1, <1>4, <1>6, <1>7, <1>8, PairsKept

\* A step that starts no command and replaces no file, but may end a command.
LEMMA QuietPairs ==
  ASSUME FilesInv, PairInv, cmd' = cmd, overlaps' = overlaps, replaced' = replaced,
         power' => power /\ disk' = disk,
         \A q \in Proc :
            /\ status'[q] = "running" => status[q] = "running"
            /\ status'[q] = "done" /\ Keygen(cmd[q]) =>
                 status[q] = "done" \/ Len(replaced[q]) = 2
  PROVE  PairInv'
<1>1. KeygenInv'  BY DEF PairInv, KeygenInv
<1> QED  BY <1>1, PairsKept

LEMMA ReportPairs ==
  ASSUME FilesInv, PairInv, NEW p \in Proc, Report(p)
  PROVE  PairInv'
<1>1. /\ status[p] = "running" /\ Head(todo[p]) = "report"
      /\ status' = [status EXCEPT ![p] = "done"]
      /\ UNCHANGED <<disk, power, replaced, cmd, overlaps>>
  BY DEF Report, At, files, args, history
<1>2. /\ cmd[p] \in Command /\ Ordered(cmd[p], todo[p])
      /\ Len(replaced[p]) = Done(cmd[p], Len(todo[p]))
  BY <1>1, RunningFacts
<1>3. Len(todo[p]) = 1  BY <1>1, <1>2, ReportIsLast
<1>4. Keygen(cmd[p]) => Len(replaced[p]) = 2  BY <1>2, <1>3 DEF Done, Keygen
<1>5. \A q \in Proc : status'[q] = IF q = p THEN "done" ELSE status[q]
  BY <1>1 DEF FilesInv, TypeInv
<1> QED  BY <1>1, <1>4, <1>5, QuietPairs

LEMMA ReplacePairs ==
  ASSUME PairsApart, FilesInv, PairInv, NEW p \in Proc, Replace(p)
  PROVE  PairInv'
<1> DEFINE x == Target(p)
<1> DEFINE v == temp[p]
<1>1. /\ status[p] = "running" /\ Head(todo[p]) = "replace"
      /\ x \in Path /\ disk' = [disk EXCEPT ![x] = v]
      /\ UNCHANGED <<cmd, overlaps, power>>
      /\ Len(replaced'[p]) = Len(replaced[p]) + 1
      /\ status'[p] = IF cmd[p].op = "migrate_file" THEN "done" ELSE "running"
      /\ \A q \in Proc \ {p} : status'[q] = status[q] /\ replaced'[q] = replaced[q]
  BY ReplaceStep
<1>2. /\ cmd[p] \in Command /\ cmd[p] # None /\ v \in Output(p)
  BY <1>1, RunningFacts DEF Holds
<1>3. /\ cmd[p].op # "keygen" => v \in Plain \cup Cipher
      /\ cmd[p].op = "keygen" =>
           v \in {y \in IF replaced[p] = <<>> THEN Bundle ELSE Keyset : y.key = p}
  BY <1>2, OutputWhole DEF FilesInv
<1>4. cmd[p].op = "keygen" =>
        /\ Len(replaced[p]) \in {0, 1}
        /\ x = IF Len(replaced[p]) = 0 THEN cmd[p].bundle ELSE cmd[p].key
  BY <1>1, TargetFacts
<1>5. Len(replaced[p]) = 0 <=> replaced[p] = <<>>
  <2>1. replaced[p] \in Seq(Path)  BY DEF FilesInv, TypeInv
  <2> QED  BY <2>1
<1>6. /\ cmd[p].op # "keygen" => v \notin Bundle /\ v \notin Keyset
      /\ cmd[p].op = "keygen" /\ Len(replaced[p]) = 0 =>
           v \in Bundle /\ v.key = p /\ v \notin Keyset
      /\ cmd[p].op = "keygen" /\ Len(replaced[p]) = 1 =>
           v \in Keyset /\ v.key = p /\ v \notin Bundle
  BY <1>3, <1>5 DEF Bundle, Keyset, Plain, Cipher
<1>7. /\ disk'[x] = v
      /\ \A y \in Path : y # x => disk'[y] = disk[y]
  BY <1>1 DEF FilesInv, TypeInv
<1> HIDE DEF x, v
<1>8. KeygenInv'
  <2>1. ASSUME NEW q \in Proc, Keygen(cmd[q])
        PROVE  /\ Len(replaced'[q]) \in {0, 1, 2}
               /\ status'[q] = "done" => Len(replaced'[q]) = 2
    <3>1. CASE q = p
      <4>1. cmd[p].op = "keygen"  BY <2>1, <3>1 DEF Keygen
      <4>2. Len(replaced'[p]) \in {1, 2}
        <5>1. CASE Len(replaced[p]) = 0  BY <1>1, <5>1
        <5>2. CASE Len(replaced[p]) = 1  BY <1>1, <5>2
        <5> QED  BY <1>4, <4>1, <5>1, <5>2
      <4>3. status'[p] = "running"  BY <1>1, <4>1
      <4> QED  BY <3>1, <4>2, <4>3
    <3>2. CASE q # p  BY <1>1, <2>1, <3>2 DEF PairInv, KeygenInv
    <3> QED  BY <3>1, <3>2
  <2>2. \A q \in Proc : status'[q] = "running" => status[q] = "running"
    BY <1>1
  <2> QED  BY <1>1, <2>1, <2>2 DEF PairInv, KeygenInv
<1> SUFFICES ASSUME power' PROVE OwnFiles' /\ BundleInv' /\ MatchInv'
  BY <1>8 DEF PairInv
<1>9. OwnFiles /\ BundleInv /\ MatchInv /\ KeygenInv  BY <1>1 DEF PairInv
<1>10. ASSUME NEW q \in Proc, Len(replaced[q]) = 2, Keygen(cmd[q])
       PROVE  q # p
  BY <1>4, <1>10 DEF Keygen
<1>11. OwnFiles'
  <2>1. ASSUME NEW y \in Path, disk'[y] \in Bundle, disk'[y].key \in Proc
        PROVE  LET q == disk'[y].key IN
               Keygen(cmd[q]) /\ cmd[q].bundle = y /\ Len(replaced'[q]) \in {1, 2}
    <3>1. CASE y = x
      <4>1. disk'[y] = v  BY <1>7, <3>1
      <4>2. cmd[p].op = "keygen" /\ Len(replaced[p]) = 0
        BY <1>4, <1>6, <2>1, <4>1
      <4>3. v.key = p /\ x = cmd[p].bundle /\ Len(replaced'[p]) = 1
        BY <1>1, <1>4, <1>6, <4>2
      <4> QED  BY <1>2, <3>1, <4>1, <4>2, <4>3 DEF Keygen
    <3>2. CASE y # x
      <4>1. disk'[y] = disk[y]  BY <1>7, <3>2
      <4> DEFINE q == disk[y].key
      <4>2. Keygen(cmd[q]) /\ cmd[q].bundle = y /\ Len(replaced[q]) \in {1, 2}
        BY <1>9, <2>1, <4>1 DEF OwnFiles
      <4>3. q \in Proc  BY <2>1, <4>1
      <4>4. Len(replaced'[q]) \in {1, 2}
        <5>1. CASE q = p
          <6>1. Len(replaced[p]) = 1  BY <1>4, <4>2, <5>1 DEF Keygen
          <6> QED  BY <1>1, <5>1, <6>1
        <5>2. CASE q # p  BY <1>1, <4>2, <4>3, <5>2
        <5> QED  BY <5>1, <5>2
      <4> QED  BY <4>1, <4>2, <4>4
    <3> QED  BY <3>1, <3>2
  <2>2. ASSUME NEW y \in Path, disk'[y] \in Keyset, disk'[y].key \in Proc
        PROVE  LET r == disk'[y].key IN
               Keygen(cmd[r]) /\ cmd[r].key = y /\ Len(replaced'[r]) = 2
    <3>1. CASE y = x
      <4>1. disk'[y] = v  BY <1>7, <3>1
      <4>2. cmd[p].op = "keygen" /\ Len(replaced[p]) = 1
        BY <1>4, <1>6, <2>2, <4>1
      <4>3. v.key = p /\ x = cmd[p].key /\ Len(replaced'[p]) = 2
        BY <1>1, <1>4, <1>6, <4>2
      <4> QED  BY <1>2, <3>1, <4>1, <4>2, <4>3 DEF Keygen
    <3>2. CASE y # x
      <4>1. disk'[y] = disk[y]  BY <1>7, <3>2
      <4> DEFINE r == disk[y].key
      <4>2. Keygen(cmd[r]) /\ cmd[r].key = y /\ Len(replaced[r]) = 2
        BY <1>9, <2>2, <4>1 DEF OwnFiles
      <4>3. r \in Proc /\ r # p  BY <1>10, <2>2, <4>1, <4>2
      <4> QED  BY <1>1, <4>1, <4>2, <4>3
    <3> QED  BY <3>1, <3>2
  <2> QED  BY <1>1, <2>1, <2>2 DEF OwnFiles
<1>12. BundleInv'
  <2> SUFFICES ASSUME NEW r \in Proc, Keygen(cmd[r]), status'[r] = "running",
                      Len(replaced'[r]) = 1, cmd[r].bundle # cmd[r].key,
                      disk'[cmd[r].bundle] \in Bundle, disk'[cmd[r].bundle].key # r
               PROVE  /\ disk'[cmd[r].bundle].key \in Proc
                      /\ {r, disk'[cmd[r].bundle].key} \in overlaps
    <3>1. cmd' = cmd /\ overlaps' = overlaps  BY <1>1
    <3> QED  BY <3>1 DEF BundleInv
  <2>1. cmd[r].bundle \in Path  BY KeygenCommand
  <2>2. CASE cmd[r].bundle = x
    <3>1. cmd[p].op = "keygen" /\ Len(replaced[p]) = 0 /\ v.key = p
      BY <1>4, <1>6, <1>7, <2>2
    <3>2. r # p /\ status[r] = "running"  BY <1>1, <1>7, <2>2, <3>1
    <3>3. {r, p} \in overlaps
      BY <1>1, <1>2, <1>9, <3>1, <3>2 DEF KeygenInv, Keygen
    <3> QED  BY <1>7, <2>2, <3>1, <3>3
  <2>3. CASE cmd[r].bundle # x
    <3>1. disk'[cmd[r].bundle] = disk[cmd[r].bundle]  BY <1>7, <2>1, <2>3
    <3>2. r # p
      <4> SUFFICES ASSUME r = p PROVE FALSE  OBVIOUS
      <4>1. Len(replaced[p]) = 0  BY <1>1, <1>4 DEF Keygen
      <4> QED  BY <1>4, <2>3, <4>1 DEF Keygen
    <3>3. status[r] = "running" /\ Len(replaced[r]) = 1  BY <1>1, <3>2
    <3> QED  BY <1>9, <3>1, <3>3 DEF BundleInv
  <2> QED  BY <2>2, <2>3
<1>13. MatchInv'
  <2> SUFFICES ASSUME NEW c \in Keygens, c.bundle # c.key, disk'[c.bundle] \in Bundle,
                      disk'[c.key] \in Keyset, disk'[c.bundle].key # disk'[c.key].key
               PROVE  LET b == disk'[c.bundle]  k == disk'[c.key] IN
                      /\ b.key \in Proc
                      /\ \/ Len(replaced'[b.key]) = 1 /\ status'[b.key] # "done"
                         \/ /\ {b.key, k.key} \in overlaps
                            /\ Len(replaced'[b.key]) = 2 /\ Len(replaced'[k.key]) = 2
    BY <1>1 DEF MatchInv
  <2> DEFINE q == disk'[c.bundle].key
  <2> DEFINE r == disk'[c.key].key
  <2>1. c.bundle \in Path /\ c.key \in Path  BY KeygensCommand
  <2>2. CASE x = c.bundle
    <3>1. cmd[p].op = "keygen" /\ Len(replaced[p]) = 0 /\ q = p
      BY <1>4, <1>6, <1>7, <2>2
    <3>2. Len(replaced'[p]) = 1 /\ status'[p] # "done"  BY <1>1, <3>1
    <3> QED  BY <3>1, <3>2
  <2>3. CASE x = c.key
    <3>1. cmd[p].op = "keygen" /\ Len(replaced[p]) = 1 /\ r = p /\ x = cmd[p].key
      BY <1>4, <1>6, <1>7, <2>3
    <3>2. cmd[p] \in Keygens  BY <1>2, <3>1, KeygenCommand DEF Keygen
    <3>3. cmd[p].bundle = c.bundle /\ cmd[p].key = c.key
      BY <2>3, <3>1, <3>2 DEF PairsApart
    <3>4. disk'[c.bundle] = disk[c.bundle]  BY <1>7, <2>1, <2>3
    <3>5. q \in Proc /\ {p, q} \in overlaps
      BY <1>1, <1>2, <1>9, <3>1, <3>3, <3>4 DEF BundleInv, Keygen
    <3>6. q # p  BY <3>1
    <3>7. Keygen(cmd[q]) /\ Len(replaced[q]) \in {1, 2}
      BY <1>9, <2>1, <3>4, <3>5 DEF OwnFiles
    <3>8. Len(replaced'[q]) = Len(replaced[q]) /\ status'[q] = status[q]
      BY <1>1, <3>5, <3>6
    <3>9. status[q] = "done" => Len(replaced[q]) = 2
      BY <1>9, <3>5, <3>7 DEF KeygenInv
    <3>10. Len(replaced'[p]) = 2  BY <1>1, <3>1
    <3>11. {q, p} \in overlaps
      <4>1. {q, p} = {p, q}  OBVIOUS
      <4> QED  BY <3>5, <4>1
    <3> QED  BY <3>1, <3>5, <3>7, <3>8, <3>9, <3>10, <3>11
  <2>4. CASE x # c.bundle /\ x # c.key
    <3>1. disk'[c.bundle] = disk[c.bundle] /\ disk'[c.key] = disk[c.key]
      BY <1>7, <2>1, <2>4
    <3>2. /\ q \in Proc
          /\ \/ Len(replaced[q]) = 1 /\ status[q] # "done"
             \/ {q, r} \in overlaps /\ Len(replaced[q]) = 2 /\ Len(replaced[r]) = 2
      BY <1>9, <3>1 DEF MatchInv
    <3>3. Keygen(cmd[q]) /\ cmd[q].bundle = c.bundle
      BY <1>9, <2>1, <3>1, <3>2 DEF OwnFiles
    <3>4. q # p
      <4> SUFFICES ASSUME q = p PROVE FALSE  OBVIOUS
      <4>1. cmd[p].op = "keygen" /\ cmd[p] \in Keygens
        BY <3>3, KeygenCommand DEF Keygen
      <4>2. cmd[p].key = c.key  BY <3>3, <4>1 DEF PairsApart
      <4> QED  BY <1>4, <2>4, <3>3, <4>1, <4>2
    <3>5. Len(replaced'[q]) = Len(replaced[q]) /\ status'[q] = status[q]
      BY <1>1, <3>2, <3>4
    <3>6. ASSUME Len(replaced[q]) = 2, Len(replaced[r]) = 2, {q, r} \in overlaps
          PROVE  Len(replaced'[r]) = 2
      <4>1. r \in Proc
        <5>1. overlaps \subseteq {{s, t} : s, t \in Proc}  BY DEF FilesInv, TypeInv
        <5>2. PICK s \in Proc, t \in Proc : {q, r} = {s, t}  BY <3>6, <5>1
        <5> QED  BY <5>2
      <4>2. Keygen(cmd[r])  BY <1>9, <2>1, <3>1, <4>1 DEF OwnFiles
      <4>3. r # p  BY <1>10, <3>6, <4>1, <4>2
      <4> QED  BY <1>1, <3>6, <4>1, <4>3
    <3> QED  BY <3>2, <3>5, <3>6
  <2> QED  BY <2>2, <2>3, <2>4
<1> QED  BY <1>11, <1>12, <1>13

LEMMA StepPairs ==
  ASSUME PairsApart, FilesInv, PairInv, [Next]_vars
  PROVE  PairInv'
<1>1. CASE PowerFailure
  <2>1. /\ power' = FALSE /\ UNCHANGED <<cmd, overlaps, replaced>>
        /\ status' = [p \in Proc |-> IF status[p] = "running" THEN "killed" ELSE status[p]]
    BY <1>1 DEF PowerFailure, args, history
  <2> QED  BY <2>1, QuietPairs
<1>2. CASE UNCHANGED vars  BY <1>2, QuietPairs DEF vars
<1>3. ASSUME NEW p \in Proc, Start(p) \/ Step(p) \/ Interrupt(p) \/ Kill(p)
      PROVE  PairInv'
  <2>1. CASE Start(p)      BY <2>1, StartPairs
  <2>2. CASE Replace(p)    BY <2>2, ReplacePairs
  <2>3. CASE Report(p)     BY <2>3, ReportPairs
  <2>4. CASE Raise(p) \/ Interrupt(p) \/ Kill(p)
    <3>1. /\ \E s \in {"failed", "interrupted", "killed"} :
                status' = [status EXCEPT ![p] = s]
          /\ UNCHANGED <<disk, power, replaced, cmd, overlaps>>
      BY <2>4 DEF Raise, Interrupt, Kill, files, args, history
    <3>2. \A q \in Proc : /\ status'[q] = "running" => status[q] = "running"
                          /\ status'[q] = "done" => status[q] = "done"
      BY <3>1 DEF FilesInv, TypeInv
    <3> QED  BY <3>1, <3>2, QuietPairs
  <2>5. CASE CheckAlias(p) \/ Read(p) \/ Compute(p) \/ MakeTemp(p) \/ Write(p)
    <3>1. UNCHANGED <<disk, power, replaced, cmd, overlaps, status>>
      BY <2>5 DEF CheckAlias, Read, Compute, MakeTemp, Write, Advance,
                  files, args, history
    <3> QED  BY <3>1, QuietPairs
  <2> QED  BY <1>3, <2>1, <2>2, <2>3, <2>4, <2>5 DEF Step
<1> QED  BY <1>1, <1>2, <1>3 DEF Next

\* Short of a power failure, a bundle and a keyset that keygen wrote are of one
\* pair unless a keygen was stopped between the two or two ran at the same
\* time, for keygens that do not share one of their two paths.
THEOREM PairsOfKeygens ==
  ASSUME PairsApart
  PROVE  Spec => []PairsMatch
<1>1. FilesInv /\ PairInv => PairsMatch
  <2> SUFFICES ASSUME FilesInv, PairInv, NEW p \in Proc, Keygen(cmd[p]),
                      cmd[p].bundle # cmd[p].key, power,
                      disk[cmd[p].bundle] \in Bundle, disk[cmd[p].key] \in Keyset,
                      disk[cmd[p].bundle].key # disk[cmd[p].key].key
               PROVE  LET b == disk[cmd[p].bundle]  k == disk[cmd[p].key] IN
                      /\ b.key \in Proc
                      /\ \/ Len(replaced[b.key]) = 1 /\ status[b.key] # "done"
                         \/ /\ {b.key, k.key} \in overlaps
                            /\ Len(replaced[b.key]) = 2 /\ Len(replaced[k.key]) = 2
    BY DEF PairsMatch, Keygen
  <2>1. cmd[p] \in Keygens  BY KeygenCommand
  <2> QED  BY <2>1 DEF PairInv, MatchInv
<1>2. Init => PairInv  BY InitPairs
<1>3. FilesInv /\ PairInv /\ [Next]_vars => PairInv'  BY StepPairs
<1> QED  BY <1>1, <1>2, <1>3, FilesInvariant, StepFiles, PTL DEF Spec
=============================================================================
