-------------------------- MODULE AuthenticChannel --------------------------
(***************************************************************************)
(* What encrypt_stream() and decrypt_stream() promise together, with no    *)
(* key, header, frame or medium: a receiver reads one sender, gets the     *)
(* sender's chunks in order from the first, and succeeds only at the end   *)
(* of a finished input.  It may reject at any time.                        *)
(***************************************************************************)
EXTENDS Naturals, Sequences

CONSTANTS Stream, Chunk, None

VARIABLES
  sent,    \* sent[s]: the chunks sender s has read from its input
  closed,  \* closed[s]: whether that input has ended
  from,    \* the sender the receiver reads, None before it has one
  got,     \* the chunks the receiver has written
  verdict  \* "open", then "accepted" or "rejected"

vars == <<sent, closed, from, got, verdict>>

Init ==
  /\ sent    = [s \in Stream |-> <<>>]
  /\ closed  = [s \in Stream |-> FALSE]
  /\ from    = None
  /\ got     = <<>>
  /\ verdict = "open"

Send(s, c) ==
  /\ ~closed[s]
  /\ sent' = [sent EXCEPT ![s] = Append(@, c)]
  /\ UNCHANGED <<closed, from, got, verdict>>

Close(s) ==
  /\ ~closed[s]
  /\ closed' = [closed EXCEPT ![s] = TRUE]
  /\ UNCHANGED <<sent, from, got, verdict>>

Attach(s) ==
  /\ verdict = "open"
  /\ from = None
  /\ from' = s
  /\ UNCHANGED <<sent, closed, got, verdict>>

Deliver ==
  /\ verdict = "open"
  /\ from # None
  /\ Len(got) < Len(sent[from])
  /\ got' = Append(got, sent[from][Len(got) + 1])
  /\ UNCHANGED <<sent, closed, from, verdict>>

Accept ==
  /\ verdict = "open"
  /\ from # None
  /\ closed[from]
  /\ got = sent[from]
  /\ verdict' = "accepted"
  /\ UNCHANGED <<sent, closed, from, got>>

Reject ==
  /\ verdict = "open"
  /\ verdict' = "rejected"
  /\ UNCHANGED <<sent, closed, from, got>>

Next ==
  \/ \E s \in Stream : Close(s) \/ Attach(s) \/ \E c \in Chunk : Send(s, c)
  \/ Deliver \/ Accept \/ Reject

Spec == Init /\ [][Next]_vars
=============================================================================
