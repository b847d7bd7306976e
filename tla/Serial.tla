------------------------------- MODULE Serial -------------------------------
(***************************************************************************)
(* What software may assume of the serial port: two queues.  Characters    *)
(* written are sent in order, each once; characters received are read in   *)
(* order, each once.  Received characters are lost only to an overrun that *)
(* is reported, and either queue only to a reset.                          *)
(***************************************************************************)
EXTENDS Naturals, Sequences

CONSTANTS Capacity,   \* characters a queue holds
          Chars, None,
          Nul         \* what reading an empty receiver returns

VARIABLES sendq,      \* written and not yet on the line
          line,       \* the character on the line, or None
          recvq,      \* received and not yet read
          Dout,       \* the character being read, or None
          owed        \* errors of received characters not yet reported

vars == <<sendq, line, recvq, Dout, owed>>

\* Software writes at most one character in a step.
Written == {<<>>} \cup {<<c>> : c \in Chars}

\* The character on the line is unchanged or finished.
Queue == \E new \in Written :
  /\ sendq' = sendq \o new
  /\ line' \in {line, None}

\* The oldest character goes to the idle line.
Start == \E new \in Written :
  /\ line = None /\ sendq # <<>>
  /\ line' = Head(sendq)
  /\ sendq' = Tail(sendq) \o new

Transmit == (Queue \/ Start) /\ Len(sendq') <= Capacity

\* A step in which nothing is read or received; the errors may be reported.
Quiet == recvq' = recvq /\ Dout' = None /\ owed' \subseteq owed

Receive == \E c \in Chars :
  /\ recvq' = Append(recvq, c)
  /\ Dout' = None
  /\ "overrun" \notin owed' \ owed

\* A character arrives at a full receiver: others may be lost, and it is told.
Overrun == \E c \in Chars :
  /\ \E n \in 0 .. Len(recvq) + 1 :
       recvq' = SubSeq(Append(recvq, c), n + 1, Len(recvq) + 1)
  /\ Dout' = None
  /\ "overrun" \in owed'

Read ==
  /\ Dout' = IF recvq = <<>> THEN Nul ELSE Head(recvq)
  /\ recvq' = IF recvq = <<>> THEN <<>> ELSE Tail(recvq)
  /\ UNCHANGED owed

Reset ==
  /\ sendq' = <<>> /\ recvq' = <<>>
  /\ line' \in {line, None}
  /\ Dout' = None
  /\ owed' \subseteq owed

Init == sendq = <<>> /\ line = None /\ recvq = <<>> /\ Dout = None /\ owed = {}

Next == (Transmit /\ (Quiet \/ Receive \/ Overrun \/ Read)) \/ Reset

Spec == Init /\ [][Next]_vars
=============================================================================
