------------------------------- MODULE MCUart -------------------------------
(***************************************************************************)
(* Instances of Uart for TLC.                                              *)
(***************************************************************************)
EXTENDS Uart, TLC

\* Characters wait in one direction at a time; the other has at most one in the
\* shift register or on the line, and none when two have been received.
OneDirection ==
  /\ recvq = <<>> \/ sendq = <<>>
  /\ Len(recvq) > 1 => ~txsrfull

\* Slots outside the queues, an empty holding register and a buffer register that
\* nothing reads keep old characters; states that differ in them are one state.
Live == <<fifoenabled, done, recvq, rxfifohead, rxfifotail, rxdataready, RXBR.err,
          rxfifotimeout, sendq, txfifohead, txfifotail, HeadPointerLastMove, txhrfull,
          txsr, txsrfull, txstate, LSR, prevSquashRXerrIP, prevSquashTHRE_IP, Dout,
          hart, owed>>

Symmetry == Permutations(Chars)
=============================================================================
