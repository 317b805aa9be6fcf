------------------------------ MODULE Channel ------------------------------
(***************************************************************************)
(* What a pipe promises: the bytes come out once each, in the order in     *)
(* which they went in, and no more than Capacity of them are in between.   *)
(***************************************************************************)
EXTENDS Naturals, Sequences

CONSTANTS Bytes, Capacity
VARIABLES
  queue,  \* the bytes in the pipe
  read    \* what the last read() that took some got

channelvars == <<queue, read>>

ChannelInit == queue = << >> /\ read = << >>

Send ==
  /\ Len(queue') \in Len(queue) .. Capacity
  /\ SubSeq(queue', 1, Len(queue)) = queue
  /\ UNCHANGED read

Receive ==
  \E n \in 1 .. Len(queue) :
    /\ read'  = SubSeq(queue, 1, n)
    /\ queue' = SubSeq(queue, n + 1, Len(queue))

ChannelSpec == ChannelInit /\ [][Send \/ Receive]_channelvars
=============================================================================
