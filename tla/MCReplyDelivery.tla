-------------------------- MODULE MCReplyDelivery --------------------------
(* ReplyDelivery for TLC: two Discord clients of one process and a KOOK     *)
(* bridge.                                                                 *)
EXTENDS ReplyDelivery, TLC

\* The Discord clients, and the requests, are interchangeable; the order of
\* the rows is in stamp.  
Symmetry == Permutations(Client \ Kook) \cup Permutations(Job)
=============================================================================
