----------------------------- MODULE ReqStream -----------------------------
(***************************************************************************)
(* What a request buffer promises to its reader (src/reqbuf.h:31-44): the  *)
(* medium may cut and join requests anywhere, the reader gets them whole,  *)
(* one at a time, in order, each of them once.                             *)
(***************************************************************************)
EXTENDS Sequences

CONSTANT Requests  \* what a peer can send

VARIABLES queue,   \* the requests not read yet
          got      \* the requests read

StreamInit == queue = <<>> /\ got = <<>>

SendRequest == \E r \in Requests : queue' = Append(queue, r) /\ UNCHANGED got

ReadRequest == /\ queue # <<>>
               /\ got' = Append(got, Head(queue))
               /\ queue' = Tail(queue)

\* The stream is closed; what has not been read is discarded.
Close == /\ queue' = <<>>
         /\ UNCHANGED got

StreamSpec == StreamInit /\ [][SendRequest \/ ReadRequest \/ Close]_<<queue, got>>
============================================================================
