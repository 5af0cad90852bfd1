------------------------------- MODULE Reqbuf -------------------------------
(***************************************************************************)
(* The request buffer of wicom (src/reqbuf.c): it reads chunks of bytes    *)
(* from a medium and hands out whole requests.                             *)
(*                                                                         *)
(* A byte is known by the request it belongs to and its place there; what  *)
(* else it holds matters only for the end of a text request and for the    *)
(* stype at the beginning of a binary one.  The peer sends a request at    *)
(* any time; how late it arrives is up to the medium.                      *)
(*                                                                         *)
(* Sizes are computed as on a machine with 64-bit pointers, where the      *)
(* search for the end of a text inside a binary request that is not there  *)
(* yet (max_size below the offset of data.text.raw) searches nothing.      *)
(***************************************************************************)
EXTENDS Naturals, Sequences, SequencesExt, FiniteSetsExt

CONSTANTS
  NumRequests,   \* bound: how many requests are sent
  Types,         \* of the buffer: "text" or "binary"
  Stypes,        \* the stypes of the requests sent to a binary buffer
  TextSizes,     \* sizes of a text with its end character
  StypeSize,     \* bytes of the field stype, the first of a request
  HeaderSize,    \* bytes of a binary request before data.text.raw
  BinSize,       \* sizeof(struct _request_t)
  InitSize,      \* REQBUF_INIT_SIZE
  Transports,    \* "stream": a callback that delivers any number of bytes;
                 \* "datagram": a channel that delivers each request at once
  Junk           \* the contents of memory nobody has written

ASSUME ReqbufAssumption ==
  /\ {NumRequests, StypeSize, HeaderSize, BinSize, InitSize} \subseteq Nat \ {0}
  /\ TextSizes \subseteq Nat \ {0}
  /\ StypeSize <= HeaderSize /\ HeaderSize <= BinSize /\ StypeSize <= InitSize
  /\ Types \subseteq {"text", "binary"}
  /\ Stypes \subseteq {"BIN", "TEXT"}
  /\ Transports \subseteq {"stream", "datagram"}
  /\ Junk \notin [req : Nat, at : Nat]

VARIABLES
  type,          \* the buffer's type
  sent,          \* the requests sent
  transport,     \* how they are sent
  channel,       \* bytes that have not been delivered
  buffer_ptr,    \* the buffer's memory: "none", "live", "null" or "freed"
  buffer,        \* its bytes
  buffer_used,
  pc,            \* of the thread that reads
  result,        \* how the last reqbuf_read ended
  got            \* what it has handed out

peer == <<sent, transport>>

vars == <<type, peer, channel, buffer_ptr, buffer, buffer_used, pc, result, got>>

Numbers == 1..NumRequests

Sizes == TextSizes \cup {BinSize} \cup { HeaderSize + n : n \in TextSizes }

\* The requests a peer can send.  Only a text buffer parses what it reads.
Shapes ==
  IF type = "text"
  THEN [stype : {"TEXT"}, size : TextSizes, valid : BOOLEAN]
  ELSE UNION { IF s = "BIN"
               THEN { [stype |-> s, size |-> BinSize, valid |-> TRUE] }
               ELSE { [stype |-> s, size |-> HeaderSize + n, valid |-> TRUE] :
                        n \in TextSizes } : s \in Stypes }

Bytes(n, size) == [i \in 1..size |-> [req |-> n, at |-> i]]

Request(n) == Bytes(n, sent[n].size)

LastByte(b) == b.at = sent[b.req].size

\* V_REQENDCHAR
EndsText(b) == b # Junk /\ sent[b.req].stype = "TEXT" /\ LastByte(b)

Goto(from, to) == pc = from /\ pc' = to

\* reqbuf_read returns.
Returns(from, r) == Goto(from, "idle") /\ result' = r
-----------------------------------------------------------------------------
Init == /\ type \in Types
        /\ transport \in Transports
        /\ sent = <<>>
        /\ channel = <<>>
        /\ buffer_ptr = "none"
        /\ buffer = [i \in 1..InitSize |-> Junk]
        /\ buffer_used = 0
        /\ pc = "none"
        /\ result = "none"
        /\ got = <<>>

\* The peer sends one more request, at any time.  A datagram longer than the
\* buffer would lose its tail: none is sent.
Send(shape) ==
  /\ Len(sent) < NumRequests
  /\ transport = "datagram" => shape.size <= InitSize
  /\ sent' = Append(sent, shape)
  /\ channel' = channel \o Bytes(Len(sent) + 1, shape.size)
  /\ UNCHANGED <<type, transport, buffer_ptr, buffer, buffer_used, pc, result, got>>

\* The allocation of the buffer is not checked.
reqbuf_create ==
  /\ Goto("none", "idle")
  /\ buffer_ptr' \in {"live", "null"}
  /\ UNCHANGED <<type, peer, channel, buffer, buffer_used, result, got>>

reqbuf_destroy ==
  /\ Goto("idle", "destroyed")
  /\ buffer_ptr' = "freed"
  /\ buffer_used' = 0
  /\ UNCHANGED <<type, peer, channel, buffer, result, got>>

reqbuf_read ==
  /\ Goto("idle", "loop")
  /\ result' = "none"
  /\ UNCHANGED <<type, peer, channel, buffer_ptr, buffer, buffer_used, got>>
-----------------------------------------------------------------------------
(***************************************************************************)
(* Is there a request in the buffer?                                       *)
(***************************************************************************)

\* What a read of the field stype gives.  Its least significant byte comes
\* first, and the others of a request's stype are zero; memory nobody has
\* written makes a value that no stype has, or is zero.
StypesRead ==
  LET own == sent[buffer[1].req].stype IN
    IF buffer[1].at # 1 THEN {"BIN", "TEXT", "invalid"}
    ELSE IF \A i \in 2..StypeSize : buffer[i] # Junk /\ buffer[i].at = i
         THEN {own}
         ELSE {own, "invalid"}

\* How the bytes are taken: as the text they are, or by their stype.
Forms == IF type = "text" THEN {"text"} ELSE StypesRead

\* Where the text begins.
Offset(f) == IF f = "text" THEN 0 ELSE HeaderSize

Ends(f) == { i \in Offset(f) + 1 .. buffer_used : EndsText(buffer[i]) }


reqbuf_req_is_complete(f) ==
  IF f = "BIN" THEN buffer_used >= BinSize ELSE Ends(f) # {}

SizeWithoutEnd(f) ==   \* fault: the end character is not counted
  IF f = "BIN" THEN BinSize ELSE Min(Ends(f)) - Offset(f) - 1

\* The size of a text inside a binary request is counted from the beginning
\* of the text, not of the request.
reqbuf_find_req_size(f) ==
  IF f = "BIN" THEN BinSize ELSE Min(Ends(f)) - Offset(f)
-----------------------------------------------------------------------------
(***************************************************************************)
(* The loop of reqbuf_read.                                                *)
(***************************************************************************)
Idle == UNCHANGED <<type, peer, channel, buffer_ptr, buffer, buffer_used, got>>

\* The helper functions refuse a null pointer and an unknown stype.
ReadFails ==
  /\ buffer_used > 0
  /\ \/ buffer_ptr = "null" /\ Returns("loop", "no memory")
     \/ buffer_ptr = "live" /\ "invalid" \in Forms /\ Returns("loop", "invalid stype")
  /\ Idle

NeedsMore ==
  /\ \/ buffer_used = 0
     \/ /\ buffer_used > 0 /\ buffer_ptr = "live"
        /\ \E f \in Forms \ {"invalid"} : ~reqbuf_req_is_complete(f)
  /\ Goto("loop", "more")
  /\ UNCHANGED result
  /\ Idle

\* Can req_from_string, or the allocation, succeed or fail on these bytes?
\* Bytes that no peer has sent as a request may look like one.
Accepts(bs) == type = "text" => \A n \in DOMAIN sent : bs = Request(n) => sent[n].valid
Refuses(bs) == type = "text" /\ \A n \in DOMAIN sent : bs = Request(n) => ~sent[n].valid

ShiftsShort(size) ==   \* fault: the last byte is left where it was
  buffer' = [i \in 1..InitSize |->
               IF i + size < buffer_used THEN buffer[i + size] ELSE buffer[i]]

Shifts(size) ==
  buffer' = [i \in 1..InitSize |->
               IF i + size <= buffer_used THEN buffer[i + size] ELSE buffer[i]]

\* The request is handed out and taken from the buffer; on failure it stays.
Takes ==
  /\ buffer_used > 0 /\ buffer_ptr = "live"
  /\ \E f \in Forms \ {"invalid"} :
       /\ reqbuf_req_is_complete(f)
       /\ LET size  == reqbuf_find_req_size(f)
              bytes == [i \in 1..size |-> buffer[i]] IN
            \/ /\ Accepts(bytes)
               /\ Returns("loop", "success")
               /\ got' = Append(got, bytes)
               /\ Shifts(size)
               /\ buffer_used' = buffer_used - size
               /\ UNCHANGED <<type, peer, channel, buffer_ptr>>
            \/ /\ Returns("loop", "no memory")
               /\ Idle
            \/ /\ Refuses(bytes)
               /\ Returns("loop", "refused")
               /\ Idle

\* A full buffer is made larger, or lost if that fails.  buffer_size keeps its
\* value, so that nothing fits in all the same.
Grows ==
  \/ /\ Goto("more", "receive")
     /\ UNCHANGED result
     /\ Idle
  \/ /\ buffer_used = InitSize
     /\ Returns("more", "no memory")
     /\ buffer_ptr' = "null"
     /\ UNCHANGED <<type, peer, channel, buffer, buffer_used, got>>

FreeBytesOffByOne == InitSize - buffer_used + 1   \* fault: one too many

FreeBytes == InitSize - buffer_used

\* read_cb: n bytes are delivered and the first taken bytes of the channel are
\* gone.  A channel refuses to receive into no room at all, and drops what
\* does not fit of a datagram.
Delivers(n, taken) ==
  \/ /\ transport = "stream"
     /\ n <= FreeBytes
     /\ taken = n
  \/ /\ transport = "datagram"
     /\ FreeBytes > 0 /\ channel # <<>>
     /\ taken = Min({ i \in DOMAIN channel : LastByte(channel[i]) })
     /\ n = Min({taken, FreeBytes})

Appends(n) ==
  buffer' = [i \in 1..InitSize |->
               IF i \in buffer_used + 1 .. buffer_used + n
               THEN channel[i - buffer_used] ELSE buffer[i]]

Receives(n) ==
  /\ Goto("receive", "loop")
  /\ buffer_ptr = "live"
  /\ \E taken \in DOMAIN channel \cup {0} :
       /\ Delivers(n, taken)
       /\ channel' = SubSeq(channel, taken + 1, Len(channel))
  /\ Appends(n)
  /\ buffer_used' = buffer_used + n
  /\ UNCHANGED <<type, peer, buffer_ptr, result, got>>

\* read_cb claims more bytes than it was offered room for; it has taken none.
ReceiveFails ==
  /\ Returns("receive", "read failed")
  /\ Idle

\* read_cb fails, as it does on a buffer that is not there or has no room.  The
\* status is then printed as if it were a string: the process dies.
ReceiveDies ==
  /\ Goto("receive", "dead")
  /\ UNCHANGED result
  /\ Idle

Next == \/ \E shape \in Shapes : Send(shape)
        \/ reqbuf_create \/ reqbuf_destroy \/ reqbuf_read
        \/ ReadFails \/ NeedsMore \/ Takes \/ Grows
        \/ ReceiveFails \/ ReceiveDies
        \/ \E n \in DOMAIN channel \cup {0} : Receives(n)

Spec == Init /\ [][Next]_vars

(***************************************************************************)
(* Fairness: the caller calls again, also after a failure; the allocator   *)
(* fails now and then but not always, and the medium delivers in the end   *)
(* what was sent, unless it fails and the process dies of it.              *)
(***************************************************************************)
Fairness == /\ WF_vars(reqbuf_read)
            /\ WF_vars(NeedsMore \/ Grows)
            /\ SF_vars(Takes /\ result' = "success")
            /\ SF_vars(\E n \in DOMAIN channel : Receives(n))
            /\ WF_vars(Receives(0))

FairSpec == Spec /\ Fairness
-----------------------------------------------------------------------------
(***************************************************************************)
(* Properties.                                                             *)
(***************************************************************************)
Byte == [req : Numbers, at : Nat \ {0}]

\* Types, and the bound that keeps the chunks inside the buffer.
TypeOK ==
  /\ type \in Types
  /\ sent \in Seq(Shapes) /\ Len(sent) <= NumRequests
  /\ transport \in Transports
  /\ channel \in Seq(Byte)
  /\ buffer_ptr \in {"none", "live", "null", "freed"}
  /\ buffer \in [1..InitSize -> Byte \cup {Junk}]
  /\ buffer_used \in 0..InitSize
  /\ pc \in {"none", "idle", "loop", "more", "receive", "destroyed",
            "dead"}
  /\ result \in {"none", "success", "no memory", "invalid stype", "refused", "read failed"}
  /\ got \in Seq(Seq(Byte))

\* The bytes that were sent and not read, those in the buffer first.
Unread == SubSeq(buffer, 1, buffer_used) \o channel

\* The part of bytes that is request n.
Part(bytes, n) ==
  LET at == { k \in DOMAIN bytes : bytes[k].req = n } IN
    SubSeq(bytes, Min(at), Max(at))

\* The requests these bytes are.
UnreadRequests ==
  IF Unread = <<>> THEN <<>>
  ELSE [i \in 1 .. Last(Unread).req + 1 - Head(Unread).req |->
          Part(Unread, Head(Unread).req + i - 1)]

Stream == INSTANCE ReqStream WITH
            Requests <- { Bytes(n, size) : n \in Numbers, size \in Sizes },
            queue <- IF pc = "destroyed" THEN <<>> ELSE UnreadRequests

\* Whatever the cuts, the failures and the repetitions, the buffer is a stream
\* of requests: each call hands out the next whole request or leaves every
\* unread byte in its place.  Destroying the buffer discards what it holds.
StreamOfRequests == Stream!StreamSpec

\* The requests handed out are the requests sent, in their order, whole.
InOrder == Len(got) <= Len(sent) /\ \A i \in DOMAIN got : got[i] = Request(i)

\* A request is handed out in the end if those before it and itself are well
\* formed and not longer than the buffer, though allocations fail on the way.
\* A medium that fails ends the process instead.  A binary buffer may read a
\* stype that has not arrived and take it for an invalid one for ever, since
\* it does not receive before it has failed.
ReadableUpTo(n) ==
  n <= Len(sent) /\ \A i \in 1..n : sent[i].valid /\ sent[i].size <= InitSize

-----------------------------------------------------------------------------
(***************************************************************************)
(* What comments say and the code does not do.                             *)
(***************************************************************************)

\* "which is allocated initially and might grow depending on the request sizes"
\* (reqbuf.h:82-83).  buffer_size never changes: a request longer than the
\* first buffer is never handed out, by a medium that never fails either.
LongRequestsArrive ==
  \A n \in Numbers :
    buffer_ptr = "live" /\ n <= Len(sent) /\ (\A i \in 1..n : sent[i].valid) ~>
      Len(got) >= n \/ buffer_ptr # "live" \/ pc = "dead"
=============================================================================
