---------------------------- MODULE ReqbufProofs ----------------------------
(***************************************************************************)
(* Proofs about the request buffer (module Reqbuf), for any number of      *)
(* requests of any sizes, any size of the buffer and both media: its type  *)
(* invariant, and that requests come out whole and in the order they were  *)
(* sent.                                                                   *)
(*                                                                         *)
(* The bytes sent and not read, those in the buffer first, are a stream:   *)
(* a predicate on sequences that says where requests begin and end without *)
(* saying how many there are.  Sending puts a request behind a stream,     *)
(* receiving leaves it as it is, and reading takes its first request.      *)
(***************************************************************************)
EXTENDS Reqbuf, DataLemmas

(***************************************************************************)
(* Streams of bytes.  u is the stream, st the requests sent, g the number  *)
(* of requests that were read before it begins.                            *)
(***************************************************************************)
AnyByte == [req : Nat, at : Nat]

EndsIn(b, st) == b.at = st[b.req].size

\* Every byte is one of a request that was sent.
Known(u, st) == \A i \in 1..Len(u) : u[i].req \in 1..Len(st) /\ u[i].at \in Nat \ {0}

\* Bytes of one request are as far apart as their places in it.
SameRequest(u) ==
  \A i, j \in 1..Len(u) : i < j /\ u[i].req = u[j].req => u[j].at + i = u[i].at + j

\* Between bytes of two requests, the first of them ends.
EndBetween(u, st) ==
  \A i, j \in 1..Len(u) :
    i < j /\ u[i].req # u[j].req =>
      \E k \in i .. j - 1 : u[k].req = u[i].req /\ EndsIn(u[k], st)

\* Behind the end of a request the next one begins.
NextBegins(u, st) ==
  \A i \in 1..Len(u) :
    EndsIn(u[i], st) /\ i < Len(u) => u[i + 1] = [req |-> u[i].req + 1, at |-> 1]

\* The stream begins with the first request that was not read.
Begins(u, g) == Len(u) > 0 => u[1] = [req |-> g + 1, at |-> 1]

\* It goes on to the end of the last request sent.
Finishes(u, st, g) ==
  IF Len(u) = 0 THEN g = Len(st)
  ELSE u[Len(u)].req = Len(st) /\ EndsIn(u[Len(u)], st)

IsStream(u, st, g) ==
  /\ Known(u, st) /\ SameRequest(u) /\ EndBetween(u, st) /\ NextBegins(u, st)
  /\ Begins(u, g) /\ Finishes(u, st, g)

\* Up to the first end, the bytes of a stream are those of its first request.
LEMMA FirstRequest ==
  ASSUME NEW u \in Seq(AnyByte), NEW st, NEW g \in Nat, IsStream(u, st, g), Len(st) \in Nat,
         NEW m \in 1..Len(u), \A i \in 1 .. m - 1 : ~EndsIn(u[i], st)
  PROVE  \A i \in 1..m : u[i] = [req |-> g + 1, at |-> i]
<1> SUFFICES ASSUME NEW i \in 1..m PROVE u[i] = [req |-> g + 1, at |-> i]
  OBVIOUS
<1>1. u[1] = [req |-> g + 1, at |-> 1] /\ 1 \in 1..Len(u) /\ i \in 1..Len(u) /\ Len(u) \in Nat
  BY DEF IsStream, Begins
<1>b. u[i] \in AnyByte /\ u[1] \in AnyByte
  BY <1>1, ElementOfSeq
<1>2. u[i].req = g + 1
  <2> SUFFICES ASSUME u[i].req # u[1].req PROVE FALSE
    BY <1>1
  <2>1. 1 < i
    BY <1>1
  <2>2. PICK k \in 1 .. i - 1 : EndsIn(u[k], st)
    BY <1>1, <2>1 DEF IsStream, EndBetween
  <2> QED BY <2>2
<1>3. u[i].at = i
  <2>1. CASE i = 1
    BY <2>1, <1>1
  <2>2. CASE i > 1
    <3>1. u[i].at + 1 = u[1].at + i
      BY <1>1, <1>2, <2>2 DEF IsStream, SameRequest
    <3>2. u[1].at = 1
      BY <1>1
    <3>3. u[i].at \in Nat
      BY <1>b DEF AnyByte
    <3> QED BY <3>1, <3>2, <3>3
  <2> QED BY <2>1, <2>2
<1> QED BY <1>2, <1>3, <1>b DEF AnyByte

\* Where a stream has an end it has a first one, at the size of its first request.
LEMMA FirstEnd ==
  ASSUME NEW u \in Seq(AnyByte), NEW st, NEW g \in Nat, IsStream(u, st, g), Len(st) \in Nat,
         NEW e \in 1..Len(u), EndsIn(u[e], st)
  PROVE  \E m \in 1..e : /\ EndsIn(u[m], st)
                         /\ st[g + 1].size = m
                         /\ \A i \in 1 .. m - 1 : ~EndsIn(u[i], st)
                         /\ \A i \in 1..m : u[i] = [req |-> g + 1, at |-> i]
<1> DEFINE S == { i \in 1..e : EndsIn(u[i], st) }
           m == Min(S)
<1>1. m \in S /\ \A x \in S : m <= x
  <2>1. S \subseteq Nat /\ S # {}
    OBVIOUS
  <2> HIDE DEF S
  <2> QED BY <2>1, MinExists
<1> HIDE DEF m
<1>2. m \in 1..Len(u) /\ m \in 1..e /\ EndsIn(u[m], st)
  BY <1>1
<1>3. \A i \in 1 .. m - 1 : ~EndsIn(u[i], st)
  BY <1>1, <1>2
<1>4. \A i \in 1..m : u[i] = [req |-> g + 1, at |-> i]
  BY <1>2, <1>3, FirstRequest, SMTT(30)
<1>5. st[g + 1].size = m
  <2>1. u[m] = [req |-> g + 1, at |-> m]
    BY <1>2, <1>4
  <2> QED BY <1>2, <2>1 DEF EndsIn
<1> QED BY <1>2, <1>3, <1>4, <1>5

\* A place m further on, seen from m further on.
LEMMA MovedBack ==
  ASSUME NEW m \in Nat, NEW i \in Nat, NEW j \in Nat, NEW n \in Nat, i >= 1, j <= n,
         NEW c \in i + m .. (j + m) - 1
  PROVE  c - m \in i .. j - 1 /\ c - m \in 1..n /\ (c - m) + m = c
OBVIOUS

\* What follows the first request of a stream is a stream.
LEMMA StreamWithoutFirst ==
  ASSUME NEW u \in Seq(AnyByte), NEW st, NEW g \in Nat, IsStream(u, st, g), Len(st) \in Nat,
         NEW m \in 1..Len(u), EndsIn(u[m], st), u[m].req = g + 1,
         NEW v \in Seq(AnyByte), Len(v) = Len(u) - m,
         \A i \in 1..Len(v) : v[i] = u[i + m]
  PROVE  IsStream(v, st, g + 1)
<1>1. Len(u) \in Nat /\ Len(v) \in Nat /\ m \in Nat /\ \A i \in 1..Len(v) : i + m \in 1..Len(u)
  OBVIOUS
<1>2. Known(v, st)
  BY <1>1 DEF IsStream, Known
<1>m. \A i \in 1..Len(v) : \E a \in 1..Len(u) : a = i + m /\ u[a] = v[i]
  BY <1>1
<1>3. SameRequest(v)
  <2> SUFFICES ASSUME NEW i \in 1..Len(v), NEW j \in 1..Len(v), i < j, v[i].req = v[j].req
               PROVE  v[j].at + i = v[i].at + j
    BY DEF SameRequest
  <2>1. PICK a \in 1..Len(u) : a = i + m /\ u[a] = v[i]
    BY <1>m
  <2>2. PICK b \in 1..Len(u) : b = j + m /\ u[b] = v[j]
    BY <1>m
  <2>3. a < b
    BY <2>1, <2>2
  <2>4. v[j].at + a = v[i].at + b
    BY <2>1, <2>2, <2>3, SMTT(30) DEF IsStream, SameRequest
  <2>5. v[j].at \in Nat /\ v[i].at \in Nat
    <3>1. v[j] \in AnyByte /\ v[i] \in AnyByte
      BY ElementOfSeq
    <3> QED BY <3>1 DEF AnyByte
  <2>6. i \in Nat /\ j \in Nat /\ m \in Nat
    BY <1>1
  <2> DEFINE x == v[i].at
             y == v[j].at
  <2>7. x \in Nat /\ y \in Nat /\ y + (i + m) = x + (j + m)
    BY <2>1, <2>2, <2>4, <2>5
  <2> HIDE DEF x, y
  <2>8. y + i = x + j
    BY <2>6, <2>7
  <2> QED BY <2>8 DEF x, y
<1>4. EndBetween(v, st)
  <2> SUFFICES ASSUME NEW i \in 1..Len(v), NEW j \in 1..Len(v), i < j, v[i].req # v[j].req
               PROVE  \E k \in i .. j - 1 : v[k].req = v[i].req /\ EndsIn(v[k], st)
    BY DEF EndBetween
  <2>1. PICK a \in 1..Len(u) : a = i + m /\ u[a] = v[i]
    BY <1>m
  <2>2. PICK b \in 1..Len(u) : b = j + m /\ u[b] = v[j]
    BY <1>m
  <2>3. a < b /\ u[a].req # u[b].req
    BY <2>1, <2>2
  <2>4. PICK c \in a .. b - 1 : u[c].req = u[a].req /\ EndsIn(u[c], st)
    BY <2>3 DEF IsStream, EndBetween
  <2> DEFINE k == c - m
  <2>5. k \in i .. j - 1 /\ k \in 1..Len(v) /\ k + m = c
    <3>1. i \in Nat /\ j \in Nat /\ m \in Nat /\ Len(v) \in Nat /\ i >= 1 /\ j <= Len(v)
      BY <1>1
    <3>2. c \in i + m .. (j + m) - 1
      BY <2>1, <2>2
    <3> QED BY <3>1, <3>2, MovedBack
  <2>6. v[k] = u[c]
    BY <2>5
  <2> HIDE DEF k
  <2> QED BY <2>1, <2>4, <2>5, <2>6
<1>5. NextBegins(v, st)
  <2> SUFFICES ASSUME NEW i \in 1..Len(v), EndsIn(v[i], st), i < Len(v)
               PROVE  v[i + 1] = [req |-> v[i].req + 1, at |-> 1]
    BY DEF NextBegins
  <2>1. PICK a \in 1..Len(u) : a = i + m /\ u[a] = v[i]
    BY <1>m
  <2>2. a < Len(u) /\ EndsIn(u[a], st)
    BY <2>1, <1>1
  <2>3. u[a + 1] = [req |-> u[a].req + 1, at |-> 1]
    BY <2>2 DEF IsStream, NextBegins
  <2>4. v[i + 1] = u[a + 1]
    <3> DEFINE n == i + 1
    <3>1. n \in 1..Len(v) /\ n + m = a + 1
      <4>1. i \in Nat /\ m \in Nat /\ Len(v) \in Nat /\ a = i + m
        BY <2>1, <1>1
      <4> QED BY <4>1
    <3>2. v[n] = u[n + m]
      BY <3>1
    <3> QED BY <3>1, <3>2
  <2> QED BY <2>1, <2>3, <2>4
<1>6. Begins(v, g + 1)
  <2>1. CASE m = Len(u)
    BY <2>1, <1>1 DEF Begins
  <2>2. CASE m < Len(u)
    <3>1. u[m + 1] = [req |-> u[m].req + 1, at |-> 1]
      BY <2>2 DEF IsStream, NextBegins
    <3>2. v[1] = u[m + 1]
      BY <2>2, <1>1
    <3> QED BY <3>1, <3>2 DEF Begins
  <2> QED BY <2>1, <2>2, <1>1
<1>7. Finishes(v, st, g + 1)
  <2>1. CASE m = Len(u)
    BY <2>1, <1>1 DEF IsStream, Finishes
  <2>2. CASE m < Len(u)
    <3>1. v[Len(v)] = u[Len(u)]
      BY <2>2, <1>1
    <3> QED BY <2>2, <3>1, <1>1 DEF IsStream, Finishes
  <2> QED BY <2>1, <2>2, <1>1
<1> QED BY <1>2, <1>3, <1>4, <1>5, <1>6, <1>7 DEF IsStream

\* A stream followed by the bytes of one more request is a stream.
LEMMA StreamWithOneMore ==
  ASSUME NEW u \in Seq(AnyByte), NEW st, NEW g \in Nat, IsStream(u, st, g), Len(st) \in Nat,
         NEW st2, Len(st2) = Len(st) + 1, \A i \in 1..Len(st) : st2[i] = st[i],
         NEW size \in Nat \ {0}, st2[Len(st) + 1].size = size,
         NEW v \in Seq(AnyByte), Len(v) = Len(u) + size,
         \A i \in 1..Len(u) : v[i] = u[i],
         \A i \in 1..size : v[Len(u) + i] = [req |-> Len(st) + 1, at |-> i]
  PROVE  IsStream(v, st2, g)
<1>1. Len(u) \in Nat /\ Len(v) \in Nat
  OBVIOUS
<1>2. \A i \in 1..Len(v) : \/ i \in 1..Len(u) /\ v[i] = u[i] /\ v[i].req \in 1..Len(st)
                                /\ (EndsIn(v[i], st2) <=> EndsIn(u[i], st))
                           \/ i \in Len(u) + 1 .. Len(v)
                                /\ v[i] = [req |-> Len(st) + 1, at |-> i - Len(u)]
                                /\ (EndsIn(v[i], st2) <=> i = Len(v))
  <2> SUFFICES ASSUME NEW i \in 1..Len(v)
               PROVE  \/ i \in 1..Len(u) /\ v[i] = u[i] /\ v[i].req \in 1..Len(st)
                                /\ (EndsIn(v[i], st2) <=> EndsIn(u[i], st))
                      \/ i \in Len(u) + 1 .. Len(v)
                                /\ v[i] = [req |-> Len(st) + 1, at |-> i - Len(u)]
                                /\ (EndsIn(v[i], st2) <=> i = Len(v))
    OBVIOUS
  <2>1. CASE i \in 1..Len(u)
    BY <2>1 DEF IsStream, Known, EndsIn
  <2>2. CASE i \notin 1..Len(u)
    <3>1. i - Len(u) \in 1..size /\ Len(u) + (i - Len(u)) = i
      BY <2>2, <1>1
    <3>2. v[i] = [req |-> Len(st) + 1, at |-> i - Len(u)]
      BY <3>1
    <3>3. EndsIn(v[i], st2) <=> i = Len(v)
      BY <3>2, <1>1 DEF EndsIn
    <3> QED BY <3>1, <3>2, <3>3, <2>2, <1>1
  <2> QED BY <2>1, <2>2
<1>3. Known(v, st2)
  <2> SUFFICES ASSUME NEW i \in 1..Len(v)
               PROVE  v[i].req \in 1..Len(st2) /\ v[i].at \in Nat \ {0}
    BY DEF Known
  <2>1. CASE i \in 1..Len(u)
    BY <2>1 DEF IsStream, Known
  <2>2. CASE i \notin 1..Len(u)
    <3>1. v[i] = [req |-> Len(st) + 1, at |-> i - Len(u)] /\ i - Len(u) \in Nat \ {0}
      BY <2>2, <1>1, <1>2
    <3> QED BY <3>1
  <2> QED BY <2>1, <2>2
<1>4. SameRequest(v)
  <2> SUFFICES ASSUME NEW i \in 1..Len(v), NEW j \in 1..Len(v), i < j, v[i].req = v[j].req
               PROVE  v[j].at + i = v[i].at + j
    BY DEF SameRequest
  <2>1. CASE j \in 1..Len(u)
    <3>1. i \in 1..Len(u)
      BY <2>1
    <3> QED BY <2>1, <3>1, SMTT(30) DEF IsStream, SameRequest
  <2>2. CASE j \notin 1..Len(u)
    <3>1. v[j] = [req |-> Len(st) + 1, at |-> j - Len(u)]
      BY <2>2, <1>2
    <3>2. v[i] = [req |-> Len(st) + 1, at |-> i - Len(u)]
      BY <3>1, <1>2
    <3> QED BY <3>1, <3>2, <1>1
  <2> QED BY <2>1, <2>2
<1>5. EndBetween(v, st2)
  <2> SUFFICES ASSUME NEW i \in 1..Len(v), NEW j \in 1..Len(v), i < j, v[i].req # v[j].req
               PROVE  \E k \in i .. j - 1 : v[k].req = v[i].req /\ EndsIn(v[k], st2)
    BY DEF EndBetween
  <2>1. i \in 1..Len(u)
    <3> SUFFICES ASSUME i \notin 1..Len(u) PROVE FALSE
      OBVIOUS
    <3>1. v[i].req = Len(st) + 1 /\ j \notin 1..Len(u)
      BY <1>2, <1>1
    <3>2. v[j].req = Len(st) + 1
      BY <3>1, <1>2
    <3> QED BY <3>1, <3>2
  <2>2. CASE j \in 1..Len(u)
    <3>e. EndBetween(u, st)
      BY DEF IsStream
    <3>d. u[i] = v[i] /\ u[j] = v[j] /\ u[i].req # u[j].req
      BY <2>1, <2>2
    <3>1. PICK k \in i .. j - 1 : u[k].req = u[i].req /\ EndsIn(u[k], st)
      BY <2>1, <2>2, <3>d, <3>e DEF EndBetween
    <3>2. k \in 1..Len(u) /\ k \in 1..Len(v)
      BY <2>1, <2>2, <1>1
    <3>3. v[k] = u[k] /\ v[i] = u[i] /\ EndsIn(v[k], st2)
      BY <3>1, <3>2, <2>1, <1>2, SMTT(30)
    <3> QED BY <3>1, <3>3
  <2>3. CASE j \notin 1..Len(u)
    <3>1. Len(u) > 0 /\ u[Len(u)].req = Len(st) /\ EndsIn(u[Len(u)], st)
      BY <2>1 DEF IsStream, Finishes
    <3>2. CASE u[i].req = Len(st)
      <4>1. Len(u) \in i .. j - 1 /\ Len(u) \in 1..Len(u) /\ Len(u) \in 1..Len(v)
        BY <2>1, <2>3, <1>1
      <4>2. v[Len(u)] = u[Len(u)] /\ v[i] = u[i] /\ EndsIn(v[Len(u)], st2)
        BY <4>1, <3>1, <2>1, <1>2
      <4> QED BY <4>1, <4>2, <3>1, <3>2
    <3>3. CASE u[i].req # Len(st)
      <4>1. i < Len(u)
        BY <3>1, <3>3, <2>1, <1>1
      <4>2. PICK k \in i .. Len(u) - 1 : u[k].req = u[i].req /\ EndsIn(u[k], st)
        BY <2>1, <3>1, <3>3, <4>1, SMTT(30) DEF IsStream, EndBetween
      <4>3. k \in i .. j - 1 /\ k \in 1..Len(u) /\ k \in 1..Len(v)
        BY <2>1, <2>3, <1>1
      <4>4. v[k] = u[k] /\ EndsIn(v[k], st2)
        BY <4>2, <4>3, <1>2, <1>1
      <4> QED BY <4>2, <4>3, <4>4, <2>1
    <3> QED BY <3>2, <3>3
  <2> QED BY <2>2, <2>3
<1>6. NextBegins(v, st2)
  <2> SUFFICES ASSUME NEW i \in 1..Len(v), EndsIn(v[i], st2), i < Len(v)
               PROVE  v[i + 1] = [req |-> v[i].req + 1, at |-> 1]
    BY DEF NextBegins
  <2>1. i \in 1..Len(u) /\ v[i] = u[i] /\ EndsIn(u[i], st)
    BY <1>1, <1>2
  <2>2. CASE i < Len(u)
    <3>1. u[i + 1] = [req |-> u[i].req + 1, at |-> 1]
      BY <2>1, <2>2 DEF IsStream, NextBegins
    <3>2. v[i + 1] = u[i + 1]
      <4>1. i + 1 \in 1..Len(u)
        BY <2>1, <2>2, <1>1
      <4> QED BY <4>1
    <3> QED BY <2>1, <3>1, <3>2
  <2>3. CASE i = Len(u)
    <3>1. u[i].req = Len(st)
      BY <2>1, <2>3 DEF IsStream, Finishes
    <3> QED BY <2>1, <2>3, <3>1
  <2> QED BY <2>1, <2>2, <2>3
<1>7. Begins(v, g)
  <2>1. CASE Len(u) = 0
    <3>1. v[1] = [req |-> Len(st) + 1, at |-> 1]
      BY <2>1
    <3>2. g = Len(st)
      BY <2>1 DEF IsStream, Finishes
    <3> QED BY <3>1, <3>2 DEF Begins
  <2>2. CASE Len(u) > 0
    BY <2>2, SMTT(30) DEF IsStream, Begins
  <2> QED BY <2>1, <2>2, <1>1
<1>8. Finishes(v, st2, g)
  BY <1>1, <1>2 DEF Finishes
<1> QED BY <1>3, <1>4, <1>5, <1>6, <1>7, <1>8 DEF IsStream
-----------------------------------------------------------------------------
(***************************************************************************)
(* Types.                                                                  *)
(***************************************************************************)
\* The bytes counted by buffer_used have been received.
Held == \A i \in 1..buffer_used : buffer[i] \in Byte

TypeInv == TypeOK /\ Held

\* What the assumption on the constants says, fact by fact.
LEMMA ConstantTypes ==
  /\ NumRequests \in Nat \ {0} /\ StypeSize \in Nat \ {0} /\ HeaderSize \in Nat \ {0}
  /\ BinSize \in Nat \ {0} /\ InitSize \in Nat \ {0}
  /\ TextSizes \subseteq Nat \ {0}
  /\ Junk \notin Byte
<1>1. Byte \subseteq [req : Nat, at : Nat]
  BY DEF Byte, Numbers
<1> QED BY <1>1, ReqbufAssumption

\* What is known of a request that can be sent.
LEMMA ShapeFacts ==
  ASSUME NEW s \in Shapes, type \in Types
  PROVE  /\ s.size \in Nat \ {0} /\ s.valid \in BOOLEAN
         /\ type = "text" => s.stype = "TEXT"
         /\ type = "binary" /\ Stypes \subseteq {"BIN"} => s.stype = "BIN" /\ s.size = BinSize
<1>1. CASE type = "text"
  BY <1>1, ConstantTypes DEF Shapes
<1>2. CASE type = "binary"
  <2>1. PICK st \in Stypes :
          s \in IF st = "BIN"
                THEN { [stype |-> st, size |-> BinSize, valid |-> TRUE] }
                ELSE { [stype |-> st, size |-> HeaderSize + n, valid |-> TRUE] : n \in TextSizes }
    BY <1>2 DEF Shapes
  <2>2. CASE st = "BIN"
    <3>1. s = [stype |-> st, size |-> BinSize, valid |-> TRUE]
      BY <2>1, <2>2
    <3> QED BY <1>2, <2>2, <3>1, ConstantTypes
  <2>3. CASE st # "BIN"
    <3>1. PICK n \in TextSizes : s = [stype |-> st, size |-> HeaderSize + n, valid |-> TRUE]
      BY <2>1, <2>3
    <3>2. HeaderSize + n \in Nat \ {0}
      BY ConstantTypes
    <3> QED BY <1>2, <2>3, <3>1, <3>2
  <2> QED BY <2>2, <2>3
<1> QED BY <1>1, <1>2, ReqbufAssumption

\* What the type invariant says, fact by fact.
LEMMA Parts ==
  ASSUME TypeInv
  PROVE  /\ type \in Types
         /\ sent \in Seq(Shapes)
         /\ Len(sent) \in Nat /\ Len(sent) <= NumRequests
         /\ channel \in Seq(Byte) /\ Len(channel) \in Nat /\ DOMAIN channel = 1..Len(channel)
         /\ buffer \in [1..InitSize -> Byte \cup {Junk}]
         /\ buffer_used \in Nat /\ buffer_used <= InitSize
         /\ got \in Seq(Seq(Byte)) /\ Len(got) \in Nat
         /\ \A i \in 1..buffer_used : buffer[i] \in Byte
<1>1. sent \in Seq(Shapes) /\ Len(sent) <= NumRequests /\ channel \in Seq(Byte)
      /\ buffer \in [1..InitSize -> Byte \cup {Junk}] /\ buffer_used \in 0..InitSize
      /\ got \in Seq(Seq(Byte)) /\ type \in Types
      /\ \A i \in 1..buffer_used : buffer[i] \in Byte
  BY DEF TypeInv, TypeOK, Held
<1>2. InitSize \in Nat /\ NumRequests \in Nat
  BY ConstantTypes
<1>3. buffer_used \in Nat /\ buffer_used <= InitSize
  BY <1>1, <1>2
<1>4. Len(sent) \in Nat /\ Len(channel) \in Nat /\ Len(got) \in Nat /\ DOMAIN channel = 1..Len(channel)
  BY <1>1, LenProperties
<1> QED BY <1>1, <1>3, <1>4

\* The end that was found first is one, and is in the buffer.
LEMMA EndInBuffer ==
  ASSUME TypeInv, NEW f, Ends(f) # {}
  PROVE  /\ Min(Ends(f)) \in Ends(f)
         /\ \A x \in Ends(f) : Min(Ends(f)) <= x
         /\ Min(Ends(f)) \in Offset(f) + 1 .. buffer_used
<1>1. Ends(f) \subseteq Offset(f) + 1 .. buffer_used
  BY DEF Ends
<1>2. Offset(f) \in Nat
  BY ConstantTypes DEF Offset
<1>3. buffer_used \in Nat
  BY Parts
<1>4. Ends(f) \subseteq Nat
  BY <1>1, <1>2, <1>3
<1> QED BY <1>1, <1>4, MinExists

\* The size found is that of bytes in the buffer.
LEMMA SizeWithin ==
  ASSUME TypeInv, NEW f, reqbuf_req_is_complete(f)
  PROVE  reqbuf_find_req_size(f) \in 1..buffer_used
<1>1. CASE f = "BIN"
  <2>1. BinSize \in Nat \ {0} /\ buffer_used \in Nat
    BY Parts, ConstantTypes
  <2> QED BY <1>1, <2>1 DEF reqbuf_req_is_complete, reqbuf_find_req_size
<1>2. CASE f # "BIN"
  <2>1. Min(Ends(f)) \in Offset(f) + 1 .. buffer_used
    BY <1>2, EndInBuffer DEF reqbuf_req_is_complete
  <2>2. Offset(f) \in Nat /\ buffer_used \in Nat
    BY Parts, ConstantTypes DEF Offset
  <2> QED BY <1>2, <2>1, <2>2 DEF reqbuf_find_req_size
<1> QED BY <1>1, <1>2

\* The minimum of two numbers.
LEMMA MinOfTwo ==
  ASSUME NEW a \in Nat, NEW b \in Nat
  PROVE  Min({a, b}) = IF a <= b THEN a ELSE b
<1>1. Min({a, b}) \in {a, b} /\ \A x \in {a, b} : Min({a, b}) <= x
  BY MinExists
<1> QED BY <1>1

\* What is delivered fits into the buffer.
LEMMA DeliversWithin ==
  ASSUME TypeInv, NEW n \in Nat, NEW taken \in Nat, Delivers(n, taken)
  PROVE  n <= taken /\ buffer_used + n <= InitSize
<1>1. FreeBytes \in Nat /\ buffer_used + FreeBytes = InitSize /\ buffer_used \in Nat /\ InitSize \in Nat
  <2>1. InitSize \in Nat /\ buffer_used \in Nat /\ buffer_used <= InitSize
    BY Parts, ConstantTypes
  <2> QED BY <2>1 DEF FreeBytes
<1>2. CASE n = taken /\ n <= FreeBytes
  BY <1>1, <1>2
<1>3. CASE n = Min({taken, FreeBytes})
  <2>1. n = IF taken <= FreeBytes THEN taken ELSE FreeBytes
    BY <1>1, <1>3, MinOfTwo
  <2> QED BY <1>1, <2>1
<1> QED BY <1>2, <1>3 DEF Delivers

\* A step preserves the types.
LEMMA TypeStep == TypeInv /\ [Next]_vars => TypeInv'
<1> SUFFICES ASSUME TypeInv, [Next]_vars PROVE TypeInv'
  OBVIOUS
<1> DEFINE PartsHold ==
      /\ sent \in Seq(Shapes) /\ Len(sent) \in Nat /\ Len(sent) <= NumRequests
      /\ channel \in Seq(Byte) /\ Len(channel) \in Nat /\ DOMAIN channel = 1..Len(channel)
      /\ buffer \in [1..InitSize -> Byte \cup {Junk}]
      /\ buffer_used \in Nat /\ buffer_used <= InitSize
      /\ got \in Seq(Seq(Byte))
      /\ \A i \in 1..buffer_used : buffer[i] \in Byte
<1>p. PartsHold
  BY Parts
<1>c. NumRequests \in Nat \ {0} /\ InitSize \in Nat \ {0}
  BY ConstantTypes
<1>1. ASSUME NEW shape \in Shapes, Send(shape) PROVE TypeInv'
  <2>1. shape.size \in Nat \ {0}
    BY ShapeFacts DEF TypeInv, TypeOK
  <2>2. Len(sent) + 1 \in Numbers
    BY <1>1, <1>p, <1>c DEF Send, Numbers
  <2>3. Bytes(Len(sent) + 1, shape.size) \in Seq(Byte)
    <3>1. \A i \in 1..shape.size : [req |-> Len(sent) + 1, at |-> i] \in Byte
      BY <2>1, <2>2 DEF Byte
    <3> QED BY <2>1, <3>1, SeqDef DEF Bytes
  <2>4. channel' \in Seq(Byte)
    BY <1>1, <1>p, <2>3, ConcatProperties DEF Send
  <2>5. sent' \in Seq(Shapes) /\ Len(sent') <= NumRequests
    <3>1. sent' = Append(sent, shape)
      BY <1>1 DEF Send
    <3>2. sent' \in Seq(Shapes) /\ Len(sent') = Len(sent) + 1
      BY <1>p, <3>1, AppendProperties
    <3> QED BY <1>p, <1>c, <2>2, <3>2 DEF Numbers
  <2>6. Shapes' = Shapes
    BY <1>1 DEF Send, Shapes
  <2>7. Held'
    BY <1>1, <1>p DEF Send, Held, Byte
  <2> QED BY <1>1, <2>4, <2>5, <2>6, <2>7 DEF Send, TypeInv, TypeOK
<1>a. ASSUME UNCHANGED <<type, sent, transport>> PROVE Shapes' = Shapes
  BY <1>a DEF Shapes
<1>2. CASE reqbuf_create
  BY <1>2, <1>a DEF reqbuf_create, Goto, peer, TypeInv, TypeOK, Held
<1>3. CASE reqbuf_destroy
  <2>1. buffer_used' = 0 /\ UNCHANGED <<type, sent, transport, channel, buffer, result, got>>
        /\ buffer_ptr' = "freed" /\ pc' = "destroyed"
    BY <1>3 DEF reqbuf_destroy, Goto, peer
  <2>2. buffer_used' \in 0..InitSize /\ Held'
    BY <2>1, <1>c DEF Held
  <2> QED BY <2>1, <2>2, <1>a DEF TypeInv, TypeOK
<1>4. CASE reqbuf_read
  BY <1>4, <1>a DEF reqbuf_read, Goto, peer, TypeInv, TypeOK, Held
<1>5. CASE ReadFails
  <2>1. result' \in {"no memory", "invalid stype"} /\ pc' = "idle" /\ Idle
    BY <1>5 DEF ReadFails, Returns, Goto
  <2> QED BY <2>1, <1>a DEF Idle, peer, TypeInv, TypeOK, Held
<1>6. CASE NeedsMore
  BY <1>6, <1>a DEF NeedsMore, Goto, Idle, peer, TypeInv, TypeOK, Held
<1>7. CASE Takes
  <2>1. PICK f \in Forms \ {"invalid"} :
          /\ reqbuf_req_is_complete(f)
          /\ LET size  == reqbuf_find_req_size(f)
                 bytes == [i \in 1..size |-> buffer[i]] IN
               \/ /\ Accepts(bytes)
                  /\ Returns("loop", "success")
                  /\ got' = Append(got, bytes)
                  /\ Shifts(size)
                  /\ buffer_used' = buffer_used - size
                  /\ UNCHANGED <<type, peer, channel, buffer_ptr>>
               \/ /\ Returns("loop", "no memory")
                  /\ Idle
               \/ /\ Refuses(bytes)
                  /\ Returns("loop", "refused")
                  /\ Idle
    BY <1>7 DEF Takes
  <2> DEFINE size == reqbuf_find_req_size(f)
             bytes == [i \in 1..size |-> buffer[i]]
  <2>2. size \in 1..buffer_used /\ size \in Nat
    <3>1. size \in 1..buffer_used
      BY <2>1, SizeWithin
    <3> QED BY <1>p, <3>1
  <2> HIDE DEF size
  <2>3. CASE /\ Returns("loop", "success") /\ got' = Append(got, bytes) /\ Shifts(size)
             /\ buffer_used' = buffer_used - size
             /\ UNCHANGED <<type, peer, channel, buffer_ptr>>
    <3>1. bytes \in Seq(Byte)
      <4>1. \A i \in 1..size : buffer[i] \in Byte
        BY <2>2, <1>p
      <4> QED BY <2>2, <4>1, SeqDef
    <3>2. got' \in Seq(Seq(Byte))
      BY <2>3, <3>1, <1>p, AppendProperties
    <3>3. buffer_used' \in 0..InitSize /\ buffer_used \in 0..InitSize
      BY <2>2, <2>3, <1>p, <1>c
    <3>4. buffer' \in [1..InitSize -> Byte \cup {Junk}]
      <4>1. \A i \in 1..InitSize : i + size <= buffer_used => i + size \in 1..InitSize
        BY <2>2, <3>3, <1>p, <1>c
      <4>2. \A i \in 1..InitSize :
              (IF i + size <= buffer_used THEN buffer[i + size] ELSE buffer[i]) \in Byte \cup {Junk}
        BY <4>1, <1>p
      <4> QED BY <4>2, <2>3 DEF Shifts
    <3>5. Held'
      <4> SUFFICES ASSUME NEW i \in 1..buffer_used' PROVE buffer'[i] \in Byte'
        BY DEF Held
      <4>1. i \in 1..InitSize /\ i + size <= buffer_used /\ i + size \in 1..buffer_used
        BY <2>2, <2>3, <1>p, <1>c
      <4>2. buffer'[i] = buffer[i + size]
        BY <2>3, <4>1 DEF Shifts
      <4> QED BY <4>1, <4>2, <1>p DEF Byte
    <3> QED BY <2>3, <3>2, <3>3, <3>4, <3>5, <1>a DEF Returns, Goto, peer, TypeInv, TypeOK
  <2>4. CASE result' \in {"no memory", "refused"} /\ pc' = "idle" /\ Idle
    BY <2>4, <1>a DEF Idle, peer, TypeInv, TypeOK, Held
  <2> QED BY <2>1, <2>3, <2>4 DEF Returns, Goto, size
<1>8. CASE Grows
  <2>1. CASE Goto("more", "receive") /\ UNCHANGED result /\ Idle
    BY <2>1, <1>a DEF Goto, Idle, peer, TypeInv, TypeOK, Held
  <2>2. CASE Returns("more", "no memory") /\ buffer_ptr' = "null"
             /\ UNCHANGED <<type, peer, channel, buffer, buffer_used, got>>
    BY <2>2, <1>a DEF Returns, Goto, peer, TypeInv, TypeOK, Held
  <2> QED BY <1>8, <2>1, <2>2 DEF Grows
<1>9. CASE ReceiveFails
  BY <1>9, <1>a DEF ReceiveFails, Returns, Goto, Idle, peer, TypeInv, TypeOK, Held
<1>12. CASE ReceiveDies
  BY <1>12, <1>a DEF ReceiveDies, Goto, Idle, peer, TypeInv, TypeOK, Held
<1>10. ASSUME NEW n \in DOMAIN channel \cup {0}, Receives(n) PROVE TypeInv'
  <2>1. PICK taken \in DOMAIN channel \cup {0} :
          Delivers(n, taken) /\ channel' = SubSeq(channel, taken + 1, Len(channel))
    BY <1>10 DEF Receives
  <2>2. n \in Nat /\ taken \in Nat /\ taken <= Len(channel) /\ Len(channel) \in Nat
    BY <1>p
  <2>3. n <= taken /\ buffer_used + n <= InitSize
    BY <2>1, <2>2, DeliversWithin
  <2>4. channel' \in Seq(Byte)
    <3>1. \A i \in taken + 1 .. Len(channel) : channel[i] \in Byte
      BY <2>2, <1>p
    <3> QED BY <2>1, <2>2, <3>1, SubSeqProperties
  <2>5. \A i \in buffer_used + 1 .. buffer_used + n : channel[i - buffer_used] \in Byte
    BY <2>2, <2>3, <1>p
  <2>6. buffer' \in [1..InitSize -> Byte \cup {Junk}]
    BY <1>10, <2>5, <1>p DEF Receives, Appends
  <2>7. buffer_used' \in 0..InitSize /\ buffer_used \in Nat
    BY <1>10, <2>2, <2>3, <1>p, <1>c DEF Receives
  <2>8. Held'
    <3> SUFFICES ASSUME NEW i \in 1..buffer_used' PROVE buffer'[i] \in Byte'
      BY DEF Held
    <3>1. i \in 1..InitSize /\ i \in Nat
      BY <2>7, <1>c
    <3>2. CASE i \in buffer_used + 1 .. buffer_used + n
      BY <1>10, <2>5, <3>1, <3>2 DEF Receives, Appends, Byte
    <3>3. CASE i \notin buffer_used + 1 .. buffer_used + n
      <4>1. i \in 1..buffer_used
        BY <1>10, <2>2, <2>7, <3>1, <3>3 DEF Receives
      <4> QED BY <1>10, <3>1, <3>3, <4>1, <1>p DEF Receives, Appends, Byte
    <3> QED BY <3>2, <3>3
  <2> QED BY <1>10, <2>4, <2>6, <2>7, <2>8, <1>a DEF Receives, Goto, peer, TypeInv, TypeOK
<1>11. CASE UNCHANGED vars
  BY <1>11, <1>a DEF vars, peer, TypeInv, TypeOK, Held, Byte
<1> QED BY <1>1, <1>2, <1>3, <1>4, <1>5, <1>6, <1>7, <1>8, <1>9, <1>10, <1>11, <1>12 DEF Next

\* The initial state has them.
LEMMA InitTypes == Init => TypeInv
<1> SUFFICES ASSUME Init PROVE TypeInv
  OBVIOUS
<1>1. sent \in Seq(Shapes) /\ Len(sent) <= NumRequests /\ channel \in Seq(Byte) /\ got \in Seq(Seq(Byte))
  BY ConstantTypes DEF Init
<1>2. buffer \in [1..InitSize -> Byte \cup {Junk}] /\ buffer_used \in 0..InitSize
  BY ConstantTypes DEF Init
<1>3. Held
  BY DEF Init, Held
<1> QED BY <1>1, <1>2, <1>3 DEF Init, TypeInv, TypeOK

\* Hence they hold always.
LEMMA TypeInvHolds == Spec => []TypeInv
BY InitTypes, TypeStep, PTL DEF Spec

\* The type invariant, with the bound that keeps every chunk and every shift
\* inside the buffer.
THEOREM TypeCorrect == Spec => []TypeOK
<1>1. TypeInv => TypeOK
  BY DEF TypeInv
<1> QED BY <1>1, TypeInvHolds, PTL
-----------------------------------------------------------------------------
(***************************************************************************)
(* Order.                                                                  *)
(***************************************************************************)
\* Until the buffer is destroyed, the unread bytes are a stream.
StreamInv == pc # "destroyed" => IsStream(Unread, sent, Len(got))

\* Datagrams are received whole, into an empty buffer.
Datagrams ==
  transport = "datagram" /\ pc # "destroyed" =>
    /\ \A n \in DOMAIN sent : sent[n].size <= InitSize
    /\ pc \in {"more", "receive"} => buffer_used = 0
    /\ buffer_used > 0 => LastByte(buffer[buffer_used])

OrderInv == StreamInv /\ Datagrams /\ InOrder

\* A part of a buffer followed by a sequence.
LEMMA Joined ==
  ASSUME NEW b, NEW n \in Nat, \A i \in 1..n : b[i] \in AnyByte, NEW c \in Seq(AnyByte)
  PROVE  /\ SubSeq(b, 1, n) \o c \in Seq(AnyByte)
         /\ Len(SubSeq(b, 1, n) \o c) = n + Len(c)
         /\ \A i \in 1..n : (SubSeq(b, 1, n) \o c)[i] = b[i]
         /\ \A i \in 1..Len(c) : (SubSeq(b, 1, n) \o c)[n + i] = c[i]
<1> DEFINE h == SubSeq(b, 1, n)
<1>1. /\ h \in Seq(AnyByte)
      /\ Len(h) = IF 1 <= n THEN n - 1 + 1 ELSE 0
      /\ \A i \in 1 .. n - 1 + 1 : h[i] = b[1 + i - 1]
  BY SubSeqProperties
<1> HIDE DEF h
<1>2. Len(h) = n /\ \A i \in 1..n : h[i] = b[i]
  BY <1>1
<1>3. /\ h \o c \in Seq(AnyByte)
      /\ Len(h \o c) = Len(h) + Len(c)
      /\ \A i \in 1 .. Len(h) + Len(c) : (h \o c)[i] = IF i <= Len(h) THEN h[i] ELSE c[i - Len(h)]
  BY <1>1, ConcatProperties
<1>4. Len(c) \in Nat
  BY LenProperties
<1>5. \A i \in 1..n : (h \o c)[i] = b[i]
  <2> SUFFICES ASSUME NEW i \in 1..n PROVE (h \o c)[i] = b[i]
    OBVIOUS
  <2>1. i \in 1 .. Len(h) + Len(c) /\ i <= Len(h)
    BY <1>2, <1>4
  <2> QED BY <1>2, <1>3, <2>1
<1>6. \A i \in 1..Len(c) : (h \o c)[n + i] = c[i]
  <2> SUFFICES ASSUME NEW i \in 1..Len(c) PROVE (h \o c)[n + i] = c[i]
    OBVIOUS
  <2>1. n + i \in 1 .. Len(h) + Len(c) /\ ~(n + i <= Len(h)) /\ (n + i) - Len(h) = i
    BY <1>2, <1>4
  <2> QED BY <1>3, <2>1
<1> QED BY <1>2, <1>3, <1>5, <1>6 DEF h

\* Byte by byte, what is unread.
UnreadFacts ==
  /\ Unread \in Seq(AnyByte)
  /\ Len(Unread) = buffer_used + Len(channel)
  /\ \A i \in 1..buffer_used : Unread[i] = buffer[i]
  /\ \A i \in 1..Len(channel) : Unread[buffer_used + i] = channel[i]

\* It is so in every state with the right types,
LEMMA UnreadIs == TypeInv => UnreadFacts
<1> SUFFICES ASSUME TypeInv PROVE UnreadFacts
  OBVIOUS
<1>1. Byte \subseteq AnyByte
  BY DEF Byte, AnyByte, Numbers
<1>2. \A i \in 1..buffer_used : buffer[i] \in AnyByte
  BY <1>1, Parts
<1>3. channel \in Seq(AnyByte)
  BY <1>1, Parts, SeqMonotonic
<1>4. buffer_used \in Nat
  BY Parts
<1> QED BY <1>2, <1>3, <1>4, Joined DEF Unread, UnreadFacts

\* and in the next one.
LEMMA UnreadIsNext == TypeInv' => UnreadFacts'
BY UnreadIs, PTL

\* What is known of a request sent.
LEMMA SentFacts ==
  ASSUME TypeInv, NEW n \in 1..Len(sent)
  PROVE  /\ sent[n].size \in Nat \ {0}
         /\ type = "text" => sent[n].stype = "TEXT"
         /\ type = "binary" /\ Stypes \subseteq {"BIN"} =>
              sent[n].stype = "BIN" /\ sent[n].size = BinSize
<1>1. sent[n] \in Shapes /\ type \in Types
  BY Parts, ElementOfSeq
<1> QED BY <1>1, ShapeFacts

\* A buffer that is not empty begins with the next request, and takes it for
\* what it is, or for nothing.
LEMMA NextRequest ==
  ASSUME TypeInv, Stypes \subseteq {"BIN"}, IsStream(Unread, sent, Len(got)), buffer_used > 0
  PROVE  /\ buffer[1] = [req |-> Len(got) + 1, at |-> 1]
         /\ Len(got) + 1 \in 1..Len(sent)
         /\ type = "text" => Forms = {"text"}
         /\ type = "binary" => Forms \ {"invalid"} = {"BIN"}
         /\ Len(Unread) \in Nat /\ Len(Unread) > 0 /\ EndsIn(Unread[Len(Unread)], sent)
<1>1. buffer_used \in Nat /\ Len(channel) \in Nat /\ Len(Unread) = buffer_used + Len(channel)
  BY Parts, UnreadIs DEF UnreadFacts
<1>2. Unread[1] = buffer[1] /\ Len(Unread) > 0 /\ Len(Unread) \in Nat
  BY <1>1, UnreadIs DEF UnreadFacts
<1>3. buffer[1] = [req |-> Len(got) + 1, at |-> 1]
  BY <1>2 DEF IsStream, Begins
<1>4. Len(got) + 1 \in 1..Len(sent)
  <2>1. Unread[1].req \in 1..Len(sent)
    BY <1>2 DEF IsStream, Known
  <2> QED BY <1>2, <1>3, <2>1
<1>5. type = "binary" => Forms \ {"invalid"} = {"BIN"}
  <2> SUFFICES ASSUME type = "binary" PROVE Forms \ {"invalid"} = {"BIN"}
    OBVIOUS
  <2>1. sent[buffer[1].req].stype = "BIN" /\ buffer[1].at = 1
    BY <1>3, <1>4, SentFacts
  <2>2. StypesRead \in {{"BIN"}, {"BIN", "invalid"}}
    BY <2>1 DEF StypesRead
  <2> QED BY <2>2 DEF Forms
<1>6. EndsIn(Unread[Len(Unread)], sent)
  BY <1>2 DEF IsStream, Finishes
<1> QED BY <1>2, <1>3, <1>4, <1>5, <1>6 DEF Forms

\* The end characters in a text buffer are the ends of its requests.
LEMMA EndsAreEnds ==
  ASSUME TypeInv, type = "text", IsStream(Unread, sent, Len(got))
  PROVE  Ends("text") = { i \in 1..buffer_used : EndsIn(Unread[i], sent) }
<1>1. \A i \in 1..buffer_used : EndsText(buffer[i]) <=> EndsIn(Unread[i], sent)
  <2> SUFFICES ASSUME NEW i \in 1..buffer_used
               PROVE  EndsText(buffer[i]) <=> EndsIn(Unread[i], sent)
    OBVIOUS
  <2>1. buffer[i] \in Byte /\ Unread[i] = buffer[i] /\ i \in 1..Len(Unread)
    BY Parts, UnreadIs DEF UnreadFacts
  <2>2. buffer[i] # Junk
    BY <2>1, ConstantTypes
  <2>3. sent[buffer[i].req].stype = "TEXT"
    <3>1. buffer[i].req \in 1..Len(sent)
      BY <2>1 DEF IsStream, Known
    <3> QED BY <3>1, SentFacts
  <2> QED BY <2>1, <2>2, <2>3 DEF EndsText, LastByte, EndsIn
<1>2. buffer_used \in Nat
  BY Parts
<1> QED BY <1>1, <1>2 DEF Ends, Offset

\* The bytes found complete are the next request, all of it and nothing else.
LEMMA FirstInBuffer ==
  ASSUME TypeInv, Stypes \subseteq {"BIN"}, IsStream(Unread, sent, Len(got)), buffer_used > 0,
         NEW f \in Forms \ {"invalid"}, reqbuf_req_is_complete(f),
         NEW size, size = reqbuf_find_req_size(f)
  PROVE  /\ size \in 1..buffer_used
         /\ sent[Len(got) + 1].size = size
         /\ \A i \in 1..size : buffer[i] = [req |-> Len(got) + 1, at |-> i]
         /\ EndsIn(Unread[size], sent)
<1>1. size \in 1..buffer_used
  BY SizeWithin
<1>2. buffer_used \in Nat /\ Len(channel) \in Nat /\ Len(got) \in Nat /\ Len(sent) \in Nat
      /\ Unread \in Seq(AnyByte)
      /\ Len(Unread) = buffer_used + Len(channel)
      /\ \A i \in 1..buffer_used : Unread[i] = buffer[i]
  BY Parts, UnreadIs DEF UnreadFacts
<1>3. \E m \in 1..size : /\ EndsIn(Unread[m], sent) /\ sent[Len(got) + 1].size = m
                         /\ \A i \in 1..m : Unread[i] = [req |-> Len(got) + 1, at |-> i]
                         /\ m = size
  <2>1. CASE type = "text"
    <3>1. f = "text" /\ size \in Ends("text") /\ \A x \in Ends("text") : size <= x
      <4>1. f = "text"
        BY <2>1, NextRequest
      <4>2. size = Min(Ends(f)) - Offset(f) /\ Ends(f) # {} /\ Offset(f) = 0
        BY <4>1 DEF reqbuf_find_req_size, reqbuf_req_is_complete, Offset
      <4>3. Min(Ends(f)) \in Offset(f) + 1 .. buffer_used
        BY <4>2, EndInBuffer
      <4>4. size = Min(Ends(f))
        BY <4>2, <4>3, <1>2
      <4> QED BY <4>1, <4>2, <4>4, EndInBuffer
    <3>2. EndsIn(Unread[size], sent)
      BY <2>1, <3>1, EndsAreEnds
    <3>3. size \in 1..Len(Unread)
      BY <1>1, <1>2
    <3>4. PICK m \in 1..size : /\ EndsIn(Unread[m], sent)
                               /\ sent[Len(got) + 1].size = m
                               /\ \A i \in 1..m : Unread[i] = [req |-> Len(got) + 1, at |-> i]
      BY <1>2, <3>2, <3>3, FirstEnd, SMTT(30)
    <3>5. m \in 1..buffer_used
      BY <1>1, <1>2
    <3>6. m \in Ends("text")
      BY <2>1, <3>4, <3>5, EndsAreEnds
    <3>7. m = size
      BY <3>1, <3>6, <1>1, <1>2
    <3> QED BY <3>4, <3>7
  <2>2. CASE type = "binary"
    <3>1. f = "BIN" /\ size = BinSize
      <4>1. f = "BIN"
        BY <2>2, NextRequest
      <4> QED BY <4>1 DEF reqbuf_find_req_size
    <3>2. Len(Unread) \in 1..Len(Unread) /\ EndsIn(Unread[Len(Unread)], sent)
      BY NextRequest
    <3>3. PICK m \in 1..Len(Unread) :
                 /\ EndsIn(Unread[m], sent)
                 /\ sent[Len(got) + 1].size = m
                 /\ \A i \in 1..m : Unread[i] = [req |-> Len(got) + 1, at |-> i]
      BY <1>2, <3>2, FirstEnd, SMTT(30)
    <3>4. sent[Len(got) + 1].size = BinSize
      BY <2>2, NextRequest, SentFacts
    <3>5. m = size /\ m \in 1..size
      BY <3>1, <3>3, <3>4, <1>1
    <3> QED BY <3>3, <3>5
  <2>3. type \in {"text", "binary"}
    BY Parts, ReqbufAssumption
  <2> QED BY <2>1, <2>2, <2>3
<1>4. \A i \in 1..size : i \in 1..buffer_used
  BY <1>1, <1>2
<1> QED BY <1>1, <1>2, <1>3, <1>4

\* The lengths are numbers,
Lengths == buffer_used \in Nat /\ Len(channel) \in Nat /\ Len(sent) \in Nat /\ Len(got) \in Nat

\* in every state,
LEMMA LengthsHold == TypeInv => Lengths
BY Parts DEF Lengths

\* and in the next one.
LEMMA LengthsNext == TypeInv' => Lengths'
BY LengthsHold, PTL

\* Unread bytes that agree place by place are the same.
LEMMA SameUnread ==
  ASSUME TypeInv, TypeInv', UNCHANGED <<sent, got>>,
         Len(Unread') = Len(Unread), \A i \in 1..Len(Unread) : Unread'[i] = Unread[i]
  PROVE  Unread' = Unread
<1>1. Unread \in Seq(AnyByte) /\ Unread' \in Seq(AnyByte)
  BY UnreadIs, UnreadIsNext DEF UnreadFacts
<1> QED BY <1>1, SeqEqual

\* A step that moves no byte preserves the invariant.
LEMMA OrderKept ==
  ASSUME OrderInv, UNCHANGED <<sent, got, buffer, buffer_used, channel, transport>>,
         pc' \in {"more", "receive"} => pc \in {"more", "receive"} \/ transport # "datagram" \/ buffer_used = 0,
         pc' # "destroyed" => pc # "destroyed"
  PROVE  OrderInv'
<1>1. StreamInv'
  <2>1. Unread' = Unread
    BY DEF Unread
  <2> QED BY <2>1 DEF OrderInv, StreamInv
<1>2. Datagrams'
  BY DEF OrderInv, Datagrams, LastByte
<1>3. InOrder'
  BY DEF OrderInv, InOrder, Request, Bytes
<1> QED BY <1>1, <1>2, <1>3 DEF OrderInv

\* Sending preserves it.
LEMMA OrderSend ==
  ASSUME TypeInv, TypeInv', OrderInv, NEW shape \in Shapes, Send(shape)
  PROVE  OrderInv'
<1>1. shape.size \in Nat \ {0}
  BY ShapeFacts, Parts
<1>2. /\ Lengths /\ Len(sent') = Len(sent) + 1 /\ sent'[Len(sent) + 1] = shape
      /\ \A i \in 1..Len(sent) : sent'[i] = sent[i]
  BY Parts, AppendProperties, LengthsHold DEF Send
<1>k. UNCHANGED <<got, buffer, buffer_used, pc, transport>>
  BY DEF Send
<1>3. /\ Len(channel') = Len(channel) + shape.size
      /\ \A i \in 1..Len(channel) : channel'[i] = channel[i]
      /\ \A i \in 1..shape.size : channel'[Len(channel) + i] = [req |-> Len(sent) + 1, at |-> i]
  <2> DEFINE bs == Bytes(Len(sent) + 1, shape.size)
  <2>1. bs \in Seq(AnyByte) /\ Len(bs) = shape.size
        /\ \A i \in 1..shape.size : bs[i] = [req |-> Len(sent) + 1, at |-> i]
    <3>1. \A i \in 1..shape.size : [req |-> Len(sent) + 1, at |-> i] \in AnyByte
      BY <1>1, <1>2 DEF AnyByte, Lengths
    <3>2. bs \in [1..shape.size -> AnyByte]
      BY <3>1 DEF Bytes
    <3>3. bs \in Seq(AnyByte)
      BY <1>1, <3>2, SeqDef
    <3>4. Len(bs) = shape.size
      BY <1>1, <3>2, <3>3, LenProperties
    <3> QED BY <3>3, <3>4 DEF Bytes
  <2>2. channel \in Seq(AnyByte)
    <3>1. Byte \subseteq AnyByte
      BY DEF Byte, AnyByte, Numbers
    <3> QED BY <3>1, Parts, SeqMonotonic
  <2>3. channel' = channel \o bs
    BY DEF Send
  <2> HIDE DEF bs
  <2>4. \A i \in 1 .. Len(channel) + Len(bs) :
          channel'[i] = IF i <= Len(channel) THEN channel[i] ELSE bs[i - Len(channel)]
    BY <2>1, <2>2, <2>3, ConcatProperties
  <2>5. Len(channel') = Len(channel) + shape.size
    BY <2>1, <2>2, <2>3, ConcatProperties
  <2>6. \A i \in 1..Len(channel) : i \in 1 .. Len(channel) + Len(bs) /\ i <= Len(channel)
    BY <1>1, <1>2, <2>1 DEF Lengths
  <2>7. \A i \in 1..shape.size : /\ Len(channel) + i \in 1 .. Len(channel) + Len(bs)
                                 /\ ~(Len(channel) + i <= Len(channel))
                                 /\ (Len(channel) + i) - Len(channel) = i
    BY <1>1, <1>2, <2>1 DEF Lengths
  <2>8. \A i \in 1..Len(channel) : channel'[i] = channel[i]
    BY <2>4, <2>6
  <2>9. \A i \in 1..shape.size : channel'[Len(channel) + i] = [req |-> Len(sent) + 1, at |-> i]
    BY <2>1, <2>4, <2>7
  <2> QED BY <2>5, <2>8, <2>9
<1>4. StreamInv'
  <2> SUFFICES ASSUME pc # "destroyed" PROVE IsStream(Unread', sent', Len(got))
    BY <1>k DEF StreamInv
  <2>1. UnreadFacts /\ UnreadFacts'
    BY UnreadIs, UnreadIsNext
  <2>2. Unread \in Seq(AnyByte) /\ Unread' \in Seq(AnyByte) /\ Len(Unread') = Len(Unread) + shape.size
    BY <1>1, <1>2, <1>3, <1>k, <2>1 DEF UnreadFacts, Lengths
  <2>3. \A i \in 1..Len(Unread) : Unread'[i] = Unread[i]
    <3> SUFFICES ASSUME NEW i \in 1..Len(Unread) PROVE Unread'[i] = Unread[i]
      OBVIOUS
    <3>1. CASE i \in 1..buffer_used
      BY <3>1, <1>k, <2>1 DEF UnreadFacts
    <3>2. CASE i \notin 1..buffer_used
      <4> DEFINE j == i - buffer_used
      <4>1. j \in 1..Len(channel) /\ j \in 1..Len(channel') /\ buffer_used + j = i
        BY <3>2, <1>1, <1>2, <1>3, <2>1 DEF UnreadFacts, Lengths
      <4> HIDE DEF j
      <4>2. Unread[buffer_used + j] = channel[j] /\ Unread'[buffer_used + j] = channel'[j]
        BY <4>1, <2>1, <1>k DEF UnreadFacts
      <4> QED BY <4>1, <4>2, <1>3
    <3> QED BY <3>1, <3>2
  <2>4. \A i \in 1..shape.size : Unread'[Len(Unread) + i] = [req |-> Len(sent) + 1, at |-> i]
    <3> SUFFICES ASSUME NEW i \in 1..shape.size
                 PROVE  Unread'[Len(Unread) + i] = [req |-> Len(sent) + 1, at |-> i]
      OBVIOUS
    <3> DEFINE j == Len(channel) + i
    <3>1. j \in 1..Len(channel') /\ buffer_used + j = Len(Unread) + i
      BY <1>1, <1>2, <1>3, <2>1, SMTT(30) DEF UnreadFacts, Lengths
    <3>2. channel'[j] = [req |-> Len(sent) + 1, at |-> i]
      BY <1>3
    <3> HIDE DEF j
    <3>3. Unread'[buffer_used + j] = channel'[j]
      BY <3>1, <2>1, <1>k DEF UnreadFacts
    <3> QED BY <3>1, <3>2, <3>3
  <2>5. IsStream(Unread, sent, Len(got)) /\ Len(got) \in Nat /\ Len(sent) \in Nat
    BY <1>2 DEF OrderInv, StreamInv, Lengths
  <2>6. sent'[Len(sent) + 1].size = shape.size
    BY <1>2
  <2> QED BY <1>1, <1>2, <2>2, <2>3, <2>4, <2>5, <2>6, StreamWithOneMore, ZenonT(60)
<1>5. Datagrams'
  <2> SUFFICES ASSUME transport = "datagram", pc # "destroyed" PROVE Datagrams'
    BY <1>k DEF Datagrams
  <2>1. DOMAIN sent = 1..Len(sent) /\ DOMAIN sent' = 1..Len(sent')
    BY Parts, AppendProperties, LenProperties DEF Send
  <2>2. shape.size <= InitSize /\ \A n \in DOMAIN sent : sent[n].size <= InitSize
    BY DEF Send, OrderInv, Datagrams
  <2>3. \A n \in DOMAIN sent' : sent'[n].size <= InitSize
    <3> SUFFICES ASSUME NEW n \in DOMAIN sent' PROVE sent'[n].size <= InitSize
      OBVIOUS
    <3>1. n \in 1..Len(sent) \/ n = Len(sent) + 1
      BY <1>2, <2>1 DEF Lengths
    <3> QED BY <1>2, <2>1, <2>2, <3>1
  <2>4. buffer_used > 0 => LastByte(buffer[buffer_used])'
    <3> SUFFICES ASSUME buffer_used > 0 PROVE LastByte(buffer[buffer_used])'
      OBVIOUS
    <3>1. LastByte(buffer[buffer_used])
      BY DEF OrderInv, Datagrams
    <3>2. buffer[buffer_used].req \in 1..Len(sent)
      <4>1. buffer_used \in 1..buffer_used /\ buffer_used \in 1..Len(Unread)
        BY <1>2, UnreadIs DEF Lengths, UnreadFacts
      <4>2. Unread[buffer_used].req \in 1..Len(sent)
        BY <4>1 DEF OrderInv, StreamInv, IsStream, Known
      <4> QED BY <4>1, <4>2, UnreadIs DEF UnreadFacts
    <3> QED BY <1>2, <1>k, <3>1, <3>2 DEF LastByte
  <2> QED BY <1>k, <2>3, <2>4 DEF OrderInv, Datagrams
<1>6. InOrder'
  <2>1. DOMAIN got = 1..Len(got) /\ Len(got) <= Len(sent) /\ \A i \in DOMAIN got : got[i] = Request(i)
    BY Parts, LenProperties DEF OrderInv, InOrder
  <2>2. \A i \in DOMAIN got : i \in 1..Len(sent)
    BY <1>2, <2>1 DEF Lengths
  <2>3. \A i \in DOMAIN got : got[i] = Request(i)'
    BY <1>2, <2>1, <2>2 DEF Request, Bytes
  <2> QED BY <1>2, <1>k, <2>1, <2>3 DEF InOrder, Lengths
<1> QED BY <1>4, <1>5, <1>6 DEF OrderInv

\* A datagram that is received is one request, and is not cut.
LEMMA OneDatagram ==
  ASSUME TypeInv, OrderInv, transport = "datagram", pc = "receive",
         NEW n \in Nat, NEW taken \in Nat, Delivers(n, taken)
  PROVE  n = taken /\ n \in 1..Len(channel) /\ LastByte(channel[n]) /\ buffer_used = 0
<1>1. buffer_used = 0 /\ Lengths
  BY LengthsHold DEF OrderInv, Datagrams
<1>2. channel # <<>> /\ taken = Min({ i \in DOMAIN channel : LastByte(channel[i]) })
      /\ n = Min({taken, FreeBytes})
  BY DEF Delivers
<1> DEFINE S == { i \in DOMAIN channel : LastByte(channel[i]) }
<1>3. /\ Unread \in Seq(AnyByte) /\ Len(Unread) = Len(channel)
      /\ \A i \in 1..Len(channel) : Unread[i] = channel[i]
  BY <1>1, UnreadIs DEF UnreadFacts, Lengths
<1>4. channel \in Seq(Byte) /\ DOMAIN channel = 1..Len(channel) /\ Len(channel) \in Nat
  BY Parts
<1>5. Len(channel) > 0
  BY <1>2, <1>4, EmptySeq
<1>6. IsStream(Unread, sent, Len(got))
  BY DEF OrderInv, StreamInv
<1>7. Len(channel) \in S
  <2>1. EndsIn(Unread[Len(Unread)], sent)
    BY <1>3, <1>5, <1>6 DEF IsStream, Finishes
  <2>2. Len(channel) \in 1..Len(channel)
    BY <1>4, <1>5
  <2> QED BY <1>3, <1>4, <2>1, <2>2 DEF EndsIn, LastByte
<1>8. taken \in S /\ \A x \in S : taken <= x
  <2>1. S \subseteq Nat /\ S # {} /\ taken = Min(S)
    BY <1>2, <1>4, <1>7
  <2> HIDE DEF S
  <2> QED BY <2>1, MinExists
<1>9. taken \in 1..Len(channel) /\ LastByte(channel[taken])
  BY <1>4, <1>8
<1>10. taken \in 1..Len(Unread) /\ EndsIn(Unread[taken], sent) /\ Len(got) \in Nat /\ Len(sent) \in Nat
  BY <1>1, <1>3, <1>9 DEF EndsIn, LastByte, Lengths
<1>11. PICK m \in 1..taken : /\ EndsIn(Unread[m], sent)
                             /\ sent[Len(got) + 1].size = m
                             /\ \A i \in 1..m : Unread[i] = [req |-> Len(got) + 1, at |-> i]
  BY <1>3, <1>6, <1>10, FirstEnd
<1>12. m \in 1..Len(channel) /\ m \in S
  BY <1>3, <1>4, <1>9, <1>11 DEF EndsIn, LastByte
<1>13. m = taken
  BY <1>8, <1>11, <1>12
<1>14. Len(got) + 1 \in DOMAIN sent
  <2>1. m \in 1..m /\ m \in 1..Len(Unread)
    BY <1>3, <1>12
  <2>2. Unread[m].req \in 1..Len(sent) /\ Unread[m] = [req |-> Len(got) + 1, at |-> m]
    BY <1>6, <1>11, <2>1 DEF IsStream, Known
  <2>3. DOMAIN sent = 1..Len(sent)
    BY Parts, LenProperties
  <2> QED BY <2>2, <2>3
<1>15. m <= InitSize
  BY <1>11, <1>14 DEF OrderInv, Datagrams
<1>16. FreeBytes = InitSize /\ InitSize \in Nat
  BY <1>1, ConstantTypes DEF FreeBytes
<1>17. n = taken
  BY <1>2, <1>13, <1>15, <1>16, MinOfTwo
<1> QED BY <1>1, <1>9, <1>17

\* Receiving preserves it: bytes move from the medium to the buffer.
LEMMA OrderReceive ==
  ASSUME TypeInv, TypeInv', OrderInv, NEW n \in DOMAIN channel \cup {0}, Receives(n)
  PROVE  OrderInv'
<1>1. PICK taken \in DOMAIN channel \cup {0} :
        Delivers(n, taken) /\ channel' = SubSeq(channel, taken + 1, Len(channel))
  BY DEF Receives
<1>2. /\ pc = "receive" /\ pc' = "loop" /\ Appends(n) /\ buffer_used' = buffer_used + n
      /\ UNCHANGED <<sent, got, transport>>
  BY DEF Receives, Goto, peer
<1>3. Lengths /\ n \in 0..Len(channel) /\ taken \in 0..Len(channel)
  <2>1. Lengths /\ DOMAIN channel = 1..Len(channel)
    BY Parts, LengthsHold
  <2> QED BY <2>1 DEF Lengths
<1>4. n = taken /\ (transport = "datagram" => n \in 1..Len(channel) /\ LastByte(channel[n]) /\ buffer_used = 0)
  <2>1. CASE transport = "datagram"
    <3>1. n \in Nat /\ taken \in Nat
      BY <1>3 DEF Lengths
    <3> QED BY <1>1, <1>2, <2>1, <3>1, OneDatagram
  <2>2. CASE transport # "datagram"
    BY <1>1, <2>2 DEF Delivers
  <2> QED BY <2>1, <2>2
<1>5. /\ Len(channel') = Len(channel) - n
      /\ \A i \in 1..Len(channel) - n : channel'[i] = channel[n + i]
  <2>1. \A i \in n + 1 .. Len(channel) : channel[i] \in Byte
    BY <1>3, Parts DEF Lengths
  <2>2. /\ Len(channel') = IF n + 1 <= Len(channel) THEN Len(channel) - (n + 1) + 1 ELSE 0
        /\ \A i \in 1 .. Len(channel) - (n + 1) + 1 : channel'[i] = channel[(n + 1) + i - 1]
    <3>1. n + 1 \in Int /\ Len(channel) \in Int
      BY <1>3 DEF Lengths
    <3> QED BY <1>1, <1>4, <2>1, <3>1, SubSeqProperties
  <2>3. Len(channel') = Len(channel) - n
    BY <1>3, <2>2 DEF Lengths
  <2>4. ASSUME NEW i \in 1..Len(channel) - n PROVE channel'[i] = channel[n + i]
    <3>1. i \in 1 .. Len(channel) - (n + 1) + 1 /\ (n + 1) + i - 1 = n + i
      BY <1>3 DEF Lengths
    <3> QED BY <2>2, <3>1
  <2> QED BY <2>3, <2>4
<1>6. buffer_used + n <= InitSize /\ InitSize \in Nat
  <2>1. buffer_used' <= InitSize
    <3>1. TypeOK'
      BY DEF TypeInv
    <3>2. buffer_used' \in 0..InitSize
      BY <3>1 DEF TypeOK
    <3> QED BY <3>2, ConstantTypes
  <2> QED BY <1>2, <2>1, ConstantTypes
<1>7. /\ \A i \in 1..buffer_used : buffer'[i] = buffer[i]
      /\ \A i \in 1..n : buffer'[buffer_used + i] = channel[i]
  <2>1. ASSUME NEW i \in 1..buffer_used PROVE buffer'[i] = buffer[i]
    <3>1. i \in 1..InitSize /\ i \notin buffer_used + 1 .. buffer_used + n
      BY <1>3, <1>6 DEF Lengths
    <3> QED BY <1>2, <3>1 DEF Appends
  <2>2. ASSUME NEW i \in 1..n PROVE buffer'[buffer_used + i] = channel[i]
    <3> DEFINE j == buffer_used + i
    <3>1. j \in 1..InitSize /\ j \in buffer_used + 1 .. buffer_used + n /\ j - buffer_used = i
      BY <1>3, <1>6 DEF Lengths
    <3> HIDE DEF j
    <3>2. buffer'[j] = channel[j - buffer_used]
      BY <1>2, <3>1 DEF Appends
    <3> QED BY <3>1, <3>2 DEF j
  <2> QED BY <2>1, <2>2
<1>8. Unread' = Unread
  <2>1. UnreadFacts /\ UnreadFacts'
    BY UnreadIs, UnreadIsNext
  <2>2. Len(Unread') = Len(Unread)
    BY <1>2, <1>3, <1>5, <2>1 DEF UnreadFacts, Lengths
  <2>3. ASSUME NEW i \in 1..Len(Unread) PROVE Unread'[i] = Unread[i]
    <3>1. CASE i \in 1..buffer_used
      <4>1. i \in 1..buffer_used'
        BY <1>2, <1>3, <3>1 DEF Lengths
      <4>2. Unread[i] = buffer[i] /\ Unread'[i] = buffer'[i]
        BY <2>1, <3>1, <4>1 DEF UnreadFacts
      <4> QED BY <1>7, <3>1, <4>2
    <3>2. CASE i \in buffer_used + 1 .. buffer_used + n
      <4> DEFINE j == i - buffer_used
      <4>1. j \in 1..n /\ j \in 1..Len(channel) /\ buffer_used + j = i /\ i \in 1..buffer_used'
        BY <1>2, <1>3, <3>2 DEF Lengths
      <4> HIDE DEF j
      <4>2. Unread[i] = channel[j]
        <5>1. Unread[buffer_used + j] = channel[j]
          BY <2>1, <4>1 DEF UnreadFacts
        <5> QED BY <4>1, <5>1
      <4>3. Unread'[i] = buffer'[i]
        BY <2>1, <4>1 DEF UnreadFacts
      <4>4. buffer'[buffer_used + j] = channel[j]
        BY <1>7, <4>1
      <4> QED BY <4>1, <4>2, <4>3, <4>4
    <3>3. CASE i > buffer_used + n
      <4> DEFINE j == i - buffer_used
                 k == i - buffer_used - n
      <4>0. i \in Nat /\ i <= buffer_used + Len(channel) /\ buffer_used \in Nat /\ n \in Nat
            /\ Len(channel) \in Nat /\ n <= Len(channel)
        BY <1>3, <2>1 DEF UnreadFacts, Lengths
      <4>1. j \in 1..Len(channel) /\ buffer_used + j = i /\ k \in 1..Len(channel) - n
            /\ n + k = j /\ (buffer_used + n) + k = i
        BY <4>0, <3>3
      <4>5. k \in 1..Len(channel') /\ buffer_used' + k = i
        BY <1>2, <1>5, <4>1
      <4> HIDE DEF j, k
      <4>2. Unread[buffer_used + j] = channel[j]
        BY <2>1, <4>1 DEF UnreadFacts
      <4>3. Unread'[buffer_used' + k] = channel'[k]
        BY <2>1, <4>5 DEF UnreadFacts
      <4>4. channel'[k] = channel[n + k]
        BY <1>5, <4>1
      <4> QED BY <4>1, <4>2, <4>3, <4>4, <4>5
    <3>4. i \in Nat /\ (i \in 1..buffer_used \/ i \in buffer_used + 1 .. buffer_used + n \/ i > buffer_used + n)
      BY <1>3, <2>1 DEF UnreadFacts, Lengths
    <3> QED BY <3>1, <3>2, <3>3, <3>4
  <2> QED BY <1>2, <2>2, <2>3, SameUnread
<1>9. StreamInv'
  BY <1>2, <1>8 DEF OrderInv, StreamInv
<1>10. Datagrams'
  <2> SUFFICES ASSUME transport = "datagram" PROVE Datagrams'
    BY <1>2 DEF Datagrams
  <2>1. buffer_used' = n /\ buffer'[n] = channel[n] /\ LastByte(channel[n])
    <3>1. n \in 1..n /\ buffer_used + n = n /\ buffer_used' = n
      BY <1>2, <1>3, <1>4 DEF Lengths
    <3>2. buffer'[buffer_used + n] = channel[n]
      BY <1>7, <3>1
    <3> QED BY <1>4, <3>1, <3>2
  <2>2. LastByte(buffer[buffer_used])'
    BY <1>2, <2>1 DEF LastByte
  <2> QED BY <1>2, <2>2 DEF OrderInv, Datagrams
<1>11. InOrder'
  BY <1>2 DEF OrderInv, InOrder, Request, Bytes
<1> QED BY <1>9, <1>10, <1>11 DEF OrderInv

\* Handing out a request preserves it.
LEMMA OrderTake ==
  ASSUME TypeInv, TypeInv', OrderInv, Stypes \subseteq {"BIN"}, pc = "loop", buffer_used > 0,
         NEW f \in Forms \ {"invalid"}, reqbuf_req_is_complete(f),
         NEW size, size = reqbuf_find_req_size(f),
         pc' = "idle", got' = Append(got, [i \in 1..size |-> buffer[i]]),
         Shifts(size), buffer_used' = buffer_used - size,
         UNCHANGED <<type, peer, channel, buffer_ptr>>
  PROVE  OrderInv'
<1>1. IsStream(Unread, sent, Len(got)) /\ Lengths
  BY LengthsHold DEF OrderInv, StreamInv
<1>2. /\ size \in 1..buffer_used
      /\ sent[Len(got) + 1].size = size
      /\ \A i \in 1..size : buffer[i] = [req |-> Len(got) + 1, at |-> i]
      /\ EndsIn(Unread[size], sent)
  BY <1>1, FirstInBuffer
<1>3. Len(got) + 1 \in 1..Len(sent)
  BY <1>1, NextRequest
<1>k. UNCHANGED <<sent, transport, channel>>
  BY DEF peer
<1>4. /\ Len(got') = Len(got) + 1 /\ got'[Len(got) + 1] = [i \in 1..size |-> buffer[i]]
      /\ \A i \in 1..Len(got) : got'[i] = got[i]
      /\ DOMAIN got = 1..Len(got) /\ DOMAIN got' = 1 .. Len(got) + 1
  <2>1. got \in Seq(Seq(Byte)) /\ got' \in Seq(Seq(Byte))
    BY DEF TypeInv, TypeOK, Byte
  <2>2. [i \in 1..size |-> buffer[i]] \in Seq(Byte)
    <3>a. \A i \in 1..buffer_used : buffer[i] \in Byte
      BY Parts
    <3>b. 1..size \subseteq 1..buffer_used
      BY <1>1, <1>2 DEF Lengths
    <3>1. \A i \in 1..size : buffer[i] \in Byte
      BY <3>a, <3>b, Zenon
    <3>2. size \in Nat
      BY <1>1, <1>2 DEF Lengths
    <3> QED BY <3>1, <3>2, SeqDef
  <2> QED BY <2>1, <2>2, AppendProperties, LenProperties
<1>5. InOrder'
  <2>1. [i \in 1..size |-> buffer[i]] = Request(Len(got) + 1)
    BY <1>2 DEF Request, Bytes
  <2>2. \A i \in 1..Len(got) : got[i] = Request(i)
    BY <1>4 DEF OrderInv, InOrder
  <2>3. Len(got') <= Len(sent')
    BY <1>1, <1>3, <1>4, <1>k DEF Lengths
  <2>4. \A i \in DOMAIN got' : i \in 1..Len(got) \/ i = Len(got) + 1
    BY <1>1, <1>4 DEF Lengths
  <2>5. \A i : Request(i)' = Request(i)
    BY <1>k DEF Request, Bytes
  <2>6. \A i \in DOMAIN got' : got'[i] = Request(i)'
    BY <1>4, <2>1, <2>2, <2>4, <2>5
  <2> QED BY <2>3, <2>6 DEF InOrder
<1>6. InitSize \in Nat /\ buffer_used <= InitSize
  BY Parts, ConstantTypes
<1>7. \A i \in 1 .. buffer_used - size : buffer'[i] = buffer[i + size]
  <2> SUFFICES ASSUME NEW i \in 1 .. buffer_used - size PROVE buffer'[i] = buffer[i + size]
    OBVIOUS
  <2>1. i \in 1..InitSize /\ i + size <= buffer_used
    BY <1>1, <1>2, <1>6 DEF Lengths
  <2> QED BY <2>1 DEF Shifts
<1>8. StreamInv'
  <2>1. UnreadFacts /\ UnreadFacts'
    BY UnreadIs, UnreadIsNext
  <2>2. Len(Unread') = Len(Unread) - size
    BY <1>1, <1>2, <1>k, <2>1 DEF UnreadFacts, Lengths
  <2>3. ASSUME NEW i \in 1..Len(Unread') PROVE Unread'[i] = Unread[i + size]
    <3>0. i \in Nat /\ i <= (buffer_used - size) + Len(channel) /\ buffer_used \in Nat /\ size \in Nat
          /\ Len(channel) \in Nat /\ size <= buffer_used /\ i >= 1
      BY <1>1, <1>2, <1>k, <2>1 DEF UnreadFacts, Lengths
    <3>1. CASE i \in 1 .. buffer_used - size
      <4>1. i \in 1..buffer_used' /\ i + size \in 1..buffer_used
        BY <3>0, <3>1
      <4>2. Unread'[i] = buffer'[i] /\ Unread[i + size] = buffer[i + size]
        BY <2>1, <4>1 DEF UnreadFacts
      <4> QED BY <1>7, <3>1, <4>2
    <3>2. CASE i > buffer_used - size
      <4> DEFINE k == i - (buffer_used - size)
      <4>1. k \in 1..Len(channel) /\ (buffer_used - size) + k = i /\ buffer_used + k = i + size
        BY <3>0, <3>2, SMTT(30)
      <4> HIDE DEF k
      <4>2. Unread[buffer_used + k] = channel[k]
        BY <2>1, <4>1 DEF UnreadFacts
      <4>3. Unread'[buffer_used' + k] = channel'[k]
        BY <2>1, <4>1, <1>k DEF UnreadFacts
      <4> QED BY <4>1, <4>2, <4>3, <1>k
    <3>3. i \in 1 .. buffer_used - size \/ i > buffer_used - size
      BY <3>0
    <3> QED BY <3>1, <3>2, <3>3
  <2>4. Unread[size] = buffer[size] /\ Unread[size].req = Len(got) + 1 /\ size \in 1..Len(Unread)
    <3>1. size \in 1..size /\ size \in 1..Len(Unread)
      BY <1>1, <1>2, <2>1, SMTT(30) DEF UnreadFacts, Lengths
    <3>2. Unread[size] = buffer[size]
      BY <1>2, <2>1 DEF UnreadFacts
    <3>3. buffer[size] = [req |-> Len(got) + 1, at |-> size]
      BY <1>2, <3>1
    <3> QED BY <3>1, <3>2, <3>3
  <2>5. Unread \in Seq(AnyByte) /\ Unread' \in Seq(AnyByte)
    BY <2>1 DEF UnreadFacts
  <2>6. Len(got) \in Nat /\ Len(sent) \in Nat
    BY <1>1 DEF Lengths
  <2>7. IsStream(Unread', sent, Len(got) + 1)
    BY <1>1, <1>2, <2>2, <2>3, <2>4, <2>5, <2>6, StreamWithoutFirst
  <2> QED BY <1>4, <1>k, <2>7 DEF StreamInv
<1>9. Datagrams'
  <2> SUFFICES ASSUME transport = "datagram" PROVE Datagrams'
    BY <1>k DEF Datagrams
  <2>1. LastByte(buffer[buffer_used]) /\ \A n \in DOMAIN sent : sent[n].size <= InitSize
    BY DEF OrderInv, Datagrams
  <2>2. buffer_used' > 0 => buffer'[buffer_used'] = buffer[buffer_used]
    <3> SUFFICES ASSUME buffer_used' > 0 PROVE buffer'[buffer_used'] = buffer[buffer_used]
      OBVIOUS
    <3> DEFINE j == buffer_used - size
    <3>1. j \in 1 .. buffer_used - size /\ j + size = buffer_used
      BY <1>1, <1>2 DEF Lengths
    <3> HIDE DEF j
    <3>2. buffer'[j] = buffer[j + size]
      BY <1>7, <3>1
    <3> QED BY <3>1, <3>2 DEF j
  <2>3. buffer_used' > 0 => LastByte(buffer[buffer_used])'
    BY <1>k, <2>1, <2>2 DEF LastByte
  <2> QED BY <1>k, <2>1, <2>3 DEF Datagrams
<1> QED BY <1>5, <1>8, <1>9 DEF OrderInv

\* A buffer with datagrams in it has a complete request.
LEMMA DatagramComplete ==
  ASSUME TypeInv, OrderInv, Stypes \subseteq {"BIN"}, transport = "datagram", pc = "loop",
         buffer_used > 0, NEW f \in Forms \ {"invalid"}
  PROVE  reqbuf_req_is_complete(f)
<1>1. IsStream(Unread, sent, Len(got)) /\ Lengths /\ LastByte(buffer[buffer_used])
  BY LengthsHold DEF OrderInv, StreamInv, Datagrams
<1>2. buffer_used \in 1..buffer_used /\ buffer_used \in 1..Len(Unread) /\ buffer_used \in Nat
  BY <1>1, UnreadIs DEF Lengths, UnreadFacts
<1>3. EndsIn(Unread[buffer_used], sent)
  BY <1>1, <1>2, UnreadIs DEF UnreadFacts, LastByte, EndsIn
<1>4. CASE type = "text"
  <2>1. f = "text"
    BY <1>1, <1>4, NextRequest
  <2>2. buffer_used \in Ends("text")
    BY <1>1, <1>2, <1>3, <1>4, EndsAreEnds
  <2> QED BY <2>1, <2>2 DEF reqbuf_req_is_complete
<1>5. CASE type = "binary"
  <2>1. f = "BIN"
    BY <1>1, <1>5, NextRequest
  <2>2. Len(got) \in Nat /\ Len(sent) \in Nat /\ Unread \in Seq(AnyByte)
    BY <1>1, UnreadIs DEF Lengths, UnreadFacts
  <2>3. PICK m \in 1..buffer_used : sent[Len(got) + 1].size = m
    BY <1>1, <1>2, <1>3, <2>2, FirstEnd
  <2>4. sent[Len(got) + 1].size = BinSize
    BY <1>1, <1>5, NextRequest, SentFacts
  <2>5. buffer_used >= BinSize
    BY <1>2, <2>3, <2>4
  <2> QED BY <2>1, <2>5 DEF reqbuf_req_is_complete
<1> QED BY <1>4, <1>5, Parts, ReqbufAssumption

\* Every step preserves it.
LEMMA OrderStep ==
  ASSUME Stypes \subseteq {"BIN"}, TypeInv, TypeInv', OrderInv, [Next]_vars
  PROVE  OrderInv'
<1> DEFINE Quiet == UNCHANGED <<sent, got, buffer, buffer_used, channel, transport>>
<1>i. Idle => Quiet
  BY DEF Idle, peer
<1>1. ASSUME NEW shape \in Shapes, Send(shape) PROVE OrderInv'
  BY <1>1, OrderSend
<1>2. CASE reqbuf_create
  <2>1. Quiet /\ pc = "none" /\ pc' = "idle"
    BY <1>2 DEF reqbuf_create, Goto, peer
  <2> QED BY <2>1, OrderKept
<1>3. CASE reqbuf_destroy
  <2>1. pc' = "destroyed" /\ UNCHANGED <<sent, got>>
    BY <1>3 DEF reqbuf_destroy, Goto, peer
  <2> QED BY <2>1 DEF OrderInv, StreamInv, Datagrams, InOrder, Request, Bytes
<1>4. CASE reqbuf_read
  <2>1. Quiet /\ pc = "idle" /\ pc' = "loop"
    BY <1>4 DEF reqbuf_read, Goto, peer
  <2> QED BY <2>1, OrderKept
<1>5. CASE ReadFails
  <2>1. Quiet /\ pc = "loop" /\ pc' = "idle"
    BY <1>5, <1>i DEF ReadFails, Returns, Goto
  <2> QED BY <2>1, OrderKept
<1>6. CASE NeedsMore
  <2>1. Quiet /\ pc = "loop" /\ pc' = "more"
    BY <1>6, <1>i DEF NeedsMore, Goto
  <2>2. transport # "datagram" \/ buffer_used = 0
    BY <1>6, <2>1, DatagramComplete DEF NeedsMore
  <2> QED BY <2>1, <2>2, OrderKept
<1>7. CASE Takes
  <2>1. PICK f \in Forms \ {"invalid"} :
          /\ reqbuf_req_is_complete(f)
          /\ LET size  == reqbuf_find_req_size(f)
                 bytes == [i \in 1..size |-> buffer[i]] IN
               \/ /\ Accepts(bytes)
                  /\ Returns("loop", "success")
                  /\ got' = Append(got, bytes)
                  /\ Shifts(size)
                  /\ buffer_used' = buffer_used - size
                  /\ UNCHANGED <<type, peer, channel, buffer_ptr>>
               \/ /\ Returns("loop", "no memory")
                  /\ Idle
               \/ /\ Refuses(bytes)
                  /\ Returns("loop", "refused")
                  /\ Idle
    BY <1>7 DEF Takes
  <2> DEFINE size == reqbuf_find_req_size(f)
  <2>2. buffer_used > 0 /\ pc = "loop" /\ pc' = "idle"
    BY <1>7, <2>1 DEF Takes, Returns, Goto
  <2>3. CASE /\ got' = Append(got, [i \in 1..size |-> buffer[i]])
             /\ Shifts(size)
             /\ buffer_used' = buffer_used - size
             /\ UNCHANGED <<type, peer, channel, buffer_ptr>>
    <3>1. PICK n : n = reqbuf_find_req_size(f)
      OBVIOUS
    <3> QED BY <2>1, <2>2, <2>3, <3>1, OrderTake
  <2>4. CASE Idle
    BY <2>2, <2>4, <1>i, OrderKept
  <2> QED BY <2>1, <2>3, <2>4
<1>8. CASE Grows
  <2>1. Quiet /\ pc = "more" /\ pc' \in {"receive", "idle"}
    BY <1>8, <1>i DEF Grows, Returns, Goto, peer
  <2> QED BY <2>1, OrderKept
<1>9. CASE ReceiveFails
  <2>1. Quiet /\ pc = "receive" /\ pc' = "idle"
    BY <1>9, <1>i DEF ReceiveFails, Returns, Goto
  <2> QED BY <2>1, OrderKept
<1>12. CASE ReceiveDies
  <2>1. Quiet /\ pc = "receive" /\ pc' = "dead"
    BY <1>12, <1>i DEF ReceiveDies, Goto
  <2> QED BY <2>1, OrderKept
<1>10. ASSUME NEW n \in DOMAIN channel \cup {0}, Receives(n) PROVE OrderInv'
  BY <1>10, OrderReceive
<1>11. CASE UNCHANGED vars
  <2>1. Quiet /\ pc' = pc
    BY <1>11 DEF vars, peer
  <2> QED BY <2>1, OrderKept
<1> QED BY <1>1, <1>2, <1>3, <1>4, <1>5, <1>6, <1>7, <1>8, <1>9, <1>10, <1>11, <1>12 DEF Next

\* Hence it holds always.
LEMMA OrderInvHolds == ASSUME Stypes \subseteq {"BIN"} PROVE Spec => []OrderInv
<1>1. Init => OrderInv
  <2> SUFFICES ASSUME Init PROVE OrderInv
    OBVIOUS
  <2>1. sent = <<>> /\ got = <<>> /\ channel = <<>> /\ buffer_used = 0 /\ pc = "none"
    BY DEF Init
  <2>2. Len(Unread) = 0 /\ Len(got) = 0 /\ Len(sent) = 0
    <3>1. TypeInv
      BY InitTypes
    <3>2. Len(Unread) = buffer_used + Len(channel)
      BY <3>1, UnreadIs DEF UnreadFacts
    <3> QED BY <2>1, <3>2
  <2>3. StreamInv
    BY <2>2 DEF StreamInv, IsStream, Known, SameRequest, EndBetween, NextBegins, Begins, Finishes
  <2>4. Datagrams /\ InOrder
    BY <2>1 DEF Datagrams, InOrder
  <2> QED BY <2>3, <2>4 DEF OrderInv
<1>2. TypeInv /\ TypeInv' /\ OrderInv /\ [Next]_vars => OrderInv'
  BY OrderStep
<1> QED BY <1>1, <1>2, TypeInvHolds, PTL DEF Spec

\* A buffer of texts, or of structures, hands out the requests that were sent,
\* whole and in their order, however the medium cuts or joins them and whatever
\* fails on the way.  A text inside a binary request (Stypes with TEXT) is cut
\* by reqbuf_find_req_size: the theorem leaves it out.
THEOREM ReadInOrder == ASSUME Stypes \subseteq {"BIN"} PROVE Spec => []InOrder
<1>1. OrderInv => InOrder
  BY DEF OrderInv
<1> QED BY <1>1, OrderInvHolds, PTL
-----------------------------------------------------------------------------
(***************************************************************************)
(* The buffer is a stream of requests.  What the refinement mapping makes  *)
(* of the unread bytes is, in every state, the sequence of the requests    *)
(* sent and not handed out; each step then changes it as the stream does.  *)
(***************************************************************************)
\* Where the bytes of a request begin in a stream, its first byte is.
LEMMA PartBegins ==
  ASSUME NEW u \in Seq(AnyByte), NEW st, NEW g \in Nat, IsStream(u, st, g),
         NEW a \in 1..Len(u), \A k \in 1 .. a - 1 : u[k].req # u[a].req
  PROVE  u[a].at = 1
<1>1. CASE a = 1
  BY <1>1 DEF IsStream, Begins
<1>2. CASE a > 1
  <2> DEFINE p == a - 1
  <2>1. p \in 1..Len(u) /\ p < a /\ p < Len(u) /\ p + 1 = a /\ p \in 1 .. a - 1
    BY <1>2
  <2> HIDE DEF p
  <2>2. u[p].req # u[a].req
    BY <2>1
  <2>3. PICK k \in p .. a - 1 : EndsIn(u[k], st)
    BY <2>1, <2>2 DEF IsStream, EndBetween
  <2>4. k = p
    BY <2>1, <2>3
  <2>5. u[p + 1] = [req |-> u[p].req + 1, at |-> 1]
    BY <2>1, <2>3, <2>4 DEF IsStream, NextBegins
  <2> QED BY <2>1, <2>5
<1> QED BY <1>1, <1>2

\* Where they end, its last byte is.
LEMMA PartEnds ==
  ASSUME NEW u \in Seq(AnyByte), NEW st, NEW g \in Nat, IsStream(u, st, g),
         NEW b \in 1..Len(u), \A k \in b + 1 .. Len(u) : u[k].req # u[b].req
  PROVE  EndsIn(u[b], st)
<1>1. CASE b = Len(u)
  BY <1>1 DEF IsStream, Finishes
<1>2. CASE b < Len(u)
  <2> DEFINE p == b + 1
  <2>1. p \in 1..Len(u) /\ b < p /\ p \in b + 1 .. Len(u) /\ p - 1 = b
    BY <1>2
  <2> HIDE DEF p
  <2>2. u[p].req # u[b].req
    BY <2>1
  <2>3. PICK k \in b .. p - 1 : EndsIn(u[k], st)
    BY <2>1, <2>2 DEF IsStream, EndBetween
  <2>4. k = b
    BY <2>1, <2>3
  <2> QED BY <2>3, <2>4
<1> QED BY <1>1, <1>2

\* Between its first and its last byte there are no others.
LEMMA PartWhole ==
  ASSUME NEW u \in Seq(AnyByte), NEW st, NEW g \in Nat, IsStream(u, st, g),
         NEW a \in 1..Len(u), NEW b \in 1..Len(u), u[a].req = u[b].req, EndsIn(u[b], st),
         NEW k \in a..b
  PROVE  u[k].req = u[a].req
<1> SUFFICES ASSUME u[k].req # u[a].req PROVE FALSE
  OBVIOUS
<1>1. k \in 1..Len(u) /\ a < k /\ k < b
  OBVIOUS
<1>2. PICK j \in a .. k - 1 : u[j].req = u[a].req /\ EndsIn(u[j], st)
  BY <1>1 DEF IsStream, EndBetween
<1>3. j \in 1..Len(u) /\ j < b
  BY <1>1, <1>2
<1>4. u[b].at + j = u[j].at + b
  BY <1>2, <1>3 DEF IsStream, SameRequest
<1>5. u[b].at = u[j].at
  BY <1>2 DEF EndsIn
<1>6. u[b] \in AnyByte
  BY ElementOfSeq
<1>7. u[b].at \in Nat /\ j \in Nat /\ b \in Nat
  BY <1>3, <1>6 DEF AnyByte
<1> QED BY <1>3, <1>4, <1>5, <1>7

\* The bytes of a request, one by one.
LEMMA BytesAre ==
  ASSUME NEW n \in Nat, NEW size \in Nat
  PROVE  /\ Bytes(n, size) \in Seq(AnyByte) /\ Len(Bytes(n, size)) = size
         /\ \A j \in 1..size : Bytes(n, size)[j] = [req |-> n, at |-> j]
<1>1. \A j \in 1..size : [req |-> n, at |-> j] \in AnyByte
  BY DEF AnyByte
<1>2. Bytes(n, size) \in [1..size -> AnyByte]
  BY <1>1 DEF Bytes
<1>3. Bytes(n, size) \in Seq(AnyByte)
  BY <1>2, SeqDef
<1>4. Len(Bytes(n, size)) = size
  BY <1>2, <1>3, LenProperties
<1> QED BY <1>3, <1>4 DEF Bytes

\* Hence the part of a stream that is a request holds all of it.
LEMMA PartIs ==
  ASSUME NEW u \in Seq(AnyByte), NEW st, NEW g \in Nat, IsStream(u, st, g), Len(st) \in Nat,
         NEW n \in 1..Len(st), st[n].size \in Nat \ {0},
         { k \in 1..Len(u) : u[k].req = n } # {}
  PROVE  Part(u, n) = Bytes(n, st[n].size)
<1> DEFINE at == { k \in 1..Len(u) : u[k].req = n }
           a == Min(at)
           b == Max(at)
           part == SubSeq(u, a, b)
           size == st[n].size
<1>1. a \in at /\ (\A k \in at : a <= k) /\ b \in at /\ (\A k \in at : k <= b)
  <2>1. at \subseteq Nat /\ at # {} /\ Len(u) \in Nat /\ \A x \in at : x <= Len(u)
    OBVIOUS
  <2> HIDE DEF at
  <2>2. a \in at /\ \A k \in at : a <= k
    BY <2>1, MinExists
  <2>3. b \in at /\ \A k \in at : k <= b
    BY <2>1, MaxExists
  <2> QED BY <2>2, <2>3
<1> HIDE DEF a, b
<1>2. a \in 1..Len(u) /\ b \in 1..Len(u) /\ a <= b /\ u[a].req = n /\ u[b].req = n
  BY <1>1
<1>3. u[a].at = 1
  <2>1. \A k \in 1 .. a - 1 : u[k].req # u[a].req
    <3> SUFFICES ASSUME NEW k \in 1 .. a - 1, u[k].req = u[a].req PROVE FALSE
      OBVIOUS
    <3>1. k \in 1..Len(u) /\ ~(a <= k)
      BY <1>2
    <3> QED BY <1>1, <1>2, <3>1
  <2> QED BY <1>2, <2>1, PartBegins
<1>4. EndsIn(u[b], st)
  <2>1. \A k \in b + 1 .. Len(u) : u[k].req # u[b].req
    <3> SUFFICES ASSUME NEW k \in b + 1 .. Len(u), u[k].req = u[b].req PROVE FALSE
      OBVIOUS
    <3>1. k \in 1..Len(u) /\ ~(k <= b)
      BY <1>2
    <3> QED BY <1>1, <1>2, <3>1
  <2> QED BY <1>2, <2>1, PartEnds
<1>5. \A k \in a..b : k \in 1..Len(u) /\ u[k].req = n
  <2> SUFFICES ASSUME NEW k \in a..b PROVE k \in 1..Len(u) /\ u[k].req = n
    OBVIOUS
  <2>1. k \in 1..Len(u)
    BY <1>2
  <2>2. u[k].req = u[a].req
    BY <1>2, <1>4, PartWhole
  <2> QED BY <1>2, <2>1, <2>2
<1>6. \A k \in a..b : u[k] = [req |-> n, at |-> (k - a) + 1]
  <2> SUFFICES ASSUME NEW k \in a..b PROVE u[k] = [req |-> n, at |-> (k - a) + 1]
    OBVIOUS
  <2>1. k \in 1..Len(u) /\ u[k].req = n
    BY <1>5
  <2>2. u[k] \in AnyByte /\ u[a] \in AnyByte
    BY <1>2, <2>1, ElementOfSeq
  <2>3. k \in Nat /\ a \in Nat /\ u[k].at \in Nat
    <3>1. u[k].at \in Nat
      BY <2>2 DEF AnyByte
    <3>2. Len(u) \in Nat
      OBVIOUS
    <3> QED BY <1>2, <2>1, <3>1, <3>2
  <2> DEFINE x == u[k].at
  <2>4. x + a = k + 1
    <3>1. CASE k = a
      BY <1>3, <3>1
    <3>2. CASE k > a
      <4>1. x + a = u[a].at + k
        BY <1>2, <2>1, <3>2 DEF IsStream, SameRequest
      <4> QED BY <1>3, <4>1
    <3>3. k = a \/ k > a
      BY <2>3
    <3> QED BY <3>1, <3>2, <3>3
  <2>5. x \in Nat
    BY <2>3
  <2> HIDE DEF x
  <2>6. x = (k - a) + 1
    BY <2>3, <2>4, <2>5
  <2> QED BY <2>1, <2>2, <2>6 DEF AnyByte, x
<1>7. size = (b - a) + 1
  <2>1. b \in a..b
    BY <1>2
  <2>2. u[b] = [req |-> n, at |-> (b - a) + 1]
    BY <1>6, <2>1
  <2> QED BY <1>4, <2>2 DEF EndsIn
<1> DEFINE whole == Bytes(n, size)
<1>8. /\ part \in Seq(AnyByte) /\ Len(part) = size
      /\ \A j \in 1..size : part[j] = u[a + j - 1]
  <2>1. \A k \in a..b : u[k] \in AnyByte
    BY <1>5, ElementOfSeq
  <2>2. a \in Int /\ b \in Int /\ a <= b
    BY <1>2
  <2>3. /\ part \in Seq(AnyByte)
        /\ Len(part) = IF a <= b THEN b - a + 1 ELSE 0
        /\ \A j \in 1 .. b - a + 1 : part[j] = u[a + j - 1]
    BY <2>1, <2>2, SubSeqProperties
  <2> QED BY <1>7, <2>2, <2>3
<1>9. /\ whole \in Seq(AnyByte) /\ Len(whole) = size
      /\ \A j \in 1..size : whole[j] = [req |-> n, at |-> j]
  <2>1. n \in Nat /\ size \in Nat
    OBVIOUS
  <2> QED BY <2>1, BytesAre
<1> HIDE DEF part, whole
<1>10. \A j \in 1..size : part[j] = whole[j]
  <2> SUFFICES ASSUME NEW j \in 1..size PROVE part[j] = whole[j]
    OBVIOUS
  <2>1. a + j - 1 \in a..b /\ ((a + j - 1) - a) + 1 = j
    BY <1>2, <1>7
  <2>2. u[a + j - 1] = [req |-> n, at |-> j]
    BY <1>6, <2>1
  <2> QED BY <1>8, <1>9, <2>2
<1>11. part = whole
  BY <1>8, <1>9, <1>10, SeqEqual
<1>12. DOMAIN u = 1..Len(u)
  OBVIOUS
<1> QED BY <1>11, <1>12 DEF Part, part, whole, a, b

\* Of every request from the first that was not read on, there are bytes in the
\* stream: the first byte of a later one is that of the next one.
LEMMA AllThere ==
  ASSUME NEW u \in Seq(AnyByte), NEW st, NEW g \in Nat, IsStream(u, st, g), Len(st) \in Nat,
         Len(u) > 0, NEW n \in g + 1 .. Len(st)
  PROVE  { k \in 1..Len(u) : u[k].req = n } # {}
<1> DEFINE Later == { k \in 1..Len(u) : u[k].req >= n }
           m == Min(Later)
<1>1. m \in Later /\ \A k \in Later : m <= k
  <2>1. Later \subseteq Nat
    OBVIOUS
  <2>2. Len(u) \in Later
    <3>1. Len(u) \in 1..Len(u) /\ u[Len(u)].req = Len(st)
      BY DEF IsStream, Finishes
    <3> QED BY <3>1
  <2> HIDE DEF Later
  <2> QED BY <2>1, <2>2, MinExists
<1> HIDE DEF m
<1>2. m \in 1..Len(u) /\ u[m].req >= n
  BY <1>1
<1>3. u[m].req = n
  <2>1. CASE m = 1
    <3>1. u[m].req = g + 1
      BY <2>1 DEF IsStream, Begins
    <3> QED BY <1>2, <3>1
  <2>2. CASE m > 1
    <3> DEFINE p == m - 1
    <3>1. p \in 1..Len(u) /\ p < m /\ p < Len(u) /\ p + 1 = m /\ ~(m <= p)
      BY <1>2, <2>2
    <3> HIDE DEF p
    <3>2. ~(u[p].req >= n) /\ u[p].req # u[m].req
      BY <1>1, <1>2, <3>1
    <3>3. PICK k \in p .. m - 1 : EndsIn(u[k], st)
      BY <1>2, <3>1, <3>2 DEF IsStream, EndBetween
    <3>4. k = p
      BY <1>2, <3>1, <3>3
    <3>5. u[p + 1] = [req |-> u[p].req + 1, at |-> 1]
      BY <3>1, <3>3, <3>4 DEF IsStream, NextBegins
    <3>6. u[m].req = u[p].req + 1
      BY <3>1, <3>5
    <3>7. u[p] \in AnyByte
      BY <3>1, ElementOfSeq
    <3>8. u[p].req \in Nat
      BY <3>7 DEF AnyByte
    <3> QED BY <1>2, <3>2, <3>6, <3>8
  <2> QED BY <1>2, <2>1, <2>2
<1> QED BY <1>2, <1>3

\* The requests sent, from the first that was not read on.
Remaining(st, g) == [i \in 1 .. Len(st) - g |-> Bytes(g + i, st[g + i].size)]

\* This is what the refinement mapping makes of the unread bytes.
LEMMA UnreadAreRemaining ==
  ASSUME TypeInv, IsStream(Unread, sent, Len(got))
  PROVE  UnreadRequests = Remaining(sent, Len(got))
<1> DEFINE g == Len(got)
           u == Unread
<1>1. /\ g \in Nat /\ Len(sent) \in Nat
      /\ u \in Seq(AnyByte) /\ Len(u) \in Nat /\ DOMAIN u = 1..Len(u)
      /\ IsStream(u, sent, g)
  <2>1. u \in Seq(AnyByte)
    BY UnreadIs DEF UnreadFacts
  <2> QED BY <2>1, Parts, LenProperties
<1>2. CASE u = <<>>
  <2>1. Len(u) = 0
    BY <1>2
  <2>2. g = Len(sent)
    BY <1>1, <2>1 DEF IsStream, Finishes
  <2>3. Remaining(sent, g) = <<>>
    BY <1>1, <2>2 DEF Remaining
  <2> QED BY <1>2, <2>3 DEF UnreadRequests
<1>3. CASE u # <<>>
  <2>1. Len(u) > 0
    BY <1>1, <1>3, EmptySeq
  <2>2. Head(u).req = g + 1
    BY <1>1, <2>1 DEF IsStream, Begins
  <2>3. Last(u).req = Len(sent)
    BY <1>1, <2>1 DEF IsStream, Finishes, Last
  <2>4. ASSUME NEW i \in 1 .. Len(sent) - g
        PROVE  Part(u, g + i) = Bytes(g + i, sent[g + i].size)
    <3> DEFINE n == g + i
    <3>1. n \in g + 1 .. Len(sent) /\ n \in 1..Len(sent)
      BY <1>1
    <3> HIDE DEF n
    <3>2. { k \in 1..Len(u) : u[k].req = n } # {}
      BY <1>1, <2>1, <3>1, AllThere
    <3>3. sent[n].size \in Nat \ {0}
      BY <3>1, SentFacts
    <3> HIDE DEF u, g
    <3>4. Part(u, n) = Bytes(n, sent[n].size)
      BY <1>1, <3>1, <3>2, <3>3, PartIs
    <3> QED BY <3>4 DEF n
  <2>5. \A i \in 1 .. Len(sent) - g : (g + 1) + i - 1 = g + i
    BY <1>1
  <2>6. Len(sent) + 1 - (g + 1) = Len(sent) - g
    BY <1>1
  <2>7. UnreadRequests = [i \in 1 .. Len(sent) - g |-> Part(u, g + i)]
    BY <1>3, <2>2, <2>3, <2>5, <2>6 DEF UnreadRequests
  <2> QED BY <2>4, <2>7 DEF Remaining
<1> QED BY <1>2, <1>3

\* The requests that remain are sequences of bytes.
LEMMA RemainingType ==
  ASSUME NEW st, Len(st) \in Nat, NEW g \in Nat, g <= Len(st),
         \A i \in 1..Len(st) : st[i].size \in Nat
  PROVE  /\ Remaining(st, g) \in Seq(Seq(AnyByte))
         /\ Len(Remaining(st, g)) = Len(st) - g
         /\ \A i \in 1 .. Len(st) - g : Remaining(st, g)[i] = Bytes(g + i, st[g + i].size)
<1> DEFINE n == Len(st) - g
           r == Remaining(st, g)
<1>1. n \in Nat
  OBVIOUS
<1>2. \A i \in 1..n : Bytes(g + i, st[g + i].size) \in Seq(AnyByte)
  <2> SUFFICES ASSUME NEW i \in 1..n PROVE Bytes(g + i, st[g + i].size) \in Seq(AnyByte)
    OBVIOUS
  <2>1. g + i \in 1..Len(st) /\ g + i \in Nat
    OBVIOUS
  <2> QED BY <2>1, BytesAre
<1>3. r = [i \in 1..n |-> Bytes(g + i, st[g + i].size)]
  BY DEF Remaining
<1> HIDE DEF n, r
<1>4. r \in [1..n -> Seq(AnyByte)]
  BY <1>2, <1>3
<1>5. r \in Seq(Seq(AnyByte))
  BY <1>1, <1>4, SeqDef
<1>6. Len(r) = n
  BY <1>1, <1>4, <1>5, LenProperties
<1>7. \A i \in 1..n : r[i] = Bytes(g + i, st[g + i].size)
  BY <1>3
<1> QED BY <1>5, <1>6, <1>7 DEF n, r

\* The requests st2 are those of st and one more, of that size.
OneMoreSent(st, st2, size) ==
  /\ Len(st) \in Nat /\ \A i \in 1..Len(st) : st[i].size \in Nat
  /\ Len(st2) = Len(st) + 1 /\ \A i \in 1..Len(st) : st2[i] = st[i]
  /\ size \in Nat /\ st2[Len(st) + 1].size = size

\* One more request sent is one more that remains.
LEMMA RemainingSent ==
  ASSUME NEW st, NEW st2, NEW size, OneMoreSent(st, st2, size),
         NEW g \in Nat, g <= Len(st)
  PROVE  Remaining(st2, g) = Append(Remaining(st, g), Bytes(Len(st) + 1, size))
<1> USE DEF OneMoreSent
<1> DEFINE r == Remaining(st, g)
           r2 == Remaining(st2, g)
           bs == Bytes(Len(st) + 1, size)
           n == Len(st) - g
<1>1. /\ r \in Seq(Seq(AnyByte)) /\ Len(r) = n
      /\ \A i \in 1..n : r[i] = Bytes(g + i, st[g + i].size)
  BY RemainingType
<1>2. /\ r2 \in Seq(Seq(AnyByte)) /\ Len(r2) = n + 1
      /\ \A i \in 1 .. n + 1 : r2[i] = Bytes(g + i, st2[g + i].size)
  <2>1. \A i \in 1..Len(st2) : st2[i].size \in Nat
    <3> SUFFICES ASSUME NEW i \in 1..Len(st2) PROVE st2[i].size \in Nat
      OBVIOUS
    <3>1. i \in 1..Len(st) \/ i = Len(st) + 1
      OBVIOUS
    <3> QED BY <3>1
  <2>2. Len(st2) \in Nat /\ g <= Len(st2) /\ Len(st2) - g = n + 1
    OBVIOUS
  <2>3. /\ r2 \in Seq(Seq(AnyByte)) /\ Len(r2) = Len(st2) - g
        /\ \A i \in 1 .. Len(st2) - g : r2[i] = Bytes(g + i, st2[g + i].size)
    BY <2>1, <2>2, RemainingType
  <2> HIDE DEF r2, n
  <2> QED BY <2>2, <2>3
<1>3. bs \in Seq(AnyByte)
  BY BytesAre
<1>4. n \in Nat /\ g + (n + 1) = Len(st) + 1 /\ \A i \in 1..n : g + i \in 1..Len(st)
  OBVIOUS
<1> HIDE DEF r, r2, bs, n
<1>5. /\ Append(r, bs) \in Seq(Seq(AnyByte)) /\ Len(Append(r, bs)) = n + 1
      /\ \A i \in 1..n : Append(r, bs)[i] = r[i]
      /\ Append(r, bs)[n + 1] = bs
  BY <1>1, <1>3, AppendProperties
<1>6. \A i \in 1 .. n + 1 : r2[i] = Append(r, bs)[i]
  <2> SUFFICES ASSUME NEW i \in 1 .. n + 1 PROVE r2[i] = Append(r, bs)[i]
    OBVIOUS
  <2>1. CASE i \in 1..n
    <3>1. g + i \in 1..Len(st)
      BY <1>4, <2>1
    <3>2. r2[i] = Bytes(g + i, st2[g + i].size)
      BY <1>2
    <3>3. r[i] = Bytes(g + i, st[g + i].size)
      BY <1>1, <2>1
    <3>4. st2[g + i] = st[g + i]
      BY <3>1
    <3> QED BY <1>5, <2>1, <3>2, <3>3, <3>4
  <2>2. CASE i = n + 1
    <3>1. r2[n + 1] = Bytes(g + (n + 1), st2[g + (n + 1)].size)
      BY <1>2, <2>2
    <3> QED BY <1>4, <1>5, <2>2, <3>1 DEF bs
  <2>3. i \in 1..n \/ i = n + 1
    BY <1>4
  <2> QED BY <2>1, <2>2, <2>3
<1>7. r2 = Append(r, bs)
  BY <1>2, <1>5, <1>6, SeqEqual
<1> QED BY <1>7 DEF r, r2, bs

\* One handed out is the first of those that remain.
LEMMA RemainingRead ==
  ASSUME NEW st, Len(st) \in Nat, NEW g \in Nat, g < Len(st),
         \A i \in 1..Len(st) : st[i].size \in Nat
  PROVE  /\ Remaining(st, g) # <<>>
         /\ Head(Remaining(st, g)) = Bytes(g + 1, st[g + 1].size)
         /\ Tail(Remaining(st, g)) = Remaining(st, g + 1)
<1> DEFINE r == Remaining(st, g)
           r2 == Remaining(st, g + 1)
           n == Len(st) - g
<1>1. /\ r \in Seq(Seq(AnyByte)) /\ Len(r) = n
      /\ \A i \in 1..n : r[i] = Bytes(g + i, st[g + i].size)
  BY RemainingType
<1>2. /\ r2 \in Seq(Seq(AnyByte)) /\ Len(r2) = n - 1
      /\ \A i \in 1 .. n - 1 : r2[i] = Bytes((g + 1) + i, st[(g + 1) + i].size)
  <2>1. g + 1 \in Nat /\ g + 1 <= Len(st) /\ Len(st) - (g + 1) = n - 1
    OBVIOUS
  <2> QED BY <2>1, RemainingType
<1>3. n \in Nat /\ n > 0 /\ 1 \in 1..n
      /\ \A i \in 1 .. n - 1 : i + 1 \in 1..n /\ g + (i + 1) = (g + 1) + i
  OBVIOUS
<1> HIDE DEF r, r2, n
<1>4. r # <<>>
  BY <1>1, <1>3, EmptySeq
<1>5. Head(r) = Bytes(g + 1, st[g + 1].size)
  <2>1. r[1] = Bytes(g + 1, st[g + 1].size)
    BY <1>1, <1>3
  <2> QED BY <1>1, <1>4, <2>1
<1>6. /\ Tail(r) \in Seq(Seq(AnyByte)) /\ Len(Tail(r)) = n - 1
      /\ \A i \in 1 .. n - 1 : Tail(r)[i] = r[i + 1]
  BY <1>1, <1>4, HeadTailProperties
<1>7. \A i \in 1 .. n - 1 : Tail(r)[i] = r2[i]
  <2> SUFFICES ASSUME NEW i \in 1 .. n - 1 PROVE Tail(r)[i] = r2[i]
    OBVIOUS
  <2>1. r[i + 1] = Bytes(g + (i + 1), st[g + (i + 1)].size)
    BY <1>1, <1>3
  <2> QED BY <1>2, <1>3, <1>6, <2>1
<1>8. Tail(r) = r2
  BY <1>2, <1>6, <1>7, SeqEqual
<1> QED BY <1>4, <1>5, <1>8 DEF r, r2

\* The queue of the stream: what is unread, until the buffer is destroyed.
Queue == IF pc = "destroyed" THEN <<>> ELSE UnreadRequests

QueueFact == Queue = IF pc = "destroyed" THEN <<>> ELSE Remaining(sent, Len(got))

\* It is so in every state,
LEMMA QueueIs == TypeInv /\ OrderInv => QueueFact
<1> SUFFICES ASSUME TypeInv, OrderInv PROVE QueueFact
  OBVIOUS
<1>1. CASE pc = "destroyed"
  BY <1>1 DEF QueueFact, Queue
<1>2. CASE pc # "destroyed"
  <2>1. UnreadRequests = Remaining(sent, Len(got))
    BY <1>2, UnreadAreRemaining DEF OrderInv, StreamInv
  <2> QED BY <1>2, <2>1 DEF QueueFact, Queue
<1> QED BY <1>1, <1>2

\* and in the next one.
LEMMA QueueIsNext == TypeInv' /\ OrderInv' => QueueFact'
BY QueueIs, PTL

\* What the lemmas about the requests that remain ask of the requests sent.
LEMMA SentSizes ==
  ASSUME TypeInv, InOrder
  PROVE  /\ Len(sent) \in Nat /\ Len(got) \in Nat /\ Len(got) <= Len(sent)
         /\ \A i \in 1..Len(sent) : sent[i].size \in Nat
<1>1. \A i \in 1..Len(sent) : sent[i].size \in Nat
  BY SentFacts
<1> QED BY <1>1, Parts DEF InOrder

StreamStep == [Stream!SendRequest \/ Stream!ReadRequest \/ Stream!Close]_<<Queue, got>>

\* A step that neither sends nor hands out a request is none of the stream.
LEMMA StreamStays ==
  ASSUME QueueFact, QueueFact', UNCHANGED <<sent, got>>,
         pc' = "destroyed" <=> pc = "destroyed"
  PROVE  StreamStep
<1>1. Remaining(sent, Len(got))' = Remaining(sent, Len(got))
  BY DEF Remaining, Bytes
<1>2. Queue' = Queue
  BY <1>1 DEF QueueFact
<1> QED BY <1>2 DEF StreamStep

\* The requests of the stream are those that can be sent.
LEMMA SentRequests ==
  ASSUME TypeInv, NEW shape \in Shapes, NEW n \in Numbers
  PROVE  Bytes(n, shape.size) \in { Bytes(m, size) : m \in Numbers, size \in Sizes }
<1>1. CASE type = "text"
  BY <1>1 DEF Shapes, Sizes
<1>2. CASE type = "binary"
  <2>1. PICK s \in Stypes :
          shape \in IF s = "BIN"
                    THEN { [stype |-> s, size |-> BinSize, valid |-> TRUE] }
                    ELSE { [stype |-> s, size |-> HeaderSize + k, valid |-> TRUE] : k \in TextSizes }
    BY <1>2 DEF Shapes
  <2>2. CASE s = "BIN"
    BY <2>1, <2>2 DEF Sizes
  <2>3. CASE s # "BIN"
    BY <2>1, <2>3 DEF Sizes
  <2> QED BY <2>2, <2>3
<1> QED BY <1>1, <1>2, Parts, ReqbufAssumption

\* Sending a request puts it behind the queue; into a buffer that is destroyed
\* nothing is sent.
LEMMA StreamSends ==
  ASSUME TypeInv, TypeInv', OrderInv, OrderInv', NEW shape \in Shapes, Send(shape)
  PROVE  StreamStep
<1>1. QueueFact /\ QueueFact'
  BY QueueIs, QueueIsNext
<1>2. sent' = Append(sent, shape) /\ UNCHANGED <<got, pc>>
  BY DEF Send
<1>3. CASE pc = "destroyed"
  BY <1>1, <1>2, <1>3 DEF QueueFact, StreamStep
<1>4. CASE pc # "destroyed"
  <2> DEFINE bs == Bytes(Len(sent) + 1, shape.size)
  <2>1. /\ Len(sent) \in Nat /\ Len(got) \in Nat /\ Len(got) <= Len(sent)
        /\ \A i \in 1..Len(sent) : sent[i].size \in Nat
    BY SentSizes DEF OrderInv
  <2>2. Len(sent') = Len(sent) + 1 /\ sent'[Len(sent) + 1] = shape
        /\ \A i \in 1..Len(sent) : sent'[i] = sent[i]
    BY <1>2, Parts, AppendProperties
  <2>3. shape.size \in Nat
    BY ShapeFacts, Parts
  <2>4. Remaining(sent', Len(got)) = Append(Remaining(sent, Len(got)), bs)
    <3> DEFINE size == shape.size
    <3>1. size \in Nat /\ sent'[Len(sent) + 1].size = size
      BY <2>2, <2>3
    <3> HIDE DEF size
    <3> DEFINE st2 == sent'
               g == Len(got)
    <3>2. OneMoreSent(sent, st2, size)
      BY <2>1, <2>2, <3>1 DEF OneMoreSent
    <3>3. g \in Nat /\ g <= Len(sent)
      BY <2>1
    <3> HIDE DEF st2, g
    <3>4. Remaining(st2, g) = Append(Remaining(sent, g), Bytes(Len(sent) + 1, size))
      BY <3>2, <3>3, RemainingSent, Zenon
    <3> QED BY <3>4 DEF size, st2, g
  <2>5. Queue' = Append(Queue, bs)
    BY <1>1, <1>2, <1>4, <2>4 DEF QueueFact
  <2>6. bs \in { Bytes(m, size) : m \in Numbers, size \in Sizes }
    <3>1. Len(sent) + 1 \in Numbers
      BY <2>1, ConstantTypes DEF Send, Numbers
    <3> QED BY <3>1, SentRequests
  <2> HIDE DEF bs
  <2>7. Queue' = Append(Queue, bs) /\ UNCHANGED got
    BY <1>2, <2>5
  <2>8. Stream!SendRequest
    BY <2>6, <2>7 DEF Stream!SendRequest, Queue
  <2> QED BY <2>8 DEF StreamStep
<1> QED BY <1>3, <1>4

\* Handing out a request takes the first of the queue.
LEMMA StreamReads ==
  ASSUME TypeInv, TypeInv', OrderInv, OrderInv', UNCHANGED sent,
         pc # "destroyed", pc' # "destroyed", NEW bs, got' = Append(got, bs)
  PROVE  StreamStep
<1>1. QueueFact /\ QueueFact'
  BY QueueIs, QueueIsNext
<1>2. /\ Len(sent) \in Nat /\ Len(got) \in Nat
      /\ \A i \in 1..Len(sent) : sent[i].size \in Nat
  BY SentSizes DEF OrderInv
<1>3. Len(got') = Len(got) + 1 /\ Len(got') <= Len(sent) /\ bs = Bytes(Len(got) + 1, sent[Len(got) + 1].size)
  <2>1. got \in Seq(Seq(Byte)) /\ got' \in Seq(Seq(Byte))
    BY DEF TypeInv, TypeOK, Byte
  <2>2. Len(got') = Len(got) + 1 /\ got'[Len(got) + 1] = bs /\ DOMAIN got' = 1..Len(got')
    BY <2>1, LenProperties
  <2>3. Len(got') <= Len(sent') /\ \A i \in DOMAIN got' : got'[i] = Bytes(i, sent'[i].size)
    BY DEF OrderInv, InOrder, Request, Bytes
  <2>4. Len(got) + 1 \in DOMAIN got'
    BY <1>2, <2>2
  <2> QED BY <2>2, <2>3, <2>4
<1>4. /\ Remaining(sent, Len(got)) # <<>>
      /\ Head(Remaining(sent, Len(got))) = bs
      /\ Tail(Remaining(sent, Len(got))) = Remaining(sent, Len(got) + 1)
  <2>1. Len(got) < Len(sent)
    BY <1>2, <1>3
  <2> QED BY <1>2, <1>3, <2>1, RemainingRead
<1>5. Queue = Remaining(sent, Len(got)) /\ Queue' = Remaining(sent, Len(got) + 1)
  BY <1>1, <1>3 DEF QueueFact
<1>6. Queue # <<>> /\ got' = Append(got, Head(Queue)) /\ Queue' = Tail(Queue)
  BY <1>4, <1>5
<1>7. Stream!ReadRequest
  BY <1>6 DEF Stream!ReadRequest, Queue
<1> QED BY <1>7 DEF StreamStep

\* Each step is one of the stream, or none.
LEMMA EachStep ==
  ASSUME TypeInv, TypeInv', OrderInv, OrderInv', [Next]_vars
  PROVE  StreamStep
<1> DEFINE Stays == UNCHANGED <<sent, got>> /\ (pc' = "destroyed" <=> pc = "destroyed")
<1>f. QueueFact /\ QueueFact'
  BY QueueIs, QueueIsNext
<1>s. Stays => StreamStep
  BY <1>f, StreamStays
<1>1. ASSUME NEW shape \in Shapes, Send(shape) PROVE StreamStep
  BY <1>1, StreamSends
<1>2. CASE reqbuf_create
  BY <1>2, <1>s DEF reqbuf_create, Goto, peer
<1>3. CASE reqbuf_destroy
  <2>1. UNCHANGED got /\ Queue' = <<>>
    BY <1>3, <1>f DEF reqbuf_destroy, Goto, QueueFact
  <2>2. Stream!Close
    BY <2>1 DEF Stream!Close, Queue
  <2> QED BY <2>2 DEF StreamStep
<1>4. CASE reqbuf_read
  BY <1>4, <1>s DEF reqbuf_read, Goto, peer
<1>5. CASE ReadFails
  BY <1>5, <1>s DEF ReadFails, Returns, Goto, Idle, peer
<1>6. CASE NeedsMore
  BY <1>6, <1>s DEF NeedsMore, Goto, Idle, peer
<1>7. CASE Takes
  <2>1. pc = "loop" /\ pc' = "idle" /\ UNCHANGED sent
        /\ (UNCHANGED got \/ \E bs : got' = Append(got, bs))
    BY <1>7 DEF Takes, Returns, Goto, Idle, peer
  <2>2. CASE UNCHANGED got
    BY <2>1, <2>2, <1>s
  <2>3. ASSUME NEW bs, got' = Append(got, bs) PROVE StreamStep
    BY <2>1, <2>3, StreamReads
  <2> QED BY <2>1, <2>2, <2>3
<1>8. CASE Grows
  BY <1>8, <1>s DEF Grows, Returns, Goto, Idle, peer
<1>9. CASE ReceiveFails
  BY <1>9, <1>s DEF ReceiveFails, Returns, Goto, Idle, peer
<1>12. CASE ReceiveDies
  BY <1>12, <1>s DEF ReceiveDies, Goto, Idle, peer
<1>10. ASSUME NEW n \in DOMAIN channel \cup {0}, Receives(n) PROVE StreamStep
  BY <1>10, <1>s DEF Receives, Goto, peer
<1>11. CASE UNCHANGED vars
  BY <1>11, <1>s DEF vars, peer
<1> QED BY <1>1, <1>2, <1>3, <1>4, <1>5, <1>6, <1>7, <1>8, <1>9, <1>10, <1>11, <1>12 DEF Next

\* The buffer, of texts or of structures, implements the stream of requests:
\* however the medium cuts or joins them and whatever fails on the way, each
\* call of reqbuf_read hands out the next whole request or leaves every unread
\* byte in its place.
THEOREM ImplementsStream == ASSUME Stypes \subseteq {"BIN"} PROVE Spec => StreamOfRequests
<1>1. Init => Stream!StreamInit
  <2> SUFFICES ASSUME Init PROVE Stream!StreamInit
    OBVIOUS
  <2>1. got = <<>> /\ UnreadRequests = <<>>
    <3>1. Unread = <<>>
      <4>1. TypeInv
        BY InitTypes
      <4>2. Unread \in Seq(AnyByte) /\ Len(Unread) = 0
        BY <4>1, UnreadIs DEF Init, UnreadFacts
      <4> QED BY <4>2, EmptySeq
    <3> QED BY <3>1 DEF Init, UnreadRequests
  <2> QED BY <2>1 DEF Init, Stream!StreamInit
<1>2. TypeInv /\ TypeInv' /\ OrderInv /\ OrderInv' /\ [Next]_vars => StreamStep
  BY EachStep
<1> QED
  BY <1>1, <1>2, TypeInvHolds, OrderInvHolds, PTL
  DEF Spec, StreamOfRequests, Stream!StreamSpec, StreamStep, Queue

=============================================================================
