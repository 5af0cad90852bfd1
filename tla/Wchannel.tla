----------------------------- MODULE Wchannel ------------------------------
(***************************************************************************)
(* The channels of wicom (src/wchannel_linux.c): messages over UDP.        *)
(*                                                                         *)
(* Any thread sends and receives; the Owners also load and unload the      *)
(* module, create channels and destroy them.  A channel is destroyed when  *)
(* no other thread is inside a call with it: nothing in the module could   *)
(* tell, the programs that use it see to it (modmgr_unload waits for the   *)
(* reader first).                                                          *)
(*                                                                         *)
(* The descriptors are those the module works with, Fds; the rest of the   *)
(* process does not open or close any of them.  A call that fails closes   *)
(* its last descriptor twice, and in between another owner may have been   *)
(* given the number: robbed remembers that this has happened.  Any         *)
(* datagram can arrive at a bound socket, at any time or never.  Channels  *)
(* of other types are refused.                                             *)
(***************************************************************************)
EXTENDS Integers, Sequences, FiniteSets

CONSTANTS
  Threads, Owners,
  Fds,            \* descriptors
  Channels,       \* addresses malloc can return
  Addresses,      \* addresses of hosts and ports
  MaxResolved,    \* bound: addresses of one host and port
  NoAddress

ASSUME WchannelAssumption ==
  /\ Owners \subseteq Threads
  /\ Fds \subseteq Nat \ {0}
  /\ MaxResolved \in Nat
  /\ NoAddress \notin Addresses

Debugs    == {"no debug", "dump callback", "message buffer"}
\* What getaddrinfo can return for a host and a port.
Resolutions == UNION {[1 .. n -> Addresses] : n \in 1 .. MaxResolved}

VARIABLES
  loaded, unloading,
  live,           \* the channels: created and not destroyed
  sock, debug,    \* of each channel: its socket, chan_opt.debug_opts
  files,          \* the open descriptors
  bound,          \* the address each of them is bound to
  robbed,         \* history: a second close has closed another's descriptor
  running,        \* the process has not been killed by a signal
  (* the call each thread is in, or its last one *)
  pc,
  fd,             \* sock in _wchannel_udp_create
  addrs,          \* rp: the addresses not tried yet
  chan,
  status,         \* what it returned
  moved, stored   \* messages it sent or received; those it showed the callback

module == <<loaded, unloading>>
chans  == <<live, sock, debug>>
kernel == <<files, bound, robbed>>
locals == <<pc, fd, addrs, chan, status, moved, stored>>
vars   == <<module, chans, kernel, running, locals>>

Init ==
  /\ loaded = FALSE
  /\ unloading = FALSE
  /\ live = {}
  /\ sock \in [Channels -> {0}]
  /\ debug \in [Channels -> {"no debug"}]
  /\ files = {}
  /\ bound = [f \in Fds |-> NoAddress]
  /\ robbed = FALSE
  /\ running = TRUE
  /\ pc = [t \in Threads |-> "idle"]
  /\ fd = [t \in Threads |-> 0]
  /\ addrs = [t \in Threads |-> <<>>]
  /\ chan \in [Threads -> Channels]
  /\ status = [t \in Threads |-> "FAILURE"]
  /\ moved = [t \in Threads |-> 0]
  /\ stored = [t \in Threads |-> 0]
-----------------------------------------------------------------------------
Goes(t, from, to) == pc[t] = from /\ pc' = [pc EXCEPT ![t] = to]

\* The call t is in returns; its locals are gone.
Returns(t, from, s) == /\ Goes(t, from, "idle")
                       /\ status' = [status EXCEPT ![t] = s]
                       /\ fd' = [fd EXCEPT ![t] = 0]
                       /\ addrs' = [addrs EXCEPT ![t] = <<>>]

\* A call begins.
Begins(t) == /\ moved' = [moved EXCEPT ![t] = 0]
             /\ stored' = [stored EXCEPT ![t] = 0]

\* The checks every call but wchannel_load begins with.
Usable == loaded /\ ~unloading

\* close() of a number: nothing happens when it is not an open descriptor.
Closes(f) == /\ files' = files \ {f}
             /\ bound' = [g \in Fds |-> IF g = f THEN NoAddress ELSE bound[g]]

\* A signal kills the process.
Dies == running' = FALSE /\ UNCHANGED <<module, chans, kernel, locals>>

\* A call that fails before it has done anything: the module is not loaded, or
\* unloading, or already loaded; an argument is missing or of a type that is
\* not supported; the destination has no port; getaddrinfo fails.
Refused(t) ==
  /\ Returns(t, "idle", "FAILURE")
  /\ Begins(t)
  /\ UNCHANGED <<module, chans, kernel, running, chan>>
-----------------------------------------------------------------------------
wchannel_load(t) ==
  /\ t \in Owners
  /\ ~loaded /\ ~unloading
  /\ loaded' = TRUE
  /\ Returns(t, "idle", "SUCCESS")
  /\ Begins(t)
  /\ UNCHANGED <<unloading, chans, kernel, running, chan>>

UnloadBegins(t) ==
  /\ t \in Owners
  /\ Usable
  /\ Goes(t, "idle", "unload")
  /\ unloading' = TRUE
  /\ Begins(t)
  /\ UNCHANGED <<loaded, chans, kernel, running, fd, addrs, chan, status>>

\* The channels stay as they are.
UnloadEnds(t) ==
  /\ Returns(t, "unload", "SUCCESS")
  /\ loaded' = FALSE
  /\ unloading' = FALSE
  /\ UNCHANGED <<chans, kernel, running, chan, moved, stored>>
-----------------------------------------------------------------------------
(***************************************************************************)
(* wchannel_create, _wchannel_udp_create                                   *)
(***************************************************************************)
CreateBegins(t) ==
  /\ t \in Owners
  /\ Usable
  /\ Goes(t, "idle", "create")
  /\ \E r \in Resolutions : addrs' = [addrs EXCEPT ![t] = r]
  /\ fd' = [fd EXCEPT ![t] = 0]
  /\ Begins(t)
  /\ UNCHANGED <<module, chans, kernel, running, chan, status>>

Opens(t) ==
  /\ addrs[t] # <<>>
  /\ Goes(t, "create", "opened")
  /\ \E f \in Fds \ files : /\ files' = files \cup {f}
                            /\ fd' = [fd EXCEPT ![t] = f]
  /\ UNCHANGED <<module, chans, bound, robbed, running, addrs, chan, status, moved, stored>>

BindsMinusOne(t) ==   \* fault: without the continue
  /\ addrs[t] # <<>>
  /\ Goes(t, "create", "opened")
  /\ fd' = [fd EXCEPT ![t] = -1]
  /\ UNCHANGED <<module, chans, kernel, running, addrs, chan, status, moved, stored>>

\* socket() fails.
OpenFails(t) ==
  /\ addrs[t] # <<>>
  /\ Goes(t, "create", "create")
  /\ fd' = [fd EXCEPT ![t] = -1]
  /\ addrs' = [addrs EXCEPT ![t] = Tail(@)]
  /\ UNCHANGED <<module, chans, kernel, running, chan, status, moved, stored>>

\* The kernel binds an open socket once, and one socket to an address.
Binds(t) ==
  /\ Goes(t, "opened", "setup")
  /\ fd[t] \in files /\ bound[fd[t]] = NoAddress
  /\ \A f \in Fds : bound[f] # Head(addrs[t])
  /\ bound' = [bound EXCEPT ![fd[t]] = Head(addrs[t])]
  /\ UNCHANGED <<module, chans, files, robbed, running, fd, addrs, chan, status, moved, stored>>

BindFailsOpen(t) ==   \* fault: without the close in the loop
  /\ Goes(t, "opened", "create")
  /\ addrs' = [addrs EXCEPT ![t] = Tail(@)]
  /\ UNCHANGED <<module, chans, kernel, running, fd, chan, status, moved, stored>>

\* The address is taken, in this process or another one, or the descriptor is
\* no unbound socket any more.
BindFails(t) ==
  /\ Goes(t, "opened", "create")
  /\ Closes(fd[t])
  /\ addrs' = [addrs EXCEPT ![t] = Tail(@)]
  /\ UNCHANGED <<module, chans, robbed, running, fd, chan, status, moved, stored>>

\* No address is left.  The last descriptor is closed again: this finds it closed,
\* or another's.
CreateFails(t) ==
  /\ addrs[t] = <<>>
  /\ Returns(t, "create", "FAILURE")
  /\ Closes(fd[t])
  /\ robbed' = (robbed \/ fd[t] \in files)
  /\ UNCHANGED <<module, chans, running, chan, moved, stored>>

CreatedClosed(t) ==   \* fault: the close behind the return is reached
  /\ Returns(t, "setup", "SUCCESS")
  /\ \E c \in Channels \ live, d \in Debugs :
       /\ live' = live \cup {c}
       /\ sock' = [sock EXCEPT ![c] = fd[t]]
       /\ debug' = [debug EXCEPT ![c] = d]
  /\ Closes(fd[t])
  /\ UNCHANGED <<module, robbed, running, chan, moved, stored>>

Created(t) ==
  /\ Returns(t, "setup", "SUCCESS")
  /\ \E c \in Channels \ live, d \in Debugs :
       /\ live' = live \cup {c}
       /\ sock' = [sock EXCEPT ![c] = fd[t]]
       /\ debug' = [debug EXCEPT ![c] = d]
  /\ UNCHANGED <<module, kernel, running, chan, moved, stored>>

\* No callback to dump to, no memory for the message buffer, unknown options.
SetupFails(t) ==
  /\ Returns(t, "setup", "FAILURE")
  /\ Closes(fd[t])
  /\ UNCHANGED <<module, chans, robbed, running, chan, moved, stored>>

\* malloc of the channel is not checked.
SetupDies(t) == pc[t] = "setup" /\ Dies
-----------------------------------------------------------------------------
(***************************************************************************)
(* wchannel_send, wchannel_receive                                         *)
(***************************************************************************)
SendBegins(t) ==
  /\ Usable
  /\ Goes(t, "idle", "send")
  /\ \E c \in live : chan' = [chan EXCEPT ![t] = c]
  /\ \E r \in Resolutions : addrs' = [addrs EXCEPT ![t] = r]
  /\ Begins(t)
  /\ UNCHANGED <<module, chans, kernel, running, fd, status>>

SendsToEach(t) ==   \* fault: the loop goes on after a sendto that succeeded
  /\ addrs[t] # <<>>
  /\ pc[t] = "send"
  /\ sock[chan[t]] \in files
  /\ moved' = [moved EXCEPT ![t] = @ + 1]
  /\ addrs' = [addrs EXCEPT ![t] = Tail(@)]
  /\ UNCHANGED <<module, chans, kernel, running, pc, fd, chan, status, stored>>

Sends(t) ==
  /\ addrs[t] # <<>>
  /\ Goes(t, "send", "history")
  /\ sock[chan[t]] \in files
  /\ moved' = [moved EXCEPT ![t] = @ + 1]
  /\ UNCHANGED <<module, chans, kernel, running, fd, addrs, chan, status, stored>>

\* sendto() fails for an address.
SendtoFails(t) ==
  /\ addrs[t] # <<>>
  /\ Goes(t, "send", "send")
  /\ addrs' = [addrs EXCEPT ![t] = Tail(@)]
  /\ UNCHANGED <<module, chans, kernel, running, fd, chan, status, moved, stored>>

SendFails(t) ==
  /\ addrs[t] = <<>>
  /\ Returns(t, "send", "FAILURE")
  /\ UNCHANGED <<module, chans, kernel, running, chan, moved, stored>>

ReceiveBegins(t) ==
  /\ Usable
  /\ Goes(t, "idle", "receive")
  /\ \E c \in live : chan' = [chan EXCEPT ![t] = c]
  /\ Begins(t)
  /\ UNCHANGED <<module, chans, kernel, running, fd, addrs, status>>

\* recv() waits for a datagram, which any program may send.
Receives(t) ==
  /\ Goes(t, "receive", "history")
  /\ sock[chan[t]] \in files
  /\ moved' = [moved EXCEPT ![t] = 1]
  /\ UNCHANGED <<module, chans, kernel, running, fd, addrs, chan, status, stored>>

\* An empty datagram is taken for the end of a connection.  It is gone.
ReceivesEmpty(t) ==
  /\ Returns(t, "receive", "FAILURE")
  /\ sock[chan[t]] \in files
  /\ moved' = [moved EXCEPT ![t] = 1]
  /\ UNCHANGED <<module, chans, kernel, running, chan, stored>>

\* recv() fails.
ReceiveFails(t) ==
  /\ Returns(t, "receive", "FAILURE")
  /\ UNCHANGED <<module, chans, kernel, running, chan, moved, stored>>

\* The report of that failure names one argument more than it is given, a
\* string, and prints what is found instead, if that can be printed.
ReceiveDies(t) == pc[t] = "receive" /\ Dies

\* What has been sent or received is shown to the callback, if there is one.
Stores(t) ==
  /\ debug[chan[t]] \in {"no debug", "dump callback"}
  /\ Returns(t, "history", "SUCCESS")
  /\ stored' = [stored EXCEPT ![t] = IF debug[chan[t]] = "dump callback" THEN 1 ELSE 0]
  /\ UNCHANGED <<module, chans, kernel, running, chan, moved>>

\* _msgbuf_insert: there is no memory for the entry.
StoreFails(t) ==
  /\ debug[chan[t]] = "message buffer"
  /\ Returns(t, "history", "SEMIFAIL")
  /\ UNCHANGED <<module, chans, kernel, running, chan, moved, stored>>

\* _msgbuf_insert: the size of the buffer was never set, its tail entry is looked
\* for 2^32 - 1 entries behind the list.
StoreDies(t) ==
  /\ debug[chan[t]] = "message buffer"
  /\ pc[t] = "history"
  /\ Dies
-----------------------------------------------------------------------------
InUse(c) == \E t \in Threads : pc[t] \in {"send", "receive", "history"} /\ chan[t] = c

\* The channel is freed, and what it held with it.
Destroys(t) ==
  /\ t \in Owners
  /\ Usable
  /\ \E c \in live :
       /\ ~InUse(c)
       /\ debug[c] # "message buffer"
       /\ Closes(sock[c])
       /\ live' = live \ {c}
       /\ sock' = [sock EXCEPT ![c] = 0]
       /\ debug' = [debug EXCEPT ![c] = "no debug"]
  /\ Returns(t, "idle", "SUCCESS")
  /\ Begins(t)
  /\ UNCHANGED <<module, robbed, running, chan>>

\* _msgbuf_free frees the inside of the channel.
DestroyDies(t) ==
  /\ t \in Owners
  /\ Usable
  /\ pc[t] = "idle"
  /\ \E c \in live : ~InUse(c) /\ debug[c] = "message buffer"
  /\ Dies

wchannel_destroy(t) == Destroys(t) \/ DestroyDies(t)
-----------------------------------------------------------------------------
Loading(t)   == wchannel_load(t) \/ UnloadBegins(t) \/ UnloadEnds(t)
Creating(t)  == \/ CreateBegins(t) \/ Opens(t) \/ OpenFails(t) \/ Binds(t)
                \/ BindFails(t) \/ CreateFails(t)
                \/ Created(t) \/ SetupFails(t) \/ SetupDies(t)
Sending(t)   == SendBegins(t) \/ Sends(t) \/ SendtoFails(t) \/ SendFails(t)
Receiving(t) == \/ ReceiveBegins(t) \/ Receives(t) \/ ReceivesEmpty(t)
                \/ ReceiveFails(t) \/ ReceiveDies(t)
Storing(t)   == Stores(t) \/ StoreFails(t) \/ StoreDies(t)

Step(t) == \/ Refused(t) \/ Loading(t) \/ Creating(t)
           \/ Sending(t) \/ Receiving(t) \/ Storing(t) \/ wchannel_destroy(t)

Next == running /\ \E t \in Threads : Step(t)

Spec == Init /\ [][Next]_vars
-----------------------------------------------------------------------------
(***************************************************************************)
(* What must hold.                                                         *)
(***************************************************************************)
PCs == {"idle", "unload", "create", "opened", "setup", "send", "receive", "history"}

\* The call t is in has a socket that belongs to no channel yet.
Holds(t) == pc[t] \in {"opened", "setup"}

StateOK ==
  /\ loaded \in BOOLEAN /\ unloading \in BOOLEAN
  /\ robbed \in BOOLEAN /\ running \in BOOLEAN
  /\ live \subseteq Channels
  /\ sock \in [Channels -> Fds \cup {0}]
  /\ debug \in [Channels -> Debugs]
  /\ files \subseteq Fds
  /\ bound \in [Fds -> Addresses \cup {NoAddress}]

LocalsOK ==
  /\ pc \in [Threads -> PCs]
  /\ fd \in [Threads -> Fds \cup {-1, 0}]
  /\ addrs \in [Threads -> Seq(Addresses)]
  /\ chan \in [Threads -> Channels]
  /\ status \in [Threads -> {"SUCCESS", "SEMIFAIL", "FAILURE"}]
  /\ moved \in [Threads -> Nat]
  /\ stored \in [Threads -> {0, 1}]

CallsOK ==
  \A t \in Threads :
    /\ pc[t] = "opened" => addrs[t] # <<>>
    /\ Holds(t) => fd[t] \in Fds
    /\ pc[t] \in {"send", "receive", "history"} => chan[t] \in live

\* Types; the descriptor a call binds or sets up is a socket, only open
\* descriptors are bound, a call works with a channel that exists.
TypeOK ==
  /\ StateOK /\ LocalsOK /\ CallsOK
  /\ \A f \in Fds \ files : bound[f] = NoAddress

\* No call that fails and no channel that is destroyed leaves a socket open, and
\* the port with it: each open one is that of a channel, or of a call that is
\* creating one (the ways out of _wchannel_udp_create and wchannel_create).
SocketsOwned ==
  \A f \in files : \/ \E c \in live : sock[c] = f
                   \/ \E t \in Threads : Holds(t) /\ fd[t] = f

\* A channel that exists can be used: its socket is open and bound, and neither
\* another channel nor a call that is creating one has it.
ChannelsUsable ==
  \A c \in live :
    /\ sock[c] \in files
    /\ bound[sock[c]] # NoAddress
    /\ \A d \in live : sock[c] = sock[d] => c = d
    /\ \A t \in Threads : Holds(t) => fd[t] # sock[c]

\* Of everything that can fail while channels are created, used and destroyed by
\* several threads, only the second close of a failing _wchannel_udp_create
\* (wchannel_linux.c:217-218) can take the socket of a channel, or give it to
\* two: until one has closed the descriptor of another, every channel is usable.
LiveSocketOpen == ~robbed => ChannelsUsable

\* t returns from wchannel_send or wchannel_receive in this step and says so.
TellsTruth(t) ==
  pc[t] \in {"send", "receive", "history"} /\ pc'[t] = "idle" =>
    /\ status'[t] # "FAILURE" => moved'[t] = 1
    /\ status'[t] = "FAILURE" => moved'[t] = 0 \/ (pc[t] = "receive" /\ moved'[t] = 1)
    /\ status'[t] = "SUCCESS" => stored'[t] = IF debug[chan[t]] = "no debug" THEN 0 ELSE 1
    /\ status'[t] = "SEMIFAIL" => stored'[t] = 0

\* What wchannel_send and wchannel_receive say when they return
\* (wchannel_linux.c:709-713): after SUCCESS and SEMIFAIL exactly one message was
\* sent or received, although an address may refuse it and the next one take it;
\* after SUCCESS the history has it, if the channel keeps one, after SEMIFAIL it
\* has not.  After FAILURE of a send none was sent.  FAILURE of a receive says
\* less: an empty message may have been taken.
StatusTellsTruth == [][\A t \in Threads : TellsTruth(t)]_vars
============================================================================
