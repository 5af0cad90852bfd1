--------------------------- MODULE WchannelProofs ---------------------------
(***************************************************************************)
(* Theorems about Wchannel, for any threads, owners, channels, descriptors *)
(* and addresses.                                                          *)
(***************************************************************************)
EXTENDS Wchannel, SequenceTheorems, TLAPS

\* A closed descriptor is bound to nothing.
ClosedUnbound == \A f \in Fds \ files : bound[f] = NoAddress

\* The socket a call holds is open, bound when it is set up, and no other call's.
HeldOpen ==
  \A t \in Threads :
    /\ Holds(t) => fd[t] \in files
    /\ pc[t] = "setup" => bound[fd[t]] # NoAddress
    /\ \A u \in Threads : Holds(t) /\ Holds(u) /\ fd[t] = fd[u] => t = u

\* As long as no second close has hit a descriptor of another,
Descriptors == ~robbed => HeldOpen

\* The inductive invariant: LiveSocketOpen depends on what the calls that create
\* hold, for one of them becomes the next channel.
IInv == /\ StateOK /\ LocalsOK /\ CallsOK /\ ClosedUnbound
        /\ Descriptors /\ SocketsOwned /\ LiveSocketOpen

LEMMA ResolutionsAreSequences == \A r \in Resolutions : r \in Seq(Addresses) /\ r # <<>>
  BY WchannelAssumption DEF Resolutions

LEMMA HeadAndTail ==
  ASSUME NEW s \in Seq(Addresses), s # <<>>
  PROVE  Head(s) \in Addresses /\ Tail(s) \in Seq(Addresses)
  OBVIOUS

LEMMA Empty == <<>> \in Seq(Addresses)
  BY EmptySeq, Zenon

LEMMA NotDescriptors == 0 \notin Fds /\ -1 \notin Fds
  BY WchannelAssumption

LEMMA InitHolds == Init => IInv
  <1> SUFFICES ASSUME Init PROVE IInv
    OBVIOUS
  <1> USE DEF Init, Holds
  <1>1. StateOK
    BY DEF StateOK, Debugs
  <1>2. LocalsOK
    <2>1. fd \in [Threads -> Fds \cup {-1, 0}] /\ addrs \in [Threads -> Seq(Addresses)]
      BY Empty
    <2>2. pc \in [Threads -> PCs] /\ stored \in [Threads -> {0, 1}]
      BY DEF PCs
    <2>3. /\ chan \in [Threads -> Channels] /\ moved \in [Threads -> Nat]
          /\ status \in [Threads -> {"SUCCESS", "SEMIFAIL", "FAILURE"}]
      OBVIOUS
    <2>4. QED
      BY <2>1, <2>2, <2>3 DEF LocalsOK
  <1>3. CallsOK
    BY DEF CallsOK
  <1>4. ClosedUnbound /\ Descriptors
    BY DEF ClosedUnbound, Descriptors, HeldOpen
  <1>5. SocketsOwned /\ LiveSocketOpen
    BY DEF SocketsOwned, LiveSocketOpen, ChannelsUsable
  <1>6. QED
    BY <1>1, <1>2, <1>3, <1>4, <1>5 DEF IInv
-----------------------------------------------------------------------------

\* Destroying, one conjunct for each variable the invariant reads.
DestroysOne(t, c) ==
  /\ pc[t] = "idle" /\ ~InUse(c)
  /\ files' = files \ {sock[c]}
  /\ bound' = [g \in Fds |-> IF g = sock[c] THEN NoAddress ELSE bound[g]]
  /\ live' = live \ {c}
  /\ sock' = [sock EXCEPT ![c] = 0]
  /\ debug' = [debug EXCEPT ![c] = "no debug"]
  /\ pc' = [pc EXCEPT ![t] = "idle"]
  /\ fd' = [fd EXCEPT ![t] = 0]
  /\ UNCHANGED <<loaded, unloading, robbed, running>>

LEMMA DestroyIsOne ==
  ASSUME NEW t \in Threads, Destroys(t)
  PROVE  \E c \in live : DestroysOne(t, c)
  BY DEF Destroys, DestroysOne, Closes, Returns, Goes, module

\* The types of the state.
LEMMA StepStateOK ==
  ASSUME StateOK, LocalsOK, CallsOK, NEW t \in Threads, Step(t)
  PROVE  StateOK'
  <1> USE DEF StateOK, LocalsOK, CallsOK, Holds, module, chans, kernel, locals
  <1>1. CASE Refused(t)
    BY <1>1 DEF Refused, Returns, Goes, Begins
  <1>2. CASE Loading(t)
    <2>1. CASE wchannel_load(t)
      BY <2>1 DEF wchannel_load, Returns, Goes, Begins
    <2>2. CASE UnloadBegins(t)
      BY <2>2 DEF UnloadBegins, Goes, Begins
    <2>3. CASE UnloadEnds(t)
      BY <2>3 DEF UnloadEnds, Returns, Goes
    <2>4. QED
      BY <1>2, <2>1, <2>2, <2>3 DEF Loading
  <1>3. CASE Creating(t)
    <2>1. CASE CreateBegins(t)
      BY <2>1 DEF CreateBegins, Goes, Begins
    <2>2. CASE Opens(t)
      BY <2>2 DEF Opens, Goes
    <2>3. CASE OpenFails(t)
      BY <2>3 DEF OpenFails, Goes
    <2>4. CASE Binds(t)
      <3>1. Head(addrs[t]) \in Addresses
        BY <2>4, HeadAndTail DEF Binds, Goes
      <3>2. QED
        BY <2>4, <3>1 DEF Binds, Goes
    <2>5. CASE BindFails(t)
      BY <2>5 DEF BindFails, Goes, Closes
    <2>6. CASE CreateFails(t)
      BY <2>6 DEF CreateFails, Returns, Goes, Closes
    <2>7. CASE Created(t)
      <3>1. PICK c \in Channels \ live, d \in Debugs :
              /\ live' = live \cup {c}
              /\ sock' = [sock EXCEPT ![c] = fd[t]]
              /\ debug' = [debug EXCEPT ![c] = d]
        BY <2>7 DEF Created
      <3>2. QED
        BY <2>7, <3>1 DEF Created, Returns, Goes
    <2>8. CASE SetupFails(t)
      BY <2>8 DEF SetupFails, Returns, Goes, Closes
    <2>9. CASE SetupDies(t)
      BY <2>9 DEF SetupDies, Dies
    <2>10. QED
      BY <1>3, <2>1, <2>2, <2>3, <2>4, <2>5, <2>6, <2>7, <2>8, <2>9 DEF Creating
  <1>4. CASE Sending(t)
    <2>1. CASE SendBegins(t)
      BY <2>1 DEF SendBegins, Goes, Begins
    <2>2. CASE Sends(t)
      BY <2>2 DEF Sends, Goes
    <2>3. CASE SendtoFails(t)
      BY <2>3 DEF SendtoFails, Goes
    <2>4. CASE SendFails(t)
      BY <2>4 DEF SendFails, Returns, Goes
    <2>5. QED
      BY <1>4, <2>1, <2>2, <2>3, <2>4 DEF Sending
  <1>5. CASE Receiving(t)
    <2>1. CASE ReceiveBegins(t)
      BY <2>1 DEF ReceiveBegins, Goes, Begins
    <2>2. CASE Receives(t)
      BY <2>2 DEF Receives, Goes
    <2>3. CASE ReceiveFails(t)
      BY <2>3 DEF ReceiveFails, Returns, Goes
    <2>4. CASE ReceivesEmpty(t)
      BY <2>4, Empty DEF ReceivesEmpty, Returns, Goes
    <2>5. CASE ReceiveDies(t)
      BY <2>5 DEF ReceiveDies, Dies
    <2>6. QED
      BY <1>5, <2>1, <2>2, <2>3, <2>4, <2>5 DEF Receiving
  <1>6. CASE Storing(t)
    <2>1. CASE Stores(t)
      BY <2>1 DEF Stores, Returns, Goes
    <2>2. CASE StoreFails(t)
      BY <2>2 DEF StoreFails, Returns, Goes
    <2>3. CASE StoreDies(t)
      BY <2>3 DEF StoreDies, Dies
    <2>4. QED
      BY <1>6, <2>1, <2>2, <2>3 DEF Storing
  <1>7. CASE wchannel_destroy(t)
    <2>1. CASE Destroys(t)
      <3>1. PICK c \in live : DestroysOne(t, c)
        BY <2>1, DestroyIsOne
      <3> USE <3>1 DEF DestroysOne
      <3>2. sock' \in [Channels -> Fds \cup {0}] /\ debug' \in [Channels -> Debugs]
        BY DEF Debugs
      <3>3. bound' \in [Fds -> Addresses \cup {NoAddress}]
        OBVIOUS
      <3>4. QED
        BY <3>2, <3>3
    <2>2. CASE DestroyDies(t)
      BY <2>2 DEF DestroyDies, Dies
    <2>3. QED
      BY <1>7, <2>1, <2>2 DEF wchannel_destroy
  <1>8. QED
    BY <1>1, <1>2, <1>3, <1>4, <1>5, <1>6, <1>7 DEF Step

\* The types of the calls.
LEMMA StepLocalsOK ==
  ASSUME StateOK, LocalsOK, CallsOK, NEW t \in Threads, Step(t)
  PROVE  LocalsOK'
  <1> USE DEF LocalsOK, PCs, module, chans, kernel, locals
  <1>1. CASE Refused(t)
    BY <1>1, Empty DEF Refused, Returns, Goes, Begins
  <1>2. CASE Loading(t)
    <2>1. CASE wchannel_load(t)
      BY <2>1, Empty DEF wchannel_load, Returns, Goes, Begins
    <2>2. CASE UnloadBegins(t)
      BY <2>2 DEF UnloadBegins, Goes, Begins
    <2>3. CASE UnloadEnds(t)
      BY <2>3, Empty DEF UnloadEnds, Returns, Goes
    <2>4. QED
      BY <1>2, <2>1, <2>2, <2>3 DEF Loading
  <1>3. CASE Creating(t)
    <2>1. CASE CreateBegins(t)
      <3>1. PICK r \in Resolutions : addrs' = [addrs EXCEPT ![t] = r]
        BY <2>1 DEF CreateBegins
      <3>2. r \in Seq(Addresses)
        BY ResolutionsAreSequences
      <3>3. QED
        BY <2>1, <3>1, <3>2 DEF CreateBegins, Goes, Begins, StateOK
    <2>2. CASE Opens(t)
      BY <2>2 DEF Opens, Goes, StateOK
    <2>3. CASE OpenFails(t)
      <3>1. addrs[t] \in Seq(Addresses) /\ addrs[t] # <<>>
        BY <2>3 DEF OpenFails, Goes, CallsOK
      <3>2. Tail(addrs[t]) \in Seq(Addresses)
        BY <3>1, HeadAndTail
      <3>3. QED
        BY <2>3, <3>2 DEF OpenFails, Goes
    <2>4. CASE Binds(t)
      BY <2>4 DEF Binds, Goes
    <2>5. CASE BindFails(t)
      <3>1. addrs[t] \in Seq(Addresses) /\ addrs[t] # <<>>
        BY <2>5 DEF BindFails, Goes, CallsOK
      <3>2. Tail(addrs[t]) \in Seq(Addresses)
        BY <3>1, HeadAndTail
      <3>3. QED
        BY <2>5, <3>2 DEF BindFails, Goes, Closes
    <2>6. CASE CreateFails(t)
      BY <2>6, Empty DEF CreateFails, Returns, Goes, Closes
    <2>7. CASE Created(t)
      BY <2>7, Empty DEF Created, Returns, Goes
    <2>8. CASE SetupFails(t)
      BY <2>8, Empty DEF SetupFails, Returns, Goes, Closes
    <2>9. CASE SetupDies(t)
      BY <2>9 DEF SetupDies, Dies
    <2>10. QED
      BY <1>3, <2>1, <2>2, <2>3, <2>4, <2>5, <2>6, <2>7, <2>8, <2>9 DEF Creating
  <1>4. CASE Sending(t)
    <2>1. CASE SendBegins(t)
      <3>1. PICK r \in Resolutions : addrs' = [addrs EXCEPT ![t] = r]
        BY <2>1 DEF SendBegins
      <3>2. r \in Seq(Addresses)
        BY ResolutionsAreSequences
      <3>3. QED
        BY <2>1, <3>1, <3>2 DEF SendBegins, Goes, Begins, StateOK
    <2>2. CASE Sends(t)
      BY <2>2 DEF Sends, Goes
    <2>3. CASE SendtoFails(t)
      <3>1. addrs[t] \in Seq(Addresses) /\ addrs[t] # <<>>
        BY <2>3 DEF SendtoFails, Goes, CallsOK
      <3>2. Tail(addrs[t]) \in Seq(Addresses)
        BY <3>1, HeadAndTail
      <3>3. QED
        BY <2>3, <3>2 DEF SendtoFails, Goes
    <2>4. CASE SendFails(t)
      BY <2>4, Empty DEF SendFails, Returns, Goes
    <2>5. QED
      BY <1>4, <2>1, <2>2, <2>3, <2>4 DEF Sending
  <1>5. CASE Receiving(t)
    <2>1. CASE ReceiveBegins(t)
      BY <2>1 DEF ReceiveBegins, Goes, Begins, StateOK
    <2>2. CASE Receives(t)
      BY <2>2 DEF Receives, Goes
    <2>3. CASE ReceiveFails(t)
      BY <2>3, Empty DEF ReceiveFails, Returns, Goes
    <2>4. CASE ReceivesEmpty(t)
      BY <2>4, Empty DEF ReceivesEmpty, Returns, Goes
    <2>5. CASE ReceiveDies(t)
      BY <2>5 DEF ReceiveDies, Dies
    <2>6. QED
      BY <1>5, <2>1, <2>2, <2>3, <2>4, <2>5 DEF Receiving
  <1>6. CASE Storing(t)
    <2>1. CASE Stores(t)
      <3>1. stored' \in [Threads -> {0, 1}]
        BY <2>1 DEF Stores
      <3>2. QED
        BY <2>1, <3>1, Empty DEF Stores, Returns, Goes
    <2>2. CASE StoreFails(t)
      BY <2>2, Empty DEF StoreFails, Returns, Goes
    <2>3. CASE StoreDies(t)
      BY <2>3 DEF StoreDies, Dies
    <2>4. QED
      BY <1>6, <2>1, <2>2, <2>3 DEF Storing
  <1>7. CASE wchannel_destroy(t)
    <2>1. CASE Destroys(t)
      BY <2>1, Empty DEF Destroys, Returns, Goes, Begins
    <2>2. CASE DestroyDies(t)
      BY <2>2 DEF DestroyDies, Dies
    <2>3. QED
      BY <1>7, <2>1, <2>2 DEF wchannel_destroy
  <1>8. QED
    BY <1>1, <1>2, <1>3, <1>4, <1>5, <1>6, <1>7 DEF Step

\* What a call works with.
LEMMA StepCallsOK ==
  ASSUME StateOK, LocalsOK, CallsOK, NEW t \in Threads, Step(t)
  PROVE  CallsOK'
  <1> USE DEF StateOK, LocalsOK, CallsOK, Holds, module, chans, kernel, locals
  <1>1. CASE Refused(t)
    BY <1>1 DEF Refused, Returns, Goes, Begins
  <1>2. CASE Loading(t)
    <2>1. CASE wchannel_load(t)
      BY <2>1 DEF wchannel_load, Returns, Goes, Begins
    <2>2. CASE UnloadBegins(t)
      BY <2>2 DEF UnloadBegins, Goes, Begins
    <2>3. CASE UnloadEnds(t)
      BY <2>3 DEF UnloadEnds, Returns, Goes
    <2>4. QED
      BY <1>2, <2>1, <2>2, <2>3 DEF Loading
  <1>3. CASE Creating(t)
    <2>1. CASE CreateBegins(t)
      BY <2>1 DEF CreateBegins, Goes, Begins
    <2>2. CASE Opens(t)
      BY <2>2 DEF Opens, Goes
    <2>3. CASE OpenFails(t)
      BY <2>3 DEF OpenFails, Goes
    <2>4. CASE Binds(t)
      BY <2>4 DEF Binds, Goes
    <2>5. CASE BindFails(t)
      BY <2>5 DEF BindFails, Goes, Closes
    <2>6. CASE CreateFails(t)
      BY <2>6 DEF CreateFails, Returns, Goes, Closes
    <2>7. CASE Created(t)
      BY <2>7 DEF Created, Returns, Goes
    <2>8. CASE SetupFails(t)
      BY <2>8 DEF SetupFails, Returns, Goes, Closes
    <2>9. CASE SetupDies(t)
      BY <2>9 DEF SetupDies, Dies
    <2>10. QED
      BY <1>3, <2>1, <2>2, <2>3, <2>4, <2>5, <2>6, <2>7, <2>8, <2>9 DEF Creating
  <1>4. CASE Sending(t)
    <2>1. CASE SendBegins(t)
      BY <2>1 DEF SendBegins, Goes, Begins
    <2>2. CASE Sends(t)
      BY <2>2 DEF Sends, Goes
    <2>3. CASE SendtoFails(t)
      BY <2>3 DEF SendtoFails, Goes
    <2>4. CASE SendFails(t)
      BY <2>4 DEF SendFails, Returns, Goes
    <2>5. QED
      BY <1>4, <2>1, <2>2, <2>3, <2>4 DEF Sending
  <1>5. CASE Receiving(t)
    <2>1. CASE ReceiveBegins(t)
      BY <2>1 DEF ReceiveBegins, Goes, Begins
    <2>2. CASE Receives(t)
      BY <2>2 DEF Receives, Goes
    <2>3. CASE ReceiveFails(t)
      BY <2>3 DEF ReceiveFails, Returns, Goes
    <2>4. CASE ReceivesEmpty(t)
      BY <2>4, Empty DEF ReceivesEmpty, Returns, Goes
    <2>5. CASE ReceiveDies(t)
      BY <2>5 DEF ReceiveDies, Dies
    <2>6. QED
      BY <1>5, <2>1, <2>2, <2>3, <2>4, <2>5 DEF Receiving
  <1>6. CASE Storing(t)
    <2>1. CASE Stores(t)
      BY <2>1 DEF Stores, Returns, Goes
    <2>2. CASE StoreFails(t)
      BY <2>2 DEF StoreFails, Returns, Goes
    <2>3. CASE StoreDies(t)
      BY <2>3 DEF StoreDies, Dies
    <2>4. QED
      BY <1>6, <2>1, <2>2, <2>3 DEF Storing
  <1>7. CASE wchannel_destroy(t)
    <2>1. CASE Destroys(t)
      BY <2>1 DEF Destroys, Returns, Goes, Begins, Closes, InUse
    <2>2. CASE DestroyDies(t)
      BY <2>2 DEF DestroyDies, Dies
    <2>3. QED
      BY <1>7, <2>1, <2>2 DEF wchannel_destroy
  <1>8. QED
    BY <1>1, <1>2, <1>3, <1>4, <1>5, <1>6, <1>7 DEF Step

\* Descriptors that are closed.
LEMMA StepClosedUnbound ==
  ASSUME StateOK, LocalsOK, CallsOK, ClosedUnbound, NEW t \in Threads, Step(t)
  PROVE  ClosedUnbound'
  <1> USE DEF StateOK, LocalsOK, CallsOK, ClosedUnbound, Holds, module, chans, kernel, locals
  <1>1. CASE Refused(t)
    BY <1>1 DEF Refused, Returns, Goes, Begins
  <1>2. CASE Loading(t)
    <2>1. CASE wchannel_load(t)
      BY <2>1 DEF wchannel_load, Returns, Goes, Begins
    <2>2. CASE UnloadBegins(t)
      BY <2>2 DEF UnloadBegins, Goes, Begins
    <2>3. CASE UnloadEnds(t)
      BY <2>3 DEF UnloadEnds, Returns, Goes
    <2>4. QED
      BY <1>2, <2>1, <2>2, <2>3 DEF Loading
  <1>3. CASE Creating(t)
    <2>1. CASE CreateBegins(t)
      BY <2>1 DEF CreateBegins, Goes, Begins
    <2>2. CASE Opens(t)
      BY <2>2 DEF Opens, Goes
    <2>3. CASE OpenFails(t)
      BY <2>3 DEF OpenFails, Goes
    <2>4. CASE Binds(t)
      BY <2>4 DEF Binds, Goes
    <2>5. CASE BindFails(t)
      BY <2>5 DEF BindFails, Goes, Closes
    <2>6. CASE CreateFails(t)
      BY <2>6 DEF CreateFails, Returns, Goes, Closes
    <2>7. CASE Created(t)
      BY <2>7 DEF Created, Returns, Goes
    <2>8. CASE SetupFails(t)
      BY <2>8 DEF SetupFails, Returns, Goes, Closes
    <2>9. CASE SetupDies(t)
      BY <2>9 DEF SetupDies, Dies
    <2>10. QED
      BY <1>3, <2>1, <2>2, <2>3, <2>4, <2>5, <2>6, <2>7, <2>8, <2>9 DEF Creating
  <1>4. CASE Sending(t)
    <2>1. CASE SendBegins(t)
      BY <2>1 DEF SendBegins, Goes, Begins
    <2>2. CASE Sends(t)
      BY <2>2 DEF Sends, Goes
    <2>3. CASE SendtoFails(t)
      BY <2>3 DEF SendtoFails, Goes
    <2>4. CASE SendFails(t)
      BY <2>4 DEF SendFails, Returns, Goes
    <2>5. QED
      BY <1>4, <2>1, <2>2, <2>3, <2>4 DEF Sending
  <1>5. CASE Receiving(t)
    <2>1. CASE ReceiveBegins(t)
      BY <2>1 DEF ReceiveBegins, Goes, Begins
    <2>2. CASE Receives(t)
      BY <2>2 DEF Receives, Goes
    <2>3. CASE ReceiveFails(t)
      BY <2>3 DEF ReceiveFails, Returns, Goes
    <2>4. CASE ReceivesEmpty(t)
      BY <2>4, Empty DEF ReceivesEmpty, Returns, Goes
    <2>5. CASE ReceiveDies(t)
      BY <2>5 DEF ReceiveDies, Dies
    <2>6. QED
      BY <1>5, <2>1, <2>2, <2>3, <2>4, <2>5 DEF Receiving
  <1>6. CASE Storing(t)
    <2>1. CASE Stores(t)
      BY <2>1 DEF Stores, Returns, Goes
    <2>2. CASE StoreFails(t)
      BY <2>2 DEF StoreFails, Returns, Goes
    <2>3. CASE StoreDies(t)
      BY <2>3 DEF StoreDies, Dies
    <2>4. QED
      BY <1>6, <2>1, <2>2, <2>3 DEF Storing
  <1>7. CASE wchannel_destroy(t)
    <2>1. CASE Destroys(t)
      <3>1. PICK c \in live : DestroysOne(t, c)
        BY <2>1, DestroyIsOne
      <3> USE <3>1 DEF DestroysOne
      <3>2. QED
        OBVIOUS
    <2>2. CASE DestroyDies(t)
      BY <2>2 DEF DestroyDies, Dies
    <2>3. QED
      BY <1>7, <2>1, <2>2 DEF wchannel_destroy
  <1>8. QED
    BY <1>1, <1>2, <1>3, <1>4, <1>5, <1>6, <1>7 DEF Step

\* What a call that creates holds, unless another loses a descriptor.
LEMMA StepHeldOpen ==
  ASSUME StateOK, LocalsOK, CallsOK, HeldOpen, ChannelsUsable,
         NEW t \in Threads, Step(t), ~robbed, ~robbed'
  PROVE  HeldOpen'
  <1> USE DEF StateOK, LocalsOK, CallsOK, HeldOpen, Holds, module, chans, kernel, locals
  <1>1. CASE Refused(t)
    BY <1>1 DEF Refused, Returns, Goes, Begins
  <1>2. CASE Loading(t)
    <2>1. CASE wchannel_load(t)
      BY <2>1 DEF wchannel_load, Returns, Goes, Begins
    <2>2. CASE UnloadBegins(t)
      BY <2>2 DEF UnloadBegins, Goes, Begins
    <2>3. CASE UnloadEnds(t)
      BY <2>3 DEF UnloadEnds, Returns, Goes
    <2>4. QED
      BY <1>2, <2>1, <2>2, <2>3 DEF Loading
  <1>3. CASE Creating(t)
    <2>1. CASE CreateBegins(t)
      BY <2>1, NotDescriptors DEF CreateBegins, Goes, Begins
    <2>2. CASE Opens(t)
      BY <2>2 DEF Opens, Goes
    <2>3. CASE OpenFails(t)
      BY <2>3, NotDescriptors DEF OpenFails, Goes
    <2>4. CASE Binds(t)
      <3>1. Head(addrs[t]) # NoAddress
        BY <2>4, HeadAndTail, WchannelAssumption DEF Binds, Goes
      <3>2. QED
        BY <2>4, <3>1 DEF Binds, Goes
    <2>5. CASE BindFails(t)
      BY <2>5 DEF BindFails, Goes, Closes
    <2>6. CASE CreateFails(t)
      BY <2>6 DEF CreateFails, Returns, Goes, Closes
    <2>7. CASE Created(t)
      BY <2>7 DEF Created, Returns, Goes
    <2>8. CASE SetupFails(t)
      BY <2>8 DEF SetupFails, Returns, Goes, Closes
    <2>9. CASE SetupDies(t)
      BY <2>9 DEF SetupDies, Dies
    <2>10. QED
      BY <1>3, <2>1, <2>2, <2>3, <2>4, <2>5, <2>6, <2>7, <2>8, <2>9 DEF Creating
  <1>4. CASE Sending(t)
    <2>1. CASE SendBegins(t)
      BY <2>1 DEF SendBegins, Goes, Begins
    <2>2. CASE Sends(t)
      BY <2>2 DEF Sends, Goes
    <2>3. CASE SendtoFails(t)
      BY <2>3 DEF SendtoFails, Goes
    <2>4. CASE SendFails(t)
      BY <2>4 DEF SendFails, Returns, Goes
    <2>5. QED
      BY <1>4, <2>1, <2>2, <2>3, <2>4 DEF Sending
  <1>5. CASE Receiving(t)
    <2>1. CASE ReceiveBegins(t)
      BY <2>1 DEF ReceiveBegins, Goes, Begins
    <2>2. CASE Receives(t)
      BY <2>2 DEF Receives, Goes
    <2>3. CASE ReceiveFails(t)
      BY <2>3 DEF ReceiveFails, Returns, Goes
    <2>4. CASE ReceivesEmpty(t)
      BY <2>4, Empty DEF ReceivesEmpty, Returns, Goes
    <2>5. CASE ReceiveDies(t)
      BY <2>5 DEF ReceiveDies, Dies
    <2>6. QED
      BY <1>5, <2>1, <2>2, <2>3, <2>4, <2>5 DEF Receiving
  <1>6. CASE Storing(t)
    <2>1. CASE Stores(t)
      BY <2>1 DEF Stores, Returns, Goes
    <2>2. CASE StoreFails(t)
      BY <2>2 DEF StoreFails, Returns, Goes
    <2>3. CASE StoreDies(t)
      BY <2>3 DEF StoreDies, Dies
    <2>4. QED
      BY <1>6, <2>1, <2>2, <2>3 DEF Storing
  <1>7. CASE wchannel_destroy(t)
    <2>1. CASE Destroys(t)
      <3>1. PICK c \in live : DestroysOne(t, c)
        BY <2>1, DestroyIsOne
      <3> USE <3>1 DEF DestroysOne
      <3>2. \A u \in Threads : Holds(u)' => Holds(u) /\ fd'[u] = fd[u] /\ pc'[u] = pc[u]
        OBVIOUS
      <3>3. \A u \in Threads : Holds(u) => fd[u] # sock[c]
        BY DEF ChannelsUsable
      <3>4. \A u \in Threads : Holds(u)' => fd'[u] \in files'
        BY <3>2, <3>3
      <3>5. \A u \in Threads : pc'[u] = "setup" => bound'[fd'[u]] # NoAddress
        BY <3>2, <3>3
      <3>5a. \A u, v \in Threads : Holds(u) /\ Holds(v) /\ fd[u] = fd[v] => u = v
        OBVIOUS
      <3>6. \A u, v \in Threads : Holds(u)' /\ Holds(v)' /\ fd'[u] = fd'[v] => u = v
        <4> HIDE <3>1 DEF DestroysOne, Holds, StateOK, LocalsOK, CallsOK, HeldOpen
        <4>1. QED
          BY <3>2, <3>5a
      <3>7. QED
        <4> HIDE <3>1 DEF DestroysOne, Holds
        <4>1. QED
          BY <3>4, <3>5, <3>6
    <2>2. CASE DestroyDies(t)
      BY <2>2 DEF DestroyDies, Dies
    <2>3. QED
      BY <1>7, <2>1, <2>2 DEF wchannel_destroy
  <1>8. QED
    BY <1>1, <1>2, <1>3, <1>4, <1>5, <1>6, <1>7 DEF Step

\* Every open socket has an owner.
LEMMA StepSocketsOwned ==
  ASSUME StateOK, LocalsOK, CallsOK, SocketsOwned, NEW t \in Threads, Step(t)
  PROVE  SocketsOwned'
  <1> USE DEF StateOK, LocalsOK, CallsOK, SocketsOwned, Holds, module, chans, kernel, locals
  <1>1. CASE Refused(t)
    BY <1>1 DEF Refused, Returns, Goes, Begins
  <1>2. CASE Loading(t)
    <2>1. CASE wchannel_load(t)
      BY <2>1 DEF wchannel_load, Returns, Goes, Begins
    <2>2. CASE UnloadBegins(t)
      BY <2>2 DEF UnloadBegins, Goes, Begins
    <2>3. CASE UnloadEnds(t)
      BY <2>3 DEF UnloadEnds, Returns, Goes
    <2>4. QED
      BY <1>2, <2>1, <2>2, <2>3 DEF Loading
  <1>3. CASE Creating(t)
    <2>1. CASE CreateBegins(t)
      BY <2>1 DEF CreateBegins, Goes, Begins
    <2>2. CASE Opens(t)
      <3>1. PICK f \in Fds \ files : files' = files \cup {f} /\ fd' = [fd EXCEPT ![t] = f]
        BY <2>2 DEF Opens
      <3>2. ASSUME NEW g \in files'
            PROVE  (\E c \in live' : sock'[c] = g) \/ (\E u \in Threads : Holds(u)' /\ fd'[u] = g)
        <4>1. CASE g = f
          BY <2>2, <3>1, <4>1 DEF Opens, Goes
        <4>2. CASE \E c \in live : sock[c] = g
          BY <2>2, <4>2 DEF Opens
        <4>3. CASE \E u \in Threads : Holds(u) /\ fd[u] = g
          <5>1. PICK u \in Threads : Holds(u) /\ fd[u] = g
            BY <4>3
          <5>2. u # t
            BY <2>2, <5>1 DEF Opens, Goes
          <5>3. Holds(u)' /\ fd'[u] = g
            BY <2>2, <3>1, <5>1, <5>2 DEF Opens, Goes
          <5>4. QED
            BY <5>3
        <4>4. QED
          BY <3>1, <3>2, <4>1, <4>2, <4>3
      <3>3. QED
        BY <3>2
    <2>3. CASE OpenFails(t)
      BY <2>3 DEF OpenFails, Goes
    <2>4. CASE Binds(t)
      BY <2>4 DEF Binds, Goes
    <2>5. CASE BindFails(t)
      BY <2>5 DEF BindFails, Goes, Closes
    <2>6. CASE CreateFails(t)
      BY <2>6 DEF CreateFails, Returns, Goes, Closes
    <2>7. CASE Created(t)
      <3>1. PICK c \in Channels \ live, d \in Debugs :
              /\ live' = live \cup {c}
              /\ sock' = [sock EXCEPT ![c] = fd[t]]
              /\ debug' = [debug EXCEPT ![c] = d]
        BY <2>7 DEF Created
      <3>2. QED
        BY <2>7, <3>1 DEF Created, Returns, Goes
    <2>8. CASE SetupFails(t)
      BY <2>8 DEF SetupFails, Returns, Goes, Closes
    <2>9. CASE SetupDies(t)
      BY <2>9 DEF SetupDies, Dies
    <2>10. QED
      BY <1>3, <2>1, <2>2, <2>3, <2>4, <2>5, <2>6, <2>7, <2>8, <2>9 DEF Creating
  <1>4. CASE Sending(t)
    <2>1. CASE SendBegins(t)
      BY <2>1 DEF SendBegins, Goes, Begins
    <2>2. CASE Sends(t)
      BY <2>2 DEF Sends, Goes
    <2>3. CASE SendtoFails(t)
      BY <2>3 DEF SendtoFails, Goes
    <2>4. CASE SendFails(t)
      BY <2>4 DEF SendFails, Returns, Goes
    <2>5. QED
      BY <1>4, <2>1, <2>2, <2>3, <2>4 DEF Sending
  <1>5. CASE Receiving(t)
    <2>1. CASE ReceiveBegins(t)
      BY <2>1 DEF ReceiveBegins, Goes, Begins
    <2>2. CASE Receives(t)
      BY <2>2 DEF Receives, Goes
    <2>3. CASE ReceiveFails(t)
      BY <2>3 DEF ReceiveFails, Returns, Goes
    <2>4. CASE ReceivesEmpty(t)
      BY <2>4, Empty DEF ReceivesEmpty, Returns, Goes
    <2>5. CASE ReceiveDies(t)
      BY <2>5 DEF ReceiveDies, Dies
    <2>6. QED
      BY <1>5, <2>1, <2>2, <2>3, <2>4, <2>5 DEF Receiving
  <1>6. CASE Storing(t)
    <2>1. CASE Stores(t)
      BY <2>1 DEF Stores, Returns, Goes
    <2>2. CASE StoreFails(t)
      BY <2>2 DEF StoreFails, Returns, Goes
    <2>3. CASE StoreDies(t)
      BY <2>3 DEF StoreDies, Dies
    <2>4. QED
      BY <1>6, <2>1, <2>2, <2>3 DEF Storing
  <1>7. CASE wchannel_destroy(t)
    <2>1. CASE Destroys(t)
      <3>1. PICK c \in live : DestroysOne(t, c)
        BY <2>1, DestroyIsOne
      <3> USE <3>1 DEF DestroysOne
      <3>2. ASSUME NEW f \in files'
            PROVE  (\E d \in live' : sock'[d] = f) \/ (\E u \in Threads : Holds(u)' /\ fd'[u] = f)
        <4>1. f \in files /\ f # sock[c]
          OBVIOUS
        <4>2. CASE \E d \in live : sock[d] = f
          <5>1. PICK d \in live : sock[d] = f
            BY <4>2
          <5>2. d \in live' /\ sock'[d] = f
            BY <4>1, <5>1
          <5>3. QED
            BY <5>2
        <4>3. CASE \E u \in Threads : Holds(u) /\ fd[u] = f
          <5>1. PICK u \in Threads : Holds(u) /\ fd[u] = f
            BY <4>3
          <5>2. Holds(u)' /\ fd'[u] = f
            BY <5>1
          <5>3. QED
            BY <5>2
        <4>4. QED
          BY <4>1, <4>2, <4>3
      <3>3. QED
        BY <3>2
    <2>2. CASE DestroyDies(t)
      BY <2>2 DEF DestroyDies, Dies
    <2>3. QED
      BY <1>7, <2>1, <2>2 DEF wchannel_destroy
  <1>8. QED
    BY <1>1, <1>2, <1>3, <1>4, <1>5, <1>6, <1>7 DEF Step

\* Every channel has a socket, unless another loses a descriptor.
LEMMA StepChannelsUsable ==
  ASSUME StateOK, LocalsOK, CallsOK, HeldOpen, ChannelsUsable,
         NEW t \in Threads, Step(t), ~robbed, ~robbed'
  PROVE  ChannelsUsable'
  <1> USE DEF StateOK, LocalsOK, CallsOK, HeldOpen, ChannelsUsable, Holds, module, chans, kernel, locals
  <1>1. CASE Refused(t)
    BY <1>1 DEF Refused, Returns, Goes, Begins
  <1>2. CASE Loading(t)
    <2>1. CASE wchannel_load(t)
      BY <2>1 DEF wchannel_load, Returns, Goes, Begins
    <2>2. CASE UnloadBegins(t)
      BY <2>2 DEF UnloadBegins, Goes, Begins
    <2>3. CASE UnloadEnds(t)
      BY <2>3 DEF UnloadEnds, Returns, Goes
    <2>4. QED
      BY <1>2, <2>1, <2>2, <2>3 DEF Loading
  <1>3. CASE Creating(t)
    <2>1. CASE CreateBegins(t)
      BY <2>1 DEF CreateBegins, Goes, Begins
    <2>2. CASE Opens(t)
      BY <2>2 DEF Opens, Goes
    <2>3. CASE OpenFails(t)
      BY <2>3 DEF OpenFails, Goes
    <2>4. CASE Binds(t)
      <3>1. Head(addrs[t]) # NoAddress
        BY <2>4, HeadAndTail, WchannelAssumption DEF Binds, Goes
      <3>2. QED
        BY <2>4, <3>1 DEF Binds, Goes
    <2>5. CASE BindFails(t)
      BY <2>5 DEF BindFails, Goes, Closes
    <2>6. CASE CreateFails(t)
      BY <2>6 DEF CreateFails, Returns, Goes, Closes
    <2>7. CASE Created(t)
      <3>1. PICK c \in Channels \ live, d \in Debugs :
              /\ live' = live \cup {c}
              /\ sock' = [sock EXCEPT ![c] = fd[t]]
              /\ debug' = [debug EXCEPT ![c] = d]
        BY <2>7 DEF Created
      <3>2. QED
        BY <2>7, <3>1 DEF Created, Returns, Goes
    <2>8. CASE SetupFails(t)
      BY <2>8 DEF SetupFails, Returns, Goes, Closes
    <2>9. CASE SetupDies(t)
      BY <2>9 DEF SetupDies, Dies
    <2>10. QED
      BY <1>3, <2>1, <2>2, <2>3, <2>4, <2>5, <2>6, <2>7, <2>8, <2>9 DEF Creating
  <1>4. CASE Sending(t)
    <2>1. CASE SendBegins(t)
      BY <2>1 DEF SendBegins, Goes, Begins
    <2>2. CASE Sends(t)
      BY <2>2 DEF Sends, Goes
    <2>3. CASE SendtoFails(t)
      BY <2>3 DEF SendtoFails, Goes
    <2>4. CASE SendFails(t)
      BY <2>4 DEF SendFails, Returns, Goes
    <2>5. QED
      BY <1>4, <2>1, <2>2, <2>3, <2>4 DEF Sending
  <1>5. CASE Receiving(t)
    <2>1. CASE ReceiveBegins(t)
      BY <2>1 DEF ReceiveBegins, Goes, Begins
    <2>2. CASE Receives(t)
      BY <2>2 DEF Receives, Goes
    <2>3. CASE ReceiveFails(t)
      BY <2>3 DEF ReceiveFails, Returns, Goes
    <2>4. CASE ReceivesEmpty(t)
      BY <2>4, Empty DEF ReceivesEmpty, Returns, Goes
    <2>5. CASE ReceiveDies(t)
      BY <2>5 DEF ReceiveDies, Dies
    <2>6. QED
      BY <1>5, <2>1, <2>2, <2>3, <2>4, <2>5 DEF Receiving
  <1>6. CASE Storing(t)
    <2>1. CASE Stores(t)
      BY <2>1 DEF Stores, Returns, Goes
    <2>2. CASE StoreFails(t)
      BY <2>2 DEF StoreFails, Returns, Goes
    <2>3. CASE StoreDies(t)
      BY <2>3 DEF StoreDies, Dies
    <2>4. QED
      BY <1>6, <2>1, <2>2, <2>3 DEF Storing
  <1>7. CASE wchannel_destroy(t)
    <2>1. CASE Destroys(t)
      <3>1. PICK c \in live : DestroysOne(t, c)
        BY <2>1, DestroyIsOne
      <3> USE <3>1 DEF DestroysOne
      <3>2. \A d \in live' : d \in live /\ sock'[d] = sock[d] /\ sock[d] # sock[c]
        OBVIOUS
      <3>3. \A d \in live' : sock'[d] \in files' /\ bound'[sock'[d]] # NoAddress
        BY <3>2
      <3>4. \A u \in Threads : Holds(u)' => Holds(u) /\ fd'[u] = fd[u]
        OBVIOUS
      <3>5. \A d \in live' : \A e \in live' : sock'[d] = sock'[e] => d = e
        <4>1. \A d \in live : \A e \in live : sock[d] = sock[e] => d = e
          OBVIOUS
        <4>2. QED
          <5> HIDE <3>1 DEF DestroysOne, ChannelsUsable
          <5>1. QED
            BY <3>2, <4>1
      <3>6. \A d \in live' : \A u \in Threads : Holds(u)' => fd'[u] # sock'[d]
        <4>1. \A d \in live : \A u \in Threads : Holds(u) => fd[u] # sock[d]
          OBVIOUS
        <4>2. QED
          <5> HIDE <3>1 DEF DestroysOne, ChannelsUsable, Holds
          <5>1. QED
            BY <3>2, <3>4, <4>1
      <3>7. QED
        <4> HIDE <3>1 DEF DestroysOne, Holds
        <4>1. QED
          BY <3>3, <3>5, <3>6
    <2>2. CASE DestroyDies(t)
      BY <2>2 DEF DestroyDies, Dies
    <2>3. QED
      BY <1>7, <2>1, <2>2 DEF wchannel_destroy
  <1>8. QED
    BY <1>1, <1>2, <1>3, <1>4, <1>5, <1>6, <1>7 DEF Step

\* Until a call has moved its message it has stored nothing.
Counted ==
  \A t \in Threads :
    /\ pc[t] \in {"send", "receive"} => moved[t] = 0 /\ stored[t] = 0
    /\ pc[t] = "history" => moved[t] = 1 /\ stored[t] = 0

\* What a call has counted.
LEMMA StepCounted ==
  ASSUME LocalsOK, Counted, NEW t \in Threads, Step(t)
  PROVE  Counted'
  <1> USE DEF LocalsOK, Counted, module, chans, kernel, locals
  <1>1. CASE Refused(t)
    BY <1>1 DEF Refused, Returns, Goes, Begins
  <1>2. CASE Loading(t)
    <2>1. CASE wchannel_load(t)
      BY <2>1 DEF wchannel_load, Returns, Goes, Begins
    <2>2. CASE UnloadBegins(t)
      BY <2>2 DEF UnloadBegins, Goes, Begins
    <2>3. CASE UnloadEnds(t)
      BY <2>3 DEF UnloadEnds, Returns, Goes
    <2>4. QED
      BY <1>2, <2>1, <2>2, <2>3 DEF Loading
  <1>3. CASE Creating(t)
    <2>1. CASE CreateBegins(t)
      BY <2>1 DEF CreateBegins, Goes, Begins
    <2>2. CASE Opens(t)
      BY <2>2 DEF Opens, Goes
    <2>3. CASE OpenFails(t)
      BY <2>3 DEF OpenFails, Goes
    <2>4. CASE Binds(t)
      BY <2>4 DEF Binds, Goes
    <2>5. CASE BindFails(t)
      BY <2>5 DEF BindFails, Goes, Closes
    <2>6. CASE CreateFails(t)
      BY <2>6 DEF CreateFails, Returns, Goes, Closes
    <2>7. CASE Created(t)
      BY <2>7 DEF Created, Returns, Goes
    <2>8. CASE SetupFails(t)
      BY <2>8 DEF SetupFails, Returns, Goes, Closes
    <2>9. CASE SetupDies(t)
      BY <2>9 DEF SetupDies, Dies
    <2>10. QED
      BY <1>3, <2>1, <2>2, <2>3, <2>4, <2>5, <2>6, <2>7, <2>8, <2>9 DEF Creating
  <1>4. CASE Sending(t)
    <2>1. CASE SendBegins(t)
      BY <2>1 DEF SendBegins, Goes, Begins
    <2>2. CASE Sends(t)
      BY <2>2 DEF Sends, Goes
    <2>3. CASE SendtoFails(t)
      BY <2>3 DEF SendtoFails, Goes
    <2>4. CASE SendFails(t)
      BY <2>4 DEF SendFails, Returns, Goes
    <2>5. QED
      BY <1>4, <2>1, <2>2, <2>3, <2>4 DEF Sending
  <1>5. CASE Receiving(t)
    <2>1. CASE ReceiveBegins(t)
      BY <2>1 DEF ReceiveBegins, Goes, Begins
    <2>2. CASE Receives(t)
      BY <2>2 DEF Receives, Goes
    <2>3. CASE ReceiveFails(t)
      BY <2>3 DEF ReceiveFails, Returns, Goes
    <2>4. CASE ReceivesEmpty(t)
      BY <2>4, Empty DEF ReceivesEmpty, Returns, Goes
    <2>5. CASE ReceiveDies(t)
      BY <2>5 DEF ReceiveDies, Dies
    <2>6. QED
      BY <1>5, <2>1, <2>2, <2>3, <2>4, <2>5 DEF Receiving
  <1>6. CASE Storing(t)
    <2>1. CASE Stores(t)
      BY <2>1 DEF Stores, Returns, Goes
    <2>2. CASE StoreFails(t)
      BY <2>2 DEF StoreFails, Returns, Goes
    <2>3. CASE StoreDies(t)
      BY <2>3 DEF StoreDies, Dies
    <2>4. QED
      BY <1>6, <2>1, <2>2, <2>3 DEF Storing
  <1>7. CASE wchannel_destroy(t)
    <2>1. CASE Destroys(t)
      BY <2>1 DEF Destroys, Returns, Goes, Begins, Closes, InUse
    <2>2. CASE DestroyDies(t)
      BY <2>2 DEF DestroyDies, Dies
    <2>3. QED
      BY <1>7, <2>1, <2>2 DEF wchannel_destroy
  <1>8. QED
    BY <1>1, <1>2, <1>3, <1>4, <1>5, <1>6, <1>7 DEF Step

\* What a call returns agrees with what it has counted.
LEMMA StepTellsTruth ==
  ASSUME StateOK, LocalsOK, Counted, NEW t \in Threads, Step(t)
  PROVE  \A u \in Threads : TellsTruth(u)
  <1> USE DEF StateOK, LocalsOK, Counted, TellsTruth, module, chans, kernel, locals
  <1>1. CASE Refused(t)
    BY <1>1 DEF Refused, Returns, Goes, Begins
  <1>2. CASE Loading(t)
    <2>1. CASE wchannel_load(t)
      BY <2>1 DEF wchannel_load, Returns, Goes, Begins
    <2>2. CASE UnloadBegins(t)
      BY <2>2 DEF UnloadBegins, Goes, Begins
    <2>3. CASE UnloadEnds(t)
      BY <2>3 DEF UnloadEnds, Returns, Goes
    <2>4. QED
      BY <1>2, <2>1, <2>2, <2>3 DEF Loading
  <1>3. CASE Creating(t)
    <2>1. CASE CreateBegins(t)
      BY <2>1 DEF CreateBegins, Goes, Begins
    <2>2. CASE Opens(t)
      BY <2>2 DEF Opens, Goes
    <2>3. CASE OpenFails(t)
      BY <2>3 DEF OpenFails, Goes
    <2>4. CASE Binds(t)
      BY <2>4 DEF Binds, Goes
    <2>5. CASE BindFails(t)
      BY <2>5 DEF BindFails, Goes, Closes
    <2>6. CASE CreateFails(t)
      BY <2>6 DEF CreateFails, Returns, Goes, Closes
    <2>7. CASE Created(t)
      BY <2>7 DEF Created, Returns, Goes
    <2>8. CASE SetupFails(t)
      BY <2>8 DEF SetupFails, Returns, Goes, Closes
    <2>9. CASE SetupDies(t)
      BY <2>9 DEF SetupDies, Dies
    <2>10. QED
      BY <1>3, <2>1, <2>2, <2>3, <2>4, <2>5, <2>6, <2>7, <2>8, <2>9 DEF Creating
  <1>4. CASE Sending(t)
    <2>1. CASE SendBegins(t)
      BY <2>1 DEF SendBegins, Goes, Begins
    <2>2. CASE Sends(t)
      BY <2>2 DEF Sends, Goes
    <2>3. CASE SendtoFails(t)
      BY <2>3 DEF SendtoFails, Goes
    <2>4. CASE SendFails(t)
      <3>1. TellsTruth(t)
        BY <2>4 DEF SendFails, Returns, Goes
      <3>2. ASSUME NEW u \in Threads, u # t
            PROVE  TellsTruth(u)
        BY <2>4, <3>2 DEF SendFails, Returns, Goes
      <3>3. QED
        BY <3>1, <3>2
    <2>5. QED
      BY <1>4, <2>1, <2>2, <2>3, <2>4 DEF Sending
  <1>5. CASE Receiving(t)
    <2>1. CASE ReceiveBegins(t)
      BY <2>1 DEF ReceiveBegins, Goes, Begins
    <2>2. CASE Receives(t)
      BY <2>2 DEF Receives, Goes
    <2>3. CASE ReceiveFails(t)
      <3>1. TellsTruth(t)
        BY <2>3 DEF ReceiveFails, Returns, Goes
      <3>2. ASSUME NEW u \in Threads, u # t
            PROVE  TellsTruth(u)
        BY <2>3, <3>2 DEF ReceiveFails, Returns, Goes
      <3>3. QED
        BY <3>1, <3>2
    <2>4. CASE ReceivesEmpty(t)
      BY <2>4, Empty DEF ReceivesEmpty, Returns, Goes
    <2>5. CASE ReceiveDies(t)
      BY <2>5 DEF ReceiveDies, Dies
    <2>6. QED
      BY <1>5, <2>1, <2>2, <2>3, <2>4, <2>5 DEF Receiving
  <1>6. CASE Storing(t)
    <2>1. CASE Stores(t)
      <3>1. moved'[t] = 1 /\ status'[t] = "SUCCESS"
        BY <2>1 DEF Stores, Returns, Goes
      <3>2. stored'[t] = IF debug[chan[t]] = "dump callback" THEN 1 ELSE 0
        BY <2>1 DEF Stores
      <3>3. debug[chan[t]] \in {"no debug", "dump callback"}
        BY <2>1 DEF Stores
      <3>4. TellsTruth(t)
        <4>1. stored'[t] = IF debug[chan[t]] = "no debug" THEN 0 ELSE 1
          BY <3>2, <3>3
        <4>2. status'[t] = "SUCCESS" /\ moved'[t] = 1
          BY <3>1
        <4>3. QED
          BY <4>1, <4>2, Zenon
      <3>5. ASSUME NEW u \in Threads, u # t
            PROVE  TellsTruth(u)
        BY <2>1, <3>5 DEF Stores, Returns, Goes
      <3>6. QED
        BY <3>4, <3>5
    <2>2. CASE StoreFails(t)
      <3>1. moved'[t] = 1 /\ stored'[t] = 0 /\ status'[t] = "SEMIFAIL"
        BY <2>2 DEF StoreFails, Returns, Goes
      <3>2. TellsTruth(t)
        BY <3>1
      <3>3. ASSUME NEW u \in Threads, u # t
            PROVE  TellsTruth(u)
        BY <2>2, <3>3 DEF StoreFails, Returns, Goes
      <3>4. QED
        BY <3>2, <3>3
    <2>3. CASE StoreDies(t)
      BY <2>3 DEF StoreDies, Dies
    <2>4. QED
      BY <1>6, <2>1, <2>2, <2>3 DEF Storing
  <1>7. CASE wchannel_destroy(t)
    <2>1. CASE Destroys(t)
      BY <2>1 DEF Destroys, Returns, Goes, Begins, Closes, InUse
    <2>2. CASE DestroyDies(t)
      BY <2>2 DEF DestroyDies, Dies
    <2>3. QED
      BY <1>7, <2>1, <2>2 DEF wchannel_destroy
  <1>8. QED
    BY <1>1, <1>2, <1>3, <1>4, <1>5, <1>6, <1>7 DEF Step

-----------------------------------------------------------------------------
\* The memory of a robbery stays.
LEMMA RobbedStays ==
  ASSUME NEW t \in Threads, Step(t), robbed
  PROVE  robbed'
  <1> USE DEF module, chans, kernel, locals
  <1>1. CASE Refused(t) \/ Loading(t)
    BY <1>1 DEF Refused, Loading, wchannel_load, UnloadBegins, UnloadEnds
  <1>2. CASE Creating(t)
    BY <1>2 DEF Creating, CreateBegins, Opens, OpenFails, Binds, BindFails, CreateFails,
                Created, SetupFails, SetupDies, Dies
  <1>3. CASE Sending(t) \/ Receiving(t)
    BY <1>3 DEF Sending, SendBegins, Sends, SendtoFails, SendFails, Receiving, ReceiveBegins,
                Receives, ReceivesEmpty, ReceiveFails, ReceiveDies, Dies
  <1>4. CASE Storing(t) \/ wchannel_destroy(t)
    BY <1>4 DEF Storing, Stores, StoreFails, StoreDies, wchannel_destroy, Destroys,
                DestroyDies, Dies
  <1>5. QED
    BY <1>1, <1>2, <1>3, <1>4 DEF Step

LEMMA NextIInv ==
  ASSUME IInv, [Next]_vars
  PROVE  IInv'
  <1> USE DEF IInv
  <1>1. CASE UNCHANGED vars
    <2> USE <1>1 DEF vars, module, chans, kernel, locals
    <2>1. StateOK' /\ LocalsOK' /\ CallsOK'
      BY DEF StateOK, LocalsOK, CallsOK, Holds
    <2>2. ClosedUnbound' /\ Descriptors'
      BY DEF ClosedUnbound, Descriptors, HeldOpen, Holds
    <2>3. SocketsOwned' /\ LiveSocketOpen'
      BY DEF SocketsOwned, LiveSocketOpen, ChannelsUsable, Holds
    <2>4. QED
      BY <2>1, <2>2, <2>3
  <1>2. CASE Next
    <2>1. PICK t \in Threads : Step(t)
      BY <1>2 DEF Next
    <2>2. StateOK' /\ LocalsOK' /\ CallsOK'
      BY <2>1, StepStateOK, StepLocalsOK, StepCallsOK
    <2>3. ClosedUnbound' /\ SocketsOwned'
      BY <2>1, StepClosedUnbound, StepSocketsOwned
    <2>4. ASSUME ~robbed' PROVE HeldOpen' /\ ChannelsUsable'
      <3>1. ~robbed
        BY <2>1, <2>4, RobbedStays
      <3>2. HeldOpen /\ ChannelsUsable
        BY <3>1 DEF Descriptors, LiveSocketOpen
      <3>3. QED
        BY <2>1, <2>4, <3>1, <3>2, StepHeldOpen, StepChannelsUsable
    <2>5. Descriptors' /\ LiveSocketOpen'
      BY <2>4 DEF Descriptors, LiveSocketOpen
    <2>6. QED
      BY <2>2, <2>3, <2>5
  <1>3. QED
    BY <1>1, <1>2

LEMMA Safe == Spec => []IInv
  BY InitHolds, NextIInv, PTL DEF Spec

\* The state and the locals of every call keep their types, only open descriptors
\* are bound, and a call works with a channel that exists (the struct and the
\* locals of wchannel_linux.c).
THEOREM TypeCorrect == Spec => []TypeOK
  <1>1. IInv => TypeOK
    BY DEF IInv, TypeOK, ClosedUnbound
  <1>2. QED
    BY <1>1, Safe, PTL

\* No way out of wchannel_create or wchannel_destroy leaves a socket open that
\* nothing owns, also where a second close has mixed up the descriptors.
THEOREM SocketsHaveOwners == Spec => []SocketsOwned
  <1>1. IInv => SocketsOwned
    BY DEF IInv
  <1>2. QED
    BY <1>1, Safe, PTL

\* The socket of a channel stays open, bound and its own until the channel is
\* destroyed, or a second close in _wchannel_udp_create hits the descriptor of
\* another: nothing else takes it, whatever any number of owners do.
THEOREM ChannelsStayUsable == Spec => []LiveSocketOpen
  <1>1. IInv => LiveSocketOpen
    BY DEF IInv
  <1>2. QED
    BY <1>1, Safe, PTL

CallInv == StateOK /\ LocalsOK /\ CallsOK /\ Counted

LEMMA NextCallInv ==
  ASSUME CallInv, [Next]_vars
  PROVE  CallInv'
  <1> USE DEF CallInv
  <1>1. CASE UNCHANGED vars
    BY <1>1 DEF vars, module, chans, kernel, locals, StateOK, LocalsOK, CallsOK, Counted, Holds
  <1>2. CASE Next
    <2>1. PICK t \in Threads : Step(t)
      BY <1>2 DEF Next
    <2>2. QED
      BY <2>1, StepStateOK, StepLocalsOK, StepCallsOK, StepCounted
  <1>3. QED
    BY <1>1, <1>2

\* What wchannel_send and wchannel_receive return tells whether a message went,
\* and whether the history has it, for any number of owners.
THEOREM StatusTrue == Spec => StatusTellsTruth
  <1>1. Init => CallInv
    <2>1. Init => Counted
      BY DEF Init, Counted
    <2>2. QED
      BY <2>1, InitHolds DEF CallInv, IInv
  <1>2. CallInv /\ [Next]_vars => CallInv'
    BY NextCallInv
  <1>3. CallInv /\ [Next]_vars => [\A t \in Threads : TellsTruth(t)]_vars
    <2>1. SUFFICES ASSUME CallInv, Next PROVE \A u \in Threads : TellsTruth(u)
      OBVIOUS
    <2>2. PICK t \in Threads : Step(t)
      BY <2>1 DEF Next
    <2>3. QED
      BY <2>1, <2>2, StepTellsTruth DEF CallInv
  <1>4. QED
    BY <1>1, <1>2, <1>3, PTL DEF Spec, StatusTellsTruth

============================================================================
