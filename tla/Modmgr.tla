------------------------------- MODULE Modmgr -------------------------------
(***************************************************************************)
(* The module manager of wicom (src/modmgr.c): the registry of modules and *)
(* the thread that processes requests.                                     *)
(*                                                                         *)
(* Main loads and unloads the module; modmgr_load starts the request       *)
(* processor and polls a flag it sets, modmgr_unload sets another flag,    *)
(* sends the processor a message to wake it, and waits for it to end.      *)
(* Other threads and programs put requests into the pipe the processor     *)
(* reads.  What one of the two threads does while the other is not running *)
(* or does not look is one action.                                         *)
(*                                                                         *)
(* The pipe is any implementation of the channels of src/wchannel.h that   *)
(* has pipes; the one in this repository refuses them, and modmgr_load     *)
(* then fails.  The processor reads it through a request buffer, which     *)
(* keeps the promise of ReqStream as long as structures are sent.          *)
(*                                                                         *)
(* Nothing registers a module: the registry holds the manager's own entry. *)
(***************************************************************************)
EXTENDS Naturals, Sequences

CONSTANTS
  MaxRequests,     \* bound: requests in the pipe
  GameOver         \* what modmgr_unload sends: the first bytes of a text, as
                   \* many as a pointer has, which are no request

\* The names in a request: the manager's, or one that is not registered.
Names    == {"modmgr", "unknown"}
Requests == [src : Names, dst : Names]
NoRequest == [src |-> "unknown", dst |-> "unknown"]

ASSUME ModmgrAssumption == MaxRequests \in Nat /\ GameOver \notin Requests

VARIABLES
  loaded, unloading,
  mod_list,        \* the list object: "null" or "live"
  entries,         \* how many entries it holds
  modreg,          \* memory of that entry: "none", "live", "freed", "freed twice"
  unload_flag, initialized_flag, finished_flag,   \* thread_reqproc_data
  recv_wch,        \* the channel: "none", "open", or "closed" but still named
  pipe,            \* what is in it
  rb,              \* the processor's request buffer: "none", "live", "freed"
  req,             \* the request it has read
  main, proc       \* control points of the two threads; proc is "dead" when
                   \* the whole process is

flags    == <<loaded, unloading>>
registry == <<mod_list, entries, modreg>>
thread   == <<unload_flag, initialized_flag, finished_flag>>
channel  == <<recv_wch, pipe>>
reading  == <<rb, req>>
vars == <<flags, registry, thread, channel, reading, main, proc>>

MainGoes(from, to) == main = from /\ proc # "dead" /\ main' = to
ProcGoes(from, to) == proc = from /\ proc' = to

\* free() of the memory of the entry.
Freed == IF modreg = "live" THEN "freed" ELSE "freed twice"
-----------------------------------------------------------------------------
Init ==
  /\ loaded = FALSE
  /\ unloading = FALSE
  /\ mod_list = "null"
  /\ entries = 0
  /\ modreg = "none"
  /\ unload_flag = FALSE
  /\ initialized_flag = FALSE
  /\ finished_flag = FALSE
  /\ recv_wch = "none"
  /\ pipe = <<>>
  /\ rb = "none"
  /\ req = NoRequest
  /\ main = "idle"
  /\ proc = "unborn"
-----------------------------------------------------------------------------
(***************************************************************************)
(* modmgr_load.  No thread of the module runs when it is called.           *)
(***************************************************************************)
KeepsFlags == UNCHANGED thread   \* fault: the flags of the last thread stay

KeepsInitialized ==   \* fault: the flag the next load polls is still set
  unload_flag' = FALSE /\ finished_flag' = FALSE /\ UNCHANGED initialized_flag

StartsThread == /\ unload_flag' = FALSE
                /\ initialized_flag' = FALSE
                /\ finished_flag' = FALSE

LoadStarts ==
  /\ proc \in {"unborn", "ended"}
  /\ MainGoes("idle", "ld_init")
  /\ mod_list' = "live"
  /\ entries' = 1
  /\ modreg' = "live"
  /\ recv_wch' = "open"
  /\ pipe' = <<>>
  /\ StartsThread
  /\ proc' = "init"
  /\ rb' = "none"
  /\ UNCHANGED <<flags, req>>

\* The list, the entry, the channel or the thread cannot be created: what was
\* created is freed, the list that an unload left behind as well.
LoadFails ==
  /\ main = "idle"
  /\ proc \in {"unborn", "ended"}
  /\ mod_list' = "null"
  /\ entries' = 0
  /\ modreg' \in {modreg, "freed"}
  /\ \/ UNCHANGED <<thread, channel>>
     \/ StartsThread /\ recv_wch' \in {"open", "closed"} /\ pipe' = <<>>
  /\ UNCHANGED <<flags, reading, main, proc>>

LoadPolls ==
  /\ initialized_flag
  /\ MainGoes("ld_init", "ld_check")
  /\ UNCHANGED <<flags, registry, thread, channel, reading, proc>>

LoadChecks ==
  /\ MainGoes("ld_check", IF finished_flag THEN "ld_join" ELSE "ld_loaded")
  /\ UNCHANGED <<flags, registry, thread, channel, reading, proc>>

LoadSetsLoaded ==
  /\ MainGoes("ld_loaded", "idle")
  /\ loaded' = TRUE
  /\ UNCHANGED <<unloading, registry, thread, channel, reading, proc>>

\* The processor has failed: wait for it, then free everything.
LoadJoins ==
  /\ MainGoes("ld_join", "idle")
  /\ proc = "ended"
  /\ mod_list' = "null"
  /\ entries' = 0
  /\ modreg' = Freed
  /\ recv_wch' \in {"open", "closed"}   \* wchannel_destroy may fail
  /\ UNCHANGED <<flags, thread, pipe, reading, proc>>

modmgr_load == LoadStarts \/ LoadFails \/ LoadPolls \/ LoadChecks
               \/ LoadSetsLoaded \/ LoadJoins
-----------------------------------------------------------------------------
(***************************************************************************)
(* modmgr_unload.                                                          *)
(***************************************************************************)
UnloadBegins ==
  /\ loaded
  /\ MainGoes("idle", "ul_flag")
  /\ unloading' = TRUE
  /\ UNCHANGED <<loaded, registry, thread, channel, reading, proc>>

UnloadFlags ==
  /\ MainGoes("ul_flag", "ul_send")
  /\ unload_flag' = TRUE
  /\ UNCHANGED <<flags, registry, initialized_flag, finished_flag, channel,
                 reading, proc>>

UnloadSendsNothing ==   \* fault: the processor is not woken
  /\ MainGoes("ul_send", "ul_join")
  /\ UNCHANGED <<flags, registry, thread, channel, reading, proc>>

\* Without a channel, and perhaps with one, the message cannot be sent; a pipe
\* that already holds more than MaxRequests messages does not take it.
UnloadSends ==
  \/ /\ recv_wch = "open"
     /\ Len(pipe) <= MaxRequests
     /\ MainGoes("ul_send", "ul_join")
     /\ pipe' = Append(pipe, GameOver)
     /\ UNCHANGED <<flags, registry, thread, recv_wch, reading, proc>>
  \/ /\ MainGoes("ul_send", "idle")
     /\ UNCHANGED <<flags, registry, thread, channel, reading, proc>>

\* Close the channel, pop and free the entries, free the list.  The flags stay
\* as they are.  A channel that cannot be destroyed ends the call.
UnloadFrees ==
  /\ MainGoes("ul_join", "idle")
  /\ \/ /\ recv_wch' = "none"
        /\ mod_list' = "null"
        /\ entries' = 0
        /\ modreg' = IF entries = 0 THEN modreg ELSE Freed
     \/ UNCHANGED <<registry, recv_wch>>
  /\ UNCHANGED <<flags, thread, pipe, reading, proc>>

UnloadDoesNotWait == UnloadFrees   \* fault: wthread_wait is not called

UnloadJoins == proc = "ended" /\ UnloadFrees

modmgr_unload == UnloadBegins \/ UnloadFlags \/ UnloadSends \/ UnloadJoins
-----------------------------------------------------------------------------
(***************************************************************************)
(* The request processor.                                                  *)
(***************************************************************************)
ProcInit ==
  \/ /\ ProcGoes("init", "initialized")
     /\ rb' = "live"
     /\ UNCHANGED <<flags, registry, thread, channel, req, main>>
  \/ /\ ProcGoes("init", "failed")            \* reqbuf_create fails
     /\ UNCHANGED <<flags, registry, thread, channel, reading, main>>

ProcSetsInitialized ==
  /\ ProcGoes("initialized", "read")
  /\ initialized_flag' = TRUE
  /\ UNCHANGED <<flags, registry, unload_flag, finished_flag, channel,
                 reading, main>>

\* reqbuf_read.  The wake-up message begins with no stype, which the buffer
\* refuses; no memory for a request is a failure as well, and loses it.
ProcReadsAnything ==   \* fault: the wake-up message is taken for a request
  /\ pipe # <<>>
  /\ ProcGoes("read", "test")
  /\ req' = Head(pipe)
  /\ pipe' = Tail(pipe)
  /\ UNCHANGED <<flags, registry, thread, recv_wch, rb, main>>

ProcReads ==
  /\ pipe # <<>>
  /\ pipe' = Tail(pipe)
  /\ \/ /\ Head(pipe) # GameOver
        /\ ProcGoes("read", "test")
        /\ req' = Head(pipe)
     \/ /\ ProcGoes("read", "failed")
        /\ UNCHANGED req
  /\ UNCHANGED <<flags, registry, thread, recv_wch, rb, main>>

\* A channel that fails ends the process, not the call: see Reqbuf!ReceiveDies.
ProcReadDies ==
  /\ ProcGoes("read", "dead")
  /\ UNCHANGED <<flags, registry, thread, channel, reading, main>>

ProcTestsUnload ==
  \/ /\ unload_flag
     /\ ProcGoes("test", "ended")
     /\ rb' = "freed"
     /\ finished_flag' = TRUE
     /\ UNCHANGED <<flags, registry, unload_flag, initialized_flag, channel,
                    req, main>>
  \/ /\ ~unload_flag
     /\ ProcGoes("test", "process")
     /\ UNCHANGED <<flags, registry, thread, channel, reading, main>>

\* The list is searched for a name.
modmgr_lookup(name) == entries = 1 /\ name = "modmgr"

\* An unknown source ends the processing.  Otherwise an error reply is built,
\* whether or not the destination was found, and _request_send, which always
\* fails, is to send it; then the entries found are freed.
request_process ==
  /\ ProcGoes("process", "failed")
  /\ modreg' = IF ~modmgr_lookup(req.src) THEN modreg
               ELSE IF modmgr_lookup(req.dst) THEN "freed twice" ELSE Freed
  /\ UNCHANGED <<flags, mod_list, entries, thread, channel, reading, main>>

\* return_fail of the thread: the request buffer is left behind.
ProcFails ==
  /\ ProcGoes("failed", "ended")
  /\ finished_flag' = TRUE
  /\ UNCHANGED <<flags, registry, unload_flag, initialized_flag, channel,
                 reading, main>>

request_processor_thread ==
  \/ ProcInit \/ ProcSetsInitialized \/ ProcReads \/ ProcReadDies
  \/ ProcTestsUnload \/ request_process \/ ProcFails

\* Somebody puts a request into the pipe.
Inject ==
  /\ recv_wch = "open"
  /\ Len(pipe) < MaxRequests
  /\ \E r \in Requests : pipe' = Append(pipe, r)
  /\ UNCHANGED <<flags, registry, thread, recv_wch, reading, main, proc>>

Next == modmgr_load \/ modmgr_unload \/ request_processor_thread \/ Inject

Spec == Init /\ [][Next]_vars

\* Both threads run on while they can; nobody needs to load or unload the
\* module or to send a request, and channels need not fail.
Fairness == /\ WF_vars(main # "idle" /\ (modmgr_load \/ modmgr_unload))
            /\ WF_vars(ProcInit \/ ProcSetsInitialized \/ ProcReads
                       \/ ProcTestsUnload \/ request_process \/ ProcFails)

FairSpec == Spec /\ Fairness
-----------------------------------------------------------------------------
(***************************************************************************)
(* Properties.                                                             *)
(***************************************************************************)
FlagsOK == /\ loaded \in BOOLEAN
           /\ unloading \in BOOLEAN
           /\ unload_flag \in BOOLEAN
           /\ initialized_flag \in BOOLEAN
           /\ finished_flag \in BOOLEAN

\* A list that is not there has no entries.
RegistryOK == /\ mod_list \in {"null", "live"}
              /\ entries \in {0, 1}
              /\ mod_list = "null" => entries = 0
              /\ modreg \in {"none", "live", "freed", "freed twice"}

\* What the processor has taken for a request is one.
ChannelOK == /\ recv_wch \in {"none", "open", "closed"}
             /\ pipe \in Seq(Requests \cup {GameOver})
             /\ rb \in {"none", "live", "freed"}
             /\ req \in Requests

ControlOK ==
  /\ main \in {"idle", "ld_init", "ld_check", "ld_loaded", "ld_join", "ul_flag",
               "ul_send", "ul_join"}
  /\ proc \in {"unborn", "init", "initialized", "read", "test", "process",
               "failed", "ended", "dead"}

\* Every variable has its type.
TypeOK == FlagsOK /\ RegistryOK /\ ChannelOK /\ ControlOK

\* The processor reads the channel and searches the registry without a lock.
\* It can, because whoever takes them away has waited for its end, and because
\* what it frees itself it does not search again.
ProcessorOwnsItsWorld ==
  proc \in {"init", "initialized", "read", "test", "process"} =>
    mod_list = "live" /\ entries = 1 /\ modreg = "live" /\ recv_wch = "open"

\* Every modmgr_load that reports success, the first one and those after an
\* unload, has seen the processor it has itself started initialise, not the flag
\* of the one before; that processor may have failed again since.
LoadedAfterInit ==
  [][main = "ld_loaded" /\ main' = "idle" => initialized_flag /\ rb # "none"]_vars

\* The flags tell the truth about the processor: finished, it does nothing
\* more; not finished after its initialisation, it is there to be joined.
FlagsFollowProcessor ==
  /\ finished_flag => proc \in {"ended", "unborn"}
  /\ initialized_flag => proc \notin {"init", "initialized"}

\* modmgr_unload does not wait for ever for the processor, whatever the
\* processor was doing and whatever is in the pipe before the wake-up message,
\* unless the process dies.
UnloadReturns == main = "ul_join" ~> main = "idle" \/ proc = "dead"
-----------------------------------------------------------------------------
(***************************************************************************)
(* What comments say of the module, and the code does not do.              *)
(***************************************************************************)

\* "wait for threads initialization" (modmgr.c:612).  A processor that fails to
\* initialise sets the finished flag and never the one modmgr_load polls.
LoadReturns == main = "ld_init" ~> main # "ld_init" \/ proc = "dead"

\* "The data structure must have been allocated using _modreg_alloc function"
\* (modmgr.c:553).  _request_process frees both of the entries it has looked up,
\* which may be the same, and leaves them in the list that unload frees again.
FreedOnce == modreg # "freed twice"
=============================================================================
