---------------------------- MODULE ModmgrProofs ----------------------------
(***************************************************************************)
(* Theorems about Modmgr, for every bound on the pipe and every wake-up    *)
(* message that is no request.                                             *)
(***************************************************************************)
EXTENDS Modmgr, TLAPS

LEMMA InitTypeOK == Init => TypeOK
  <1> SUFFICES ASSUME Init PROVE TypeOK
    OBVIOUS
  <1> USE DEF Init
  <1>1. FlagsOK
    BY DEF FlagsOK
  <1>2. RegistryOK
    BY DEF RegistryOK
  <1>3. ChannelOK
    BY DEF ChannelOK, Requests, Names, NoRequest
  <1>4. ControlOK
    BY DEF ControlOK
  <1>5. QED
    BY <1>1, <1>2, <1>3, <1>4 DEF TypeOK

LEMMA NextFlagsOK ==
  ASSUME FlagsOK, [Next]_vars
  PROVE  FlagsOK'
  <1> USE DEF FlagsOK, flags, thread
  <1>1. CASE modmgr_load
    BY <1>1
       DEF modmgr_load, LoadStarts, LoadFails, LoadPolls, LoadChecks,
           LoadSetsLoaded, LoadJoins, StartsThread, Freed, MainGoes
  <1>2. CASE modmgr_unload
    BY <1>2
       DEF modmgr_unload, UnloadBegins, UnloadFlags, UnloadSends, UnloadJoins,
           UnloadFrees, Freed, MainGoes
  <1>3. CASE request_processor_thread
    BY <1>3
       DEF request_processor_thread, ProcInit, ProcSetsInitialized, ProcReads,
           ProcReadDies, ProcTestsUnload, request_process, ProcFails, Freed, ProcGoes
  <1>4. CASE Inject \/ UNCHANGED vars
    BY <1>4 DEF Inject, vars
  <1>5. QED
    BY <1>1, <1>2, <1>3, <1>4 DEF Next

LEMMA NextRegistryOK ==
  ASSUME RegistryOK, [Next]_vars
  PROVE  RegistryOK'
  <1> USE DEF RegistryOK, registry
  <1>1. CASE modmgr_load
    BY <1>1
       DEF modmgr_load, LoadStarts, LoadFails, LoadPolls, LoadChecks,
           LoadSetsLoaded, LoadJoins, StartsThread, Freed, MainGoes
  <1>2. CASE modmgr_unload
    BY <1>2
       DEF modmgr_unload, UnloadBegins, UnloadFlags, UnloadSends, UnloadJoins,
           UnloadFrees, Freed, MainGoes
  <1>3. CASE request_processor_thread
    BY <1>3
       DEF request_processor_thread, ProcInit, ProcSetsInitialized, ProcReads,
           ProcReadDies, ProcTestsUnload, request_process, ProcFails, Freed, ProcGoes
  <1>4. CASE Inject \/ UNCHANGED vars
    BY <1>4 DEF Inject, vars
  <1>5. QED
    BY <1>1, <1>2, <1>3, <1>4 DEF Next

LEMMA NextChannelOK ==
  ASSUME ChannelOK, [Next]_vars
  PROVE  ChannelOK'
  <1> USE DEF ChannelOK, channel, reading
  <1>1. CASE modmgr_load
    <2>1. CASE LoadStarts
      BY <2>1 DEF LoadStarts
    <2>2. CASE LoadFails
      <3>1. rb' = rb /\ req' = req
        BY <2>2 DEF LoadFails
      <3>2. CASE recv_wch' = recv_wch /\ pipe' = pipe
        BY <3>1, <3>2
      <3>3. CASE recv_wch' \in {"open", "closed"} /\ pipe' = <<>>
        BY <3>1, <3>3
      <3>4. QED
        BY <2>2, <3>2, <3>3 DEF LoadFails
    <2>3. CASE LoadPolls \/ LoadChecks \/ LoadSetsLoaded \/ LoadJoins
      BY <2>3 DEF LoadPolls, LoadChecks, LoadSetsLoaded, LoadJoins
    <2>4. QED
      BY <1>1, <2>1, <2>2, <2>3 DEF modmgr_load
  <1>2. CASE modmgr_unload
    <2>1. CASE UnloadBegins \/ UnloadFlags
      BY <2>1 DEF UnloadBegins, UnloadFlags
    <2>2. CASE UnloadSends
      BY <2>2 DEF UnloadSends
    <2>3. CASE UnloadJoins
      BY <2>3 DEF UnloadJoins, UnloadFrees
    <2>4. QED
      BY <1>2, <2>1, <2>2, <2>3 DEF modmgr_unload
  <1>3. CASE ProcReads
    <2>1. /\ Head(pipe) \in Requests \cup {GameOver}
          /\ Tail(pipe) \in Seq(Requests \cup {GameOver})
      BY <1>3 DEF ProcReads
    <2>2. QED
      BY <1>3, <2>1 DEF ProcReads
  <1>4. CASE request_processor_thread /\ ~ProcReads
    BY <1>4
       DEF request_processor_thread, ProcInit, ProcSetsInitialized,
           ProcReadDies, ProcTestsUnload, request_process, ProcFails
  <1>5. CASE Inject \/ UNCHANGED vars
    BY <1>5 DEF Inject, vars
  <1>6. QED
    BY <1>1, <1>2, <1>3, <1>4, <1>5 DEF Next

LEMMA NextControlOK ==
  ASSUME ControlOK, [Next]_vars
  PROVE  ControlOK'
  <1> USE DEF ControlOK
  <1>1. CASE modmgr_load
    BY <1>1
       DEF modmgr_load, LoadStarts, LoadFails, LoadPolls, LoadChecks,
           LoadSetsLoaded, LoadJoins, StartsThread, Freed, MainGoes
  <1>2. CASE modmgr_unload
    BY <1>2
       DEF modmgr_unload, UnloadBegins, UnloadFlags, UnloadSends, UnloadJoins,
           UnloadFrees, Freed, MainGoes
  <1>3. CASE request_processor_thread
    BY <1>3
       DEF request_processor_thread, ProcInit, ProcSetsInitialized, ProcReads,
           ProcReadDies, ProcTestsUnload, request_process, ProcFails, Freed, ProcGoes
  <1>4. CASE Inject \/ UNCHANGED vars
    BY <1>4 DEF Inject, vars
  <1>5. QED
    BY <1>1, <1>2, <1>3, <1>4 DEF Next

LEMMA NextTypeOK ==
  ASSUME TypeOK, [Next]_vars
  PROVE  TypeOK'
  BY NextFlagsOK, NextRegistryOK, NextChannelOK, NextControlOK DEF TypeOK

\* Every variable keeps its type; in particular the wake-up message is never
\* taken for a request, whatever is in the pipe before it.
THEOREM TypeCorrect == Spec => []TypeOK
  <1>1. QED
    BY InitTypeOK, NextTypeOK, PTL DEF Spec
-----------------------------------------------------------------------------
(***************************************************************************)
(* The processor and the threads that start and stop it.                   *)
(***************************************************************************)
ProcessorInv == ProcessorOwnsItsWorld /\ FlagsFollowProcessor

LEMMA NextProcessorInv ==
  ASSUME ProcessorInv, [Next]_vars
  PROVE  ProcessorInv'
  <1> USE DEF ProcessorInv, ProcessorOwnsItsWorld, FlagsFollowProcessor,
              MainGoes, ProcGoes, flags, registry, thread, channel, reading
  <1>1. CASE LoadStarts
    BY <1>1 DEF LoadStarts, StartsThread
  <1>2. CASE LoadFails
    BY <1>2 DEF LoadFails, StartsThread
  <1>3. CASE LoadPolls \/ LoadChecks \/ LoadSetsLoaded
    BY <1>3 DEF LoadPolls, LoadChecks, LoadSetsLoaded
  <1>4. CASE LoadJoins
    BY <1>4 DEF LoadJoins
  <1>5. CASE UnloadBegins \/ UnloadFlags \/ UnloadSends
    BY <1>5 DEF UnloadBegins, UnloadFlags, UnloadSends
  <1>6. CASE UnloadJoins
    BY <1>6 DEF UnloadJoins, UnloadFrees
  <1>7. CASE ProcInit
    BY <1>7 DEF ProcInit
  <1>8. CASE ProcSetsInitialized
    BY <1>8 DEF ProcSetsInitialized
  <1>9. CASE ProcReads \/ ProcReadDies
    BY <1>9 DEF ProcReads, ProcReadDies
  <1>10. CASE ProcTestsUnload
    BY <1>10 DEF ProcTestsUnload
  <1>11. CASE request_process
    BY <1>11 DEF request_process
  <1>12. CASE ProcFails
    BY <1>12 DEF ProcFails
  <1>13. CASE Inject
    BY <1>13 DEF Inject
  <1>14. CASE UNCHANGED vars
    BY <1>14 DEF vars
  <1>15. QED
    BY <1>1, <1>2, <1>3, <1>4, <1>5, <1>6, <1>7, <1>8, <1>9, <1>10, <1>11,
       <1>12, <1>13, <1>14
       DEF Next, modmgr_load, modmgr_unload, request_processor_thread

LEMMA InitProcessorInv == Init => ProcessorInv
  BY DEF Init, ProcessorInv, ProcessorOwnsItsWorld, FlagsFollowProcessor

\* While the processor runs, the channel, the registry and its entry are there,
\* although modmgr_load and modmgr_unload free them without a lock.
THEOREM ProcessorSafe == Spec => []ProcessorOwnsItsWorld
  <1>1. ProcessorInv => ProcessorOwnsItsWorld
    BY DEF ProcessorInv
  <1>2. QED
    BY <1>1, InitProcessorInv, NextProcessorInv, PTL DEF Spec

\* The flags that modmgr_load reads are those of the processor it has started.
THEOREM FlagsTrue == Spec => []FlagsFollowProcessor
  <1>1. ProcessorInv => FlagsFollowProcessor
    BY DEF ProcessorInv
  <1>2. QED
    BY <1>1, InitProcessorInv, NextProcessorInv, PTL DEF Spec
-----------------------------------------------------------------------------
(***************************************************************************)
(* A load that succeeds.                                                   *)
(***************************************************************************)

\* The flag outlives the processor, until the next load clears it, and no load
\* begins while one is past its polling; the flag is set after the buffer.
LoadInv ==
  /\ main \in {"ld_check", "ld_loaded", "ld_join"} => initialized_flag
  /\ initialized_flag \/ proc = "initialized" => rb # "none"

LEMMA NextLoadInv ==
  ASSUME LoadInv, [Next]_vars
  PROVE  LoadInv'
  <1> USE DEF LoadInv, MainGoes, ProcGoes, flags, registry, thread,
              channel, reading
  <1>1. CASE LoadStarts
    BY <1>1 DEF LoadStarts, StartsThread
  <1>2. CASE LoadFails
    BY <1>2 DEF LoadFails, StartsThread
  <1>3. CASE LoadPolls
    BY <1>3 DEF LoadPolls
  <1>4. CASE LoadChecks
    BY <1>4 DEF LoadChecks
  <1>5. CASE LoadSetsLoaded \/ LoadJoins
    BY <1>5 DEF LoadSetsLoaded, LoadJoins
  <1>6. CASE modmgr_unload
    BY <1>6 DEF modmgr_unload, UnloadBegins, UnloadFlags, UnloadSends,
                UnloadJoins, UnloadFrees
  <1>7. CASE ProcInit
    BY <1>7 DEF ProcInit
  <1>8. CASE ProcSetsInitialized
    BY <1>8 DEF ProcSetsInitialized
  <1>9. CASE ProcReads \/ ProcReadDies
    BY <1>9 DEF ProcReads, ProcReadDies
  <1>10. CASE ProcTestsUnload
    <2>1. main' = main /\ initialized_flag' = initialized_flag
      BY <1>10 DEF ProcTestsUnload
    <2>2. rb' \in {rb, "freed"} /\ proc' # "initialized"
      BY <1>10 DEF ProcTestsUnload
    <2>3. QED
      BY <2>1, <2>2
  <1>11. CASE request_process \/ ProcFails
    <2>1. /\ main' = main /\ rb' = rb /\ proc' # "initialized"
          /\ initialized_flag' = initialized_flag
      BY <1>11 DEF request_process, ProcFails
    <2>2. QED
      BY <2>1
  <1>12. CASE Inject
    BY <1>12 DEF Inject
  <1>13. CASE UNCHANGED vars
    BY <1>13 DEF vars
  <1>14. QED
    BY <1>1, <1>2, <1>3, <1>4, <1>5, <1>6, <1>7, <1>8, <1>9, <1>10, <1>11,
       <1>12, <1>13
       DEF Next, modmgr_load, request_processor_thread

\* No modmgr_load, be it the first or one after an unload, reports success before
\* its own processor has created its request buffer and said so, whatever the
\* processor has done since.
THEOREM LoadSafe == Spec => LoadedAfterInit
  <1>1. Init => LoadInv
    BY DEF Init, LoadInv
  <1>2. ASSUME LoadInv, [Next]_vars
        PROVE  [main = "ld_loaded" /\ main' = "idle" => initialized_flag /\ rb # "none"]_vars
    BY <1>2 DEF LoadInv
  <1>3. QED
    BY <1>1, <1>2, NextLoadInv, PTL DEF Spec, LoadedAfterInit
=============================================================================
