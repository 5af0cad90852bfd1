---------------------------- MODULE WviewctlUse ----------------------------
(***************************************************************************)
(* What the callers of the view controller rely on, for every number of    *)
(* clients and callbacks: the flags promise objects that exist, the count  *)
(* of a dispatch stays current, no lock is left behind, and the worker     *)
(* leaves its loop for a closed window only.                               *)
(*                                                                         *)
(* FlagsInv and CreatedInv follow Main through load and unload: what the   *)
(* two flags say at each point, and which objects exist.  The rest comes   *)
(* from the ownership of the locks (LockInv): while the worker is inside   *)
(* its loop nobody else who holds the lock changes the list, and Main, who *)
(* changes lists without a lock, is not at work or has marked the module.  *)
(***************************************************************************)
EXTENDS WviewctlLocks

AllThere == \A k \in Kinds : memory[k] = "live" /\ lock[k] # NoMutex

FlagsInv ==
  /\ pc[Main] \in {"ld_create", "ld_thread", "ld_wait", "ld_loaded", "ld_undo",
                   "ul_unloading"} => ~wvctl_loaded
  /\ pc[Main] \in {"free", "free_pop"} /\ resume # "ul_exit" => ~wvctl_loaded
  /\ wvctl_loaded /\ pc[Main] \in {"ul_destroy", "free", "free_pop", "ul_exit",
                                   "ul_loaded"} => wvctl_unloading

CreatedInv ==
  /\ pc[Main] = "ld_create" =>
       /\ object >= 2 => memory["keyboard"] = "live"
       /\ object >= 3 => lock["keyboard"] # NoMutex
       /\ object >= 4 => memory["mouse"] = "live"
       /\ object >= 5 => lock["mouse"] # NoMutex
       /\ object >= 6 => memory["draw"] = "live"
  /\ pc[Main] \in {"ld_thread", "ld_wait", "ld_loaded"} => AllThere
  /\ ~Unloading => AllThere

\* What Main's steps do to the flags.
LEMMA FlagsStep ==
  ASSUME TypeOK, FlagsInv, [Next]_vars
  PROVE  FlagsInv'
  <1> USE Distinct
  <1> USE DEF FlagsInv, Goto, TypeOK, ControlOK, flags, loading
  <1>1. CASE wvctl_load
    <2>1. CASE Load
      BY <2>1 DEF Load
    <2>2. CASE LoadCreates
      BY <2>2 DEF LoadCreates
    <2>3. CASE LoadCreateFails
      BY <2>3 DEF LoadCreateFails
    <2>4. CASE LoadStartsWorker
      BY <2>4 DEF LoadStartsWorker
    <2>5. CASE LoadStartFails
      BY <2>5 DEF LoadStartFails
    <2>6. CASE LoadWaits
      BY <2>6 DEF LoadWaits
    <2>7. CASE LoadSetsLoaded
      BY <2>7 DEF LoadSetsLoaded
    <2>8. CASE LoadClearsUnloading
      BY <2>8 DEF LoadClearsUnloading
    <2>9. CASE LoadUndo
      BY <2>9 DEF LoadUndo
    <2>10. QED
      BY <1>1, <2>1, <2>2, <2>3, <2>4, <2>5, <2>6, <2>7, <2>8, <2>9
         DEF wvctl_load
  <1>2. CASE CleanUp
    <2>1. CASE FreeDone
      BY <2>1 DEF FreeDone, LoadingOK
    <2>2. ASSUME NEW k \in Kinds,
                 \/ CountsEntries(k) \/ PopsEntry(k) \/ FreesLock(k)
                 \/ wvctl_free_mouse_cbl
          PROVE  FlagsInv'
      BY <2>2 DEF CountsEntries, PopsEntry, Frees, FreesLock,
         wvctl_free_mouse_cbl
    <2>3. QED
      BY <1>2, <2>1, <2>2
         DEF CleanUp, Kinds, wvctl_free_keyboard_cbl,
             wvctl_free_keyboard_cbl_lock, wvctl_free_mouse_cbl_lock,
             wvctl_free_draw_cbl, wvctl_free_draw_cbl_lock
  <1>3. CASE wvctl_unload
    BY <1>3 DEF wvctl_unload, Unload, UnloadDestroysWindow, UnloadFails,
       UnloadDropsExitRoutine, UnloadClearsLoaded, UnloadClearsUnloading
  <1>4. ASSUME NEW t \in Clients, NEW k \in Kinds,
               Register(t, k) \/ Unregister(t, k)
        PROVE  FlagsInv'
    <2>1. /\ wvctl_loaded' = wvctl_loaded /\ wvctl_unloading' = wvctl_unloading
          /\ resume' = resume
      BY <1>4
         DEF Register, Unregister, Enters, TestsLoaded, Acquires, Releases,
             RegisterFinds, RegisterInserts, UnregisterFinds,
             UnregisterRemoves, UnregisterFailed
    <2>2. pc'[Main] = pc[Main] \/ pc'[Main] \in ClientPoints
      BY <1>4
         DEF Register, Unregister, Enters, TestsLoaded, Acquires, Releases,
             RegisterFinds, RegisterInserts, UnregisterFinds,
             UnregisterRemoves, UnregisterFailed, Return, ClientPoints
    <2>3. QED
      BY <2>1, <2>2 DEF ClientPoints
  <1>5. ASSUME NEW t \in Clients, wvctl_redraw(t) PROVE FlagsInv'
    BY <1>5 DEF wvctl_redraw
  <1>6. CASE WorkerLoopStep
    BY <1>6 DEF WorkerLoopStep, WorkerInit, WorkerLoop, WorkerProcessed,
       WorkerTestsRedraw, WorkerPosts, WorkerClearsRedraw,
       WorkerTestsExitRoutine, WorkerCallsExitRoutine
  <1>7. CASE Event
    BY <1>7 DEF Event, UserEvent, wview_keyboard_func, wview_mouse_func,
       wview_display_func, wvctl_closewnd_routine, WindowReaped
  <1>8. ASSUME NEW k \in Kinds, Routine(k) PROVE FlagsInv'
    BY <1>8 DEF Routine, DispatchTestsLoaded, DispatchTestsUnloading,
       DispatchAcquires, DispatchCounts, DispatchCalls, DispatchEnds,
       DispatchReleases, EndsPass
  <1>9. CASE UNCHANGED vars
    BY <1>9 DEF vars
  <1>10. QED
    BY <1>1, <1>2, <1>3, <1>4, <1>5, <1>6, <1>7, <1>8, <1>9, NextCases

\* The clean-up is part of an unload, or of a load that has not set the flag.
LEMMA CleanUpUnloads ==
  ASSUME TypeOK, FlagsInv, CleanUp
  PROVE  /\ Unloading'
         /\ pc'[Main] \notin {"ld_create", "ld_thread", "ld_wait", "ld_loaded"}
  <1> USE Distinct
  <1> USE DEF Goto, TypeOK, ControlOK, flags, loading
  <1>1. /\ pc[Main] \in {"free", "free_pop"}
        /\ wvctl_loaded' = wvctl_loaded /\ resume' = resume
    BY DEF CleanUp, wvctl_free_keyboard_cbl, wvctl_free_keyboard_cbl_lock,
           wvctl_free_mouse_cbl, wvctl_free_mouse_cbl_lock,
           wvctl_free_draw_cbl, wvctl_free_draw_cbl_lock, CountsEntries,
           PopsEntry, Frees, FreesLock, FreeDone
  <1>2. pc'[Main] \in {"free", "free_pop", resume}
    BY DEF CleanUp, wvctl_free_keyboard_cbl, wvctl_free_keyboard_cbl_lock,
           wvctl_free_mouse_cbl, wvctl_free_mouse_cbl_lock,
           wvctl_free_draw_cbl, wvctl_free_draw_cbl_lock, CountsEntries,
           PopsEntry, Frees, FreesLock, FreeDone
  <1>3. Unloading'
    BY <1>1, <1>2 DEF Unloading, FlagsInv
  <1>4. QED
    BY <1>2, <1>3 DEF LoadingOK

\* A step that creates and destroys nothing, and does not finish an unload.
LEMMA CreatedKept ==
  ASSUME CreatedInv, memory' = memory, object' = object,
         \A k \in Kinds : lock[k] # NoMutex => lock'[k] # NoMutex,
         Unloading => Unloading',
         pc'[Main] \in {"ld_create", "ld_thread", "ld_wait", "ld_loaded"} =>
           pc'[Main] = pc[Main]
  PROVE  CreatedInv'
  <1>1. AllThere => AllThere'
    BY DEF AllThere
  <1>2. "keyboard" \in Kinds /\ "mouse" \in Kinds /\ "draw" \in Kinds
    BY DEF Kinds
  <1>3. pc'[Main] = "ld_create" => pc[Main] = "ld_create"
    OBVIOUS
  <1>4. ~Unloading' => AllThere'
    BY <1>1 DEF CreatedInv
  <1>5. pc'[Main] \in {"ld_thread", "ld_wait", "ld_loaded"} => AllThere'
    BY <1>1 DEF CreatedInv
  <1> HIDE DEF AllThere, Unloading
  <1>6. QED
    BY <1>2, <1>3, <1>4, <1>5 DEF CreatedInv

\* Which objects exist, step by step.
LEMMA CreatedStep ==
  ASSUME TypeOK, FlagsInv, CreatedInv, [Next]_vars
  PROVE  CreatedInv'
  <1> USE Distinct
  <1> USE DEF Goto, TypeOK, ControlOK, flags, lists, loading
  <1>0. Unlocked # NoMutex
    BY DEF Unlocked, NoMutex
  <1>1. CASE wvctl_load
    <2>1. CASE Load
      BY <2>1 DEF Load, CreatedInv, Unloading, AllThere
    <2>2. CASE LoadCreates
      <3>1. pc[Main] = "ld_create" /\ object \in 1..6 /\ object' = object + 1
        BY <2>2 DEF LoadCreates, LoadingOK
      <3>2. ~wvctl_loaded /\ ~wvctl_loaded'
        BY <2>2, <3>1 DEF LoadCreates, FlagsInv
      <3>3. pc'[Main] = IF object = 6 THEN "ld_thread" ELSE "ld_create"
        BY <2>2, ObjectsFacts DEF LoadCreates
      <3>4. CASE object = 1
        <4>1. Objects[object] = [kind |-> "keyboard", what |-> "list"]
          BY <3>4 DEF Objects
        <4>2. memory' = [memory EXCEPT !["keyboard"] = "live"]
          BY <2>2, <4>1 DEF LoadCreates
        <4>3. QED
          BY <3>1, <3>2, <3>3, <3>4, <4>2 DEF CreatedInv, Unloading, ListsOK,
             Kinds
      <3>5. CASE object = 2
        <4>1. Objects[object] = [kind |-> "keyboard", what |-> "lock"]
          BY <3>5 DEF Objects
        <4>2. memory' = memory /\ lock' = [lock EXCEPT !["keyboard"] = Unlocked]
          BY <2>2, <4>1 DEF LoadCreates, Created
        <4>3. \A k \in Kinds : lock'[k] # NoMutex <=> k = "keyboard" \/ lock[k] # NoMutex
          BY <1>0, <4>2 DEF ListsOK
        <4>4. /\ pc'[Main] = "ld_create" /\ object' = 3
              /\ \A k \in Kinds : memory'[k] = memory[k]
          BY <3>1, <3>3, <3>5, <4>2
        <4>5. "keyboard" \in Kinds /\ "mouse" \in Kinds
          BY DEF Kinds
        <4>6. QED
          BY <3>1, <3>2, <3>5, <4>3, <4>4, <4>5 DEF CreatedInv, Unloading
      <3>6. CASE object = 3
        <4>1. Objects[object] = [kind |-> "mouse", what |-> "list"]
          BY <3>6 DEF Objects
        <4>2. lock' = lock /\ memory' = [memory EXCEPT !["mouse"] = "live"]
          BY <2>2, <4>1 DEF LoadCreates
        <4>3. QED
          BY <3>1, <3>2, <3>3, <3>6, <4>2 DEF CreatedInv, Unloading, ListsOK,
             Kinds
      <3>7. CASE object = 4
        <4>1. Objects[object] = [kind |-> "mouse", what |-> "lock"]
          BY <3>7 DEF Objects
        <4>2. memory' = memory /\ lock' = [lock EXCEPT !["mouse"] = Unlocked]
          BY <2>2, <4>1 DEF LoadCreates, Created
        <4>3. \A k \in Kinds : lock'[k] # NoMutex <=> k = "mouse" \/ lock[k] # NoMutex
          BY <1>0, <4>2 DEF ListsOK
        <4>4. /\ pc'[Main] = "ld_create" /\ object' = 5
              /\ \A k \in Kinds : memory'[k] = memory[k]
          BY <3>1, <3>3, <3>7, <4>2
        <4>5. "keyboard" \in Kinds /\ "mouse" \in Kinds
          BY DEF Kinds
        <4>6. QED
          BY <3>1, <3>2, <3>7, <4>3, <4>4, <4>5 DEF CreatedInv, Unloading
      <3>8. CASE object = 5
        <4>1. Objects[object] = [kind |-> "draw", what |-> "list"]
          BY <3>8 DEF Objects
        <4>2. lock' = lock /\ memory' = [memory EXCEPT !["draw"] = "live"]
          BY <2>2, <4>1 DEF LoadCreates
        <4>3. QED
          BY <3>1, <3>2, <3>3, <3>8, <4>2 DEF CreatedInv, Unloading, ListsOK,
             Kinds
      <3>9. CASE object = 6
        <4>1. Objects[object] = [kind |-> "draw", what |-> "lock"]
          BY <3>9 DEF Objects
        <4>2. memory' = memory /\ lock' = [lock EXCEPT !["draw"] = Unlocked]
          BY <2>2, <4>1 DEF LoadCreates, Created
        <4>3. \A k \in Kinds : lock'[k] # NoMutex <=> k = "draw" \/ lock[k] # NoMutex
          BY <1>0, <4>2 DEF ListsOK
        <4>4. \A k \in Kinds : memory'[k] = "live" /\ (k = "draw" \/ lock[k] # NoMutex)
          BY <3>1, <3>9, <4>2 DEF CreatedInv, Kinds
        <4>5. AllThere'
          BY <4>3, <4>4 DEF AllThere
        <4>6. QED
          BY <3>2, <3>3, <3>9, <4>5 DEF CreatedInv, Unloading
      <3>10. QED
        BY <3>1, <3>4, <3>5, <3>6, <3>7, <3>8, <3>9
    <2>3. CASE LoadSetsLoaded
      BY <2>3 DEF LoadSetsLoaded, CreatedInv, AllThere
    <2>4. CASE LoadStartsWorker
      BY <2>4 DEF LoadStartsWorker, CreatedInv, AllThere, Unloading, FlagsInv
    <2>5. CASE LoadWaits
      BY <2>5 DEF LoadWaits, CreatedInv, AllThere, Unloading, FlagsInv
    <2>6. CASE LoadCreateFails
      BY <2>6 DEF LoadCreateFails, CreatedInv, AllThere, Unloading, FlagsInv
    <2>7. CASE LoadStartFails
      BY <2>7 DEF LoadStartFails, CreatedInv, AllThere, Unloading, FlagsInv
    <2>8. CASE LoadClearsUnloading \/ LoadUndo
      BY <2>8 DEF LoadClearsUnloading, LoadUndo, CreatedInv, AllThere,
         Unloading, FlagsInv
    <2>9. QED
      BY <1>1, <2>1, <2>2, <2>3, <2>4, <2>5, <2>6, <2>7, <2>8 DEF wvctl_load
  <1>2. CASE CleanUp
    BY <1>2, CleanUpUnloads DEF CreatedInv
  <1>3. CASE wvctl_unload
    <2>1. memory' = memory /\ lock' = lock
      BY <1>3 DEF wvctl_unload, Unload, UnloadDestroysWindow, UnloadFails,
         UnloadDropsExitRoutine, UnloadClearsLoaded, UnloadClearsUnloading
    <2>2. pc'[Main] \notin {"ld_create", "ld_thread", "ld_wait", "ld_loaded"}
      BY <1>3 DEF wvctl_unload, Unload, UnloadDestroysWindow, UnloadFails,
         UnloadDropsExitRoutine, UnloadClearsLoaded, UnloadClearsUnloading
    <2>3. Unloading => Unloading'
      BY <1>3 DEF wvctl_unload, Unload, UnloadDestroysWindow, UnloadFails,
         UnloadDropsExitRoutine, UnloadClearsLoaded, UnloadClearsUnloading,
         Unloading, FlagsInv
    <2>4. QED
      BY <2>1, <2>2, <2>3 DEF CreatedInv, AllThere
  <1>4. ASSUME NEW t \in Clients, NEW k \in Kinds,
               Register(t, k) \/ Unregister(t, k)
        PROVE  CreatedInv'
    <2>1. memory' = memory /\ object' = object /\ wvctl_loaded' = wvctl_loaded
      BY <1>4
         DEF Register, Unregister, Enters, TestsLoaded, Acquires, Releases,
             RegisterFinds, RegisterInserts, UnregisterFinds,
             UnregisterRemoves, UnregisterFailed
    <2>2. \/ lock' = lock
          \/ lock' = [lock EXCEPT ![k] = t]
          \/ lock' = [lock EXCEPT ![k] = Released(lock[k])]
      BY <1>4
         DEF Register, Unregister, Enters, TestsLoaded, Acquires, Releases,
             RegisterFinds, RegisterInserts, UnregisterFinds,
             UnregisterRemoves, UnregisterFailed
    <2>3. \A j \in Kinds : lock[j] # NoMutex => lock'[j] # NoMutex
      BY <2>2 DEF ListsOK, Released, Unlocked, NoMutex
    <2>4. \/ pc'[Main] = pc[Main]
          \/ pc[Main] \in ClientPoints /\ pc'[Main] \in ClientPoints
      BY <1>4
         DEF Register, Unregister, Enters, TestsLoaded, Acquires, Releases,
             RegisterFinds, RegisterInserts, UnregisterFinds,
             UnregisterRemoves, UnregisterFailed, Return, ClientPoints
    <2>5. Unloading => Unloading'
      BY <2>1, <2>4 DEF Unloading, ClientPoints
    <2>6. pc'[Main] \in {"ld_create", "ld_thread", "ld_wait", "ld_loaded"} =>
            pc'[Main] = pc[Main]
      BY <2>4 DEF ClientPoints
    <2>7. QED
      BY <2>1, <2>3, <2>5, <2>6, CreatedKept
  <1>5. ASSUME NEW t \in Clients, wvctl_redraw(t) PROVE CreatedInv'
    BY <1>5, CreatedKept DEF wvctl_redraw, Unloading
  <1>6. CASE WorkerLoopStep \/ Event
    <2>1. /\ memory' = memory /\ lock' = lock /\ object' = object
          /\ pc'[Main] = pc[Main] /\ wvctl_loaded' = wvctl_loaded
      BY <1>6
         DEF WorkerLoopStep, WorkerInit, WorkerLoop, WorkerProcessed,
             WorkerTestsRedraw, WorkerPosts, WorkerClearsRedraw,
             WorkerTestsExitRoutine, WorkerCallsExitRoutine, Event, UserEvent,
             wview_keyboard_func, wview_mouse_func, wview_display_func,
             wvctl_closewnd_routine, WindowReaped
    <2>2. QED
      BY <2>1, CreatedKept DEF Unloading
  <1>7. ASSUME NEW k \in Kinds, Routine(k) PROVE CreatedInv'
    <2>1. /\ memory' = memory /\ object' = object
          /\ pc'[Main] = pc[Main] /\ wvctl_loaded' = wvctl_loaded
      BY <1>7 DEF Routine, DispatchTestsLoaded, DispatchTestsUnloading,
         DispatchAcquires, DispatchCounts, DispatchCalls, DispatchEnds,
         DispatchReleases, EndsPass
    <2>2. \/ lock' = lock
          \/ lock' = [lock EXCEPT ![k] = Worker]
          \/ lock' = [lock EXCEPT ![k] = Released(lock[k])]
      BY <1>7 DEF Routine, DispatchTestsLoaded, DispatchTestsUnloading,
         DispatchAcquires, DispatchCounts, DispatchCalls, DispatchEnds,
         DispatchReleases, EndsPass
    <2>3. \A j \in Kinds : lock[j] # NoMutex => lock'[j] # NoMutex
      BY <2>2 DEF ListsOK, Released, Unlocked, NoMutex
    <2>4. QED
      BY <2>1, <2>3, CreatedKept DEF Unloading
  <1>8. CASE UNCHANGED vars
    BY <1>8, CreatedKept DEF vars, Unloading
  <1>9. QED
    BY <1>1, <1>2, <1>3, <1>4, <1>5, <1>6, <1>7, <1>8, NextCases

UseInv == LockInv /\ FlagsInv /\ CreatedInv

LEMMA InitUse == Init => UseInv
  <1> SUFFICES ASSUME Init PROVE UseInv
    OBVIOUS
  <1>1. LockInv
    BY InitTypeOK, Distinct
       DEF Init, LockInv, LoopInv, EarlyInv, EarlyPoints, HoldsInv, RemoveInv,
           InSection, Clients
  <1>2. FlagsInv /\ CreatedInv
    BY Distinct DEF Init, FlagsInv, CreatedInv, Unloading
  <1>3. QED
    BY <1>1, <1>2 DEF UseInv

LEMMA StepUse == UseInv /\ [Next]_vars => UseInv'
  BY StepTypeOK, LoopStep, EarlyStep, HoldsStep, RemoveStep, FlagsStep, CreatedStep
     DEF UseInv, LockInv

\* While a caller would find the module loaded and not unloading, all lists and
\* all locks exist, whatever load or unload is in progress and wherever a load
\* failed before.
THEOREM LoadedIsUsable == Spec => []LoadedMeansUsable
  <1>1. UseInv => LoadedMeansUsable
    BY DEF UseInv, FlagsInv, CreatedInv, LoadedMeansUsable, AllThere, Unloading
  <1>2. QED
    BY <1>1, InitUse, StepUse, PTL DEF Spec
-----------------------------------------------------------------------------
\* Inside: behind the worker's tests of the two flags.
Inside == {"dp_unloading", "dp_acquire", "dp_count", "dp_call", "dp_release"}

DispatchInv ==
  /\ pc[Main] \in {"ld_wait", "ld_loaded"} => pc[Worker] \notin Inside
  /\ pc[Worker] \in DispatchPoints => kind[Worker] \in Kinds

\* The worker gets behind its tests only once the module is loaded.
LEMMA DispatchStep ==
  ASSUME TypeOK, LoopInv, FlagsInv, DispatchInv, [Next]_vars
  PROVE  DispatchInv'
  <1> USE Distinct
  <1> USE DEF DispatchInv, Inside, DispatchPoints, Goto, TypeOK, ControlOK,
          flags, calls
  <1>1. CASE wvctl_load
    BY <1>1 DEF wvctl_load, Load, LoadCreates, LoadCreateFails,
       LoadStartsWorker, LoadStartFails, LoadWaits, LoadSetsLoaded,
       LoadClearsUnloading, LoadUndo, LoopInv
  <1>2. CASE CleanUp
    <2>1. pc'[Worker] = pc[Worker] /\ kind' = kind
      BY <1>2
         DEF CleanUp, wvctl_free_keyboard_cbl, wvctl_free_keyboard_cbl_lock,
             wvctl_free_mouse_cbl, wvctl_free_mouse_cbl_lock,
             wvctl_free_draw_cbl, wvctl_free_draw_cbl_lock, CountsEntries,
             PopsEntry, Frees, FreesLock, FreeDone
    <2>2. QED
      BY <1>2, <2>1, CleanUpUnloads
  <1>3. CASE wvctl_unload
    BY <1>3 DEF wvctl_unload, Unload, UnloadDestroysWindow, UnloadFails,
       UnloadDropsExitRoutine, UnloadClearsLoaded, UnloadClearsUnloading
  <1>4. ASSUME NEW t \in Clients, NEW k \in Kinds,
               Register(t, k) \/ Unregister(t, k)
        PROVE  DispatchInv'
    <2>1. pc'[Worker] = pc[Worker] /\ kind'[Worker] = kind[Worker]
      BY <1>4
         DEF Register, Unregister, Enters, TestsLoaded, Acquires, Releases,
             RegisterFinds, RegisterInserts, UnregisterFinds,
             UnregisterRemoves, UnregisterFailed, Return, CallsOK
    <2>2. pc'[Main] = pc[Main] \/ pc'[Main] \in ClientPoints
      BY <1>4
         DEF Register, Unregister, Enters, TestsLoaded, Acquires, Releases,
             RegisterFinds, RegisterInserts, UnregisterFinds,
             UnregisterRemoves, UnregisterFailed, Return, ClientPoints
    <2>3. QED
      BY <2>1, <2>2 DEF ClientPoints
  <1>5. ASSUME NEW t \in Clients, wvctl_redraw(t) PROVE DispatchInv'
    BY <1>5 DEF wvctl_redraw
  <1>6. CASE WorkerLoopStep
    BY <1>6 DEF WorkerLoopStep, WorkerInit, WorkerLoop, WorkerProcessed,
       WorkerTestsRedraw, WorkerPosts, WorkerClearsRedraw,
       WorkerTestsExitRoutine, WorkerCallsExitRoutine
  <1>7. CASE Event
    BY <1>7 DEF Event, UserEvent, wview_keyboard_func, wview_mouse_func,
       wview_display_func, wvctl_closewnd_routine, WindowReaped, CallsOK, Kinds
  <1>8. ASSUME NEW k \in Kinds, Routine(k) PROVE DispatchInv'
    <2>1. pc'[Main] = pc[Main]
      BY <1>8 DEF Routine, DispatchTestsLoaded, DispatchTestsUnloading,
         DispatchAcquires, DispatchCounts, DispatchCalls, DispatchEnds,
         DispatchReleases, EndsPass
    <2>2. pc'[Worker] \in Inside => pc[Worker] \in Inside \/ wvctl_loaded
      BY <1>8 DEF Routine, DispatchTestsLoaded, DispatchTestsUnloading,
         DispatchAcquires, DispatchCounts, DispatchCalls, DispatchEnds,
         DispatchReleases, EndsPass
    <2>3. \/ kind'[Worker] = kind[Worker]
          \/ pc'[Worker] = "process"
      BY <1>8 DEF Routine, DispatchTestsLoaded, DispatchTestsUnloading,
         DispatchAcquires, DispatchCounts, DispatchCalls, DispatchEnds,
         DispatchReleases, EndsPass
    <2>4. kind[Worker] = k
      BY <1>8 DEF Routine, DispatchTestsLoaded, DispatchTestsUnloading,
         DispatchAcquires, DispatchCounts, DispatchCalls, DispatchEnds,
         DispatchReleases
    <2>5. QED
      BY <2>1, <2>2, <2>3, <2>4 DEF FlagsInv
  <1>9. CASE UNCHANGED vars
    BY <1>9 DEF vars
  <1>10. QED
    BY <1>1, <1>2, <1>3, <1>4, <1>5, <1>6, <1>7, <1>8, <1>9, NextCases

\* A step of which the worker's loop sees nothing.
LEMMA CountKept ==
  ASSUME CountStaysCurrent, count' = count, kind'[Worker] = kind[Worker],
         Unloading => Unloading', pc'[Worker] = "dp_call" => pc[Worker] = "dp_call",
         pc[Worker] = "dp_call" /\ ~Unloading =>
           cbl'[kind[Worker]] = cbl[kind[Worker]]
  PROVE  CountStaysCurrent'
  BY DEF CountStaysCurrent

\* Every step keeps the count while nobody unloads.
LEMMA CountStep ==
  ASSUME TypeOK, LoopInv, FlagsInv, CreatedInv, HoldsInv, DispatchInv,
         CountStaysCurrent, [Next]_vars
  PROVE  CountStaysCurrent'
  <1> USE Distinct
  <1> USE DEF Goto, TypeOK, ControlOK, flags, lists, calls, dispatch
  <1>1. CASE wvctl_load
    <2>1. CASE LoadCreates
      <3>1. ~wvctl_loaded'
        BY <2>1 DEF LoadCreates, FlagsInv
      <3>2. QED
        BY <3>1 DEF CountStaysCurrent, Unloading
    <2>2. CASE LoadSetsLoaded
      <3>1. pc'[Worker] # "dp_call"
        BY <2>2 DEF LoadSetsLoaded, DispatchInv, Inside
      <3>2. QED
        BY <3>1 DEF CountStaysCurrent
    <2>3. CASE ~LoadCreates /\ ~LoadSetsLoaded
      <3>1. /\ cbl' = cbl /\ count' = count /\ kind' = kind
            /\ pc'[Worker] = "dp_call" => pc[Worker] = "dp_call"
        BY <1>1, <2>3
           DEF wvctl_load, Load, LoadCreateFails, LoadStartsWorker,
               LoadStartFails, LoadWaits, LoadClearsUnloading, LoadUndo
      <3>2. Unloading => Unloading'
        BY <1>1, <2>3
           DEF wvctl_load, Load, LoadCreateFails, LoadStartsWorker,
               LoadStartFails, LoadWaits, LoadClearsUnloading, LoadUndo,
               Unloading, FlagsInv
      <3>3. QED
        BY <3>1, <3>2, CountKept
    <2>4. QED
      BY <2>1, <2>2, <2>3
  <1>2. CASE CleanUp
    BY <1>2, CleanUpUnloads DEF CountStaysCurrent
  <1>3. CASE wvctl_unload
    <2>1. /\ cbl' = cbl /\ count' = count /\ kind' = kind
          /\ pc'[Worker] = pc[Worker]
      BY <1>3 DEF wvctl_unload, Unload, UnloadDestroysWindow, UnloadFails,
         UnloadDropsExitRoutine, UnloadClearsLoaded, UnloadClearsUnloading
    <2>2. Unloading => Unloading'
      BY <1>3 DEF wvctl_unload, Unload, UnloadDestroysWindow, UnloadFails,
         UnloadDropsExitRoutine, UnloadClearsLoaded, UnloadClearsUnloading,
         Unloading, FlagsInv
    <2>3. QED
      BY <2>1, <2>2, CountKept
  <1>4. ASSUME NEW t \in Clients, NEW k \in Kinds,
               Register(t, k) \/ Unregister(t, k)
        PROVE  CountStaysCurrent'
    <2>1. /\ pc'[Worker] = pc[Worker] /\ kind'[Worker] = kind[Worker]
          /\ count' = count /\ wvctl_loaded' = wvctl_loaded
      BY <1>4
         DEF Register, Unregister, Enters, TestsLoaded, Acquires, Releases,
             RegisterFinds, RegisterInserts, UnregisterFinds,
             UnregisterRemoves, UnregisterFailed, Return, CallsOK
    <2>2. pc'[Main] = pc[Main] \/ pc[Main] \in ClientPoints
      BY <1>4
         DEF Register, Unregister, Enters, TestsLoaded, Acquires, Releases,
             RegisterFinds, RegisterInserts, UnregisterFinds,
             UnregisterRemoves, UnregisterFailed, Return, ClientPoints
    <2>3. Unloading => Unloading'
      BY <2>1, <2>2 DEF Unloading, ClientPoints
    <2>4. \/ cbl' = cbl
          \/ /\ InSection(t, k)
             /\ \A j \in Kinds \ {k} : cbl'[j] = cbl[j]
      BY <1>4
         DEF Register, Unregister, Enters, TestsLoaded, Acquires, Releases,
             RegisterFinds, RegisterInserts, UnregisterFinds,
             UnregisterRemoves, UnregisterFailed, InSection, ListsOK
    <2>5. ASSUME pc[Worker] = "dp_call", ~Unloading
          PROVE  cbl'[kind[Worker]] = cbl[kind[Worker]]
      <3>1. kind[Worker] \in Kinds /\ InSection(Worker, kind[Worker])
        BY <2>5 DEF DispatchInv, DispatchPoints, InSection
      <3>2. \A j \in Kinds : memory[j] = "live"
        BY <2>5 DEF CreatedInv, AllThere
      <3>3. InSection(t, k) => kind[Worker] # k
        BY <3>1, <3>2 DEF HoldsInv
      <3>4. QED
        BY <2>4, <3>1, <3>3
    <2>6. QED
      BY <2>1, <2>3, <2>5, CountKept
  <1>5. ASSUME NEW t \in Clients, wvctl_redraw(t) PROVE CountStaysCurrent'
    BY <1>5, CountKept DEF wvctl_redraw, Unloading
  <1>6. CASE WorkerLoopStep \/ Event
    <2>1. pc'[Worker] = "dp_call" => UNCHANGED <<pc, count, kind, cbl, wvctl_loaded>>
      BY <1>6
         DEF WorkerLoopStep, WorkerInit, WorkerLoop, WorkerProcessed,
             WorkerTestsRedraw, WorkerPosts, WorkerClearsRedraw,
             WorkerTestsExitRoutine, WorkerCallsExitRoutine, Event, UserEvent,
             wview_keyboard_func, wview_mouse_func, wview_display_func,
             wvctl_closewnd_routine, WindowReaped
    <2>2. QED
      BY <2>1 DEF CountStaysCurrent, Unloading
  <1>7. ASSUME NEW k \in Kinds, Routine(k) PROVE CountStaysCurrent'
    <2>1. CASE DispatchCounts(k)
      BY <2>1 DEF DispatchCounts, CountStaysCurrent
    <2>2. CASE DispatchCalls(k)
      BY <2>2, CountKept DEF DispatchCalls, Unloading
    <2>3. CASE ~DispatchCounts(k) /\ ~DispatchCalls(k)
      <3>1. pc'[Worker] # "dp_call"
        BY <1>7, <2>3 DEF Routine, DispatchTestsLoaded, DispatchTestsUnloading,
           DispatchAcquires, DispatchEnds, DispatchReleases, EndsPass
      <3>2. QED
        BY <3>1 DEF CountStaysCurrent
    <2>4. QED
      BY <2>1, <2>2, <2>3
  <1>8. CASE UNCHANGED vars
    BY <1>8, CountKept DEF vars, Unloading
  <1>9. QED
    BY <1>1, <1>2, <1>3, <1>4, <1>5, <1>6, <1>7, <1>8, NextCases

\* As long as nobody unloads the module, the number of entries that a routine
\* has read stays the length of its list: every callback registered is called.
THEOREM CountCurrent == Spec => []CountStaysCurrent
  <1> DEFINE Inv == UseInv /\ DispatchInv /\ CountStaysCurrent
  <1>1. Init => Inv
    BY InitUse, Distinct DEF Init, DispatchInv, DispatchPoints, CountStaysCurrent
  <1>2. Inv /\ [Next]_vars => Inv'
    BY StepUse, DispatchStep, CountStep DEF UseInv, LockInv
  <1>3. Inv => CountStaysCurrent
    OBVIOUS
  <1> HIDE DEF Inv
  <1>4. QED
    BY <1>1, <1>2, <1>3, PTL DEF Spec
-----------------------------------------------------------------------------
CloseInv ==
  /\ wvctl_closed => win = "gone"
  /\ pc[Worker] \in {"unborn", "init"} => win = "none"

\* A window that is gone stays gone, and the flag is set with it.
LEMMA CloseStep ==
  ASSUME TypeOK, LoopInv, CloseInv, LoopEndsOnClose, [Next]_vars
  PROVE  CloseInv' /\ LoopEndsOnClose'
  <1> USE Distinct
  <1> USE DEF CloseInv, LoopEndsOnClose, Goto, TypeOK, ControlOK, flags, window
  <1>1. CASE wvctl_load
    BY <1>1 DEF wvctl_load, Load, LoadCreates, LoadCreateFails,
       LoadStartsWorker, LoadStartFails, LoadWaits, LoadSetsLoaded,
       LoadClearsUnloading, LoadUndo, LoopInv
  <1>2. CASE CleanUp
    <2>1. pc'[Worker] = pc[Worker] /\ win' = win /\ wvctl_closed' = wvctl_closed
      BY <1>2
         DEF CleanUp, wvctl_free_keyboard_cbl, wvctl_free_keyboard_cbl_lock,
             wvctl_free_mouse_cbl, wvctl_free_mouse_cbl_lock,
             wvctl_free_draw_cbl, wvctl_free_draw_cbl_lock, CountsEntries,
             PopsEntry, Frees, FreesLock, FreeDone
    <2>2. QED
      BY <2>1
  <1>3. CASE wvctl_unload
    BY <1>3 DEF wvctl_unload, Unload, UnloadDestroysWindow, UnloadFails,
       UnloadDropsExitRoutine, UnloadClearsLoaded, UnloadClearsUnloading
  <1>4. ASSUME NEW t \in Clients, NEW k \in Kinds,
               Register(t, k) \/ Unregister(t, k)
        PROVE  CloseInv' /\ LoopEndsOnClose'
    <2>1. pc'[Worker] = pc[Worker] /\ win' = win /\ wvctl_closed' = wvctl_closed
      BY <1>4
         DEF Register, Unregister, Enters, TestsLoaded, Acquires, Releases,
             RegisterFinds, RegisterInserts, UnregisterFinds,
             UnregisterRemoves, UnregisterFailed, Return
    <2>2. QED
      BY <2>1
  <1>5. ASSUME NEW t \in Clients, wvctl_redraw(t)
        PROVE  CloseInv' /\ LoopEndsOnClose'
    BY <1>5 DEF wvctl_redraw
  <1>6. CASE WorkerLoopStep
    BY <1>6 DEF WorkerLoopStep, WorkerInit, WorkerLoop, WorkerProcessed,
       WorkerTestsRedraw, WorkerPosts, WorkerClearsRedraw,
       WorkerTestsExitRoutine, WorkerCallsExitRoutine
  <1>7. CASE Event
    BY <1>7 DEF Event, UserEvent, wview_keyboard_func, wview_mouse_func,
       wview_display_func, wvctl_closewnd_routine, WindowReaped
  <1>8. ASSUME NEW k \in Kinds, Routine(k) PROVE CloseInv' /\ LoopEndsOnClose'
    BY <1>8 DEF Routine, DispatchTestsLoaded, DispatchTestsUnloading,
       DispatchAcquires, DispatchCounts, DispatchCalls, DispatchEnds,
       DispatchReleases, EndsPass
  <1>9. CASE UNCHANGED vars
    BY <1>9 DEF vars
  <1>10. QED
    BY <1>1, <1>2, <1>3, <1>4, <1>5, <1>6, <1>7, <1>8, <1>9, NextCases

\* The worker leaves its main loop, and calls the exit routine, only when the
\* window is gone, however loads, unloads and events interleave.
THEOREM LoopEnds == Spec => []LoopEndsOnClose
  <1> DEFINE Inv == TypeOK /\ LoopInv /\ CloseInv /\ LoopEndsOnClose
  <1>1. Init => Inv
    BY InitTypeOK, Distinct DEF Init, LoopInv, CloseInv, LoopEndsOnClose
  <1>2. Inv /\ [Next]_vars => Inv'
    BY StepTypeOK, LoopStep, CloseStep
  <1>3. Inv => LoopEndsOnClose
    OBVIOUS
  <1> HIDE DEF Inv
  <1>4. QED
    BY <1>1, <1>2, <1>3, PTL DEF Spec
-----------------------------------------------------------------------------
\* A step that changes no lock, and takes no thread out of a section, leaves no
\* lock behind.
LEMMA BackKept ==
  ASSUME LocksComeBack,
         \A k \in Kinds, t \in Threads : lock'[k] = t => lock[k] = t,
         \A k \in Kinds, t \in Threads : InSection(t, k) => InSection(t, k)'
  PROVE  LocksComeBack'
  BY DEF LocksComeBack

\* A thread that has acquired a lock is in the section of that list.
LEMMA BackAcquired ==
  ASSUME LocksComeBack, NEW k \in Kinds, NEW t \in Threads,
         \A j \in Kinds : ~InSection(t, j), InSection(t, k)',
         \A j \in Kinds : j # k => lock'[j] = lock[j], lock'[k] = t,
         \A u \in Threads : u # t => pc'[u] = pc[u] /\ kind'[u] = kind[u]
  PROVE  LocksComeBack'
  <1> SUFFICES ASSUME NEW j \in Kinds, NEW u \in Threads, lock'[j] = u
               PROVE  InSection(u, j)'
    BY DEF LocksComeBack
  <1>1. CASE j = k
    BY <1>1
  <1>2. CASE j # k
    <2>1. InSection(u, j)
      BY <1>2 DEF LocksComeBack
    <2>2. u # t
      BY <2>1
    <2>3. QED
      BY <2>1, <2>2 DEF InSection
  <1>3. QED
    BY <1>1, <1>2

\* Every step that takes a thread out of a section releases the lock.
LEMMA BackStep ==
  ASSUME TypeOK, LoopInv, LocksComeBack, [Next]_vars
  PROVE  LocksComeBack'
  <1> USE Distinct
  <1> USE DEF Goto, TypeOK, ControlOK, flags, lists, calls, dispatch
  <1>0. Unlocked \notin Threads /\ NoMutex \notin Threads
    BY ThreadsAssumption
  <1>1. CASE wvctl_load
    <2>1. \A k \in Kinds, t \in Threads : lock'[k] = t => lock[k] = t
      BY <1>0, <1>1
         DEF wvctl_load, Load, LoadCreates, LoadCreateFails, LoadStartsWorker,
             LoadStartFails, LoadWaits, LoadSetsLoaded, LoadClearsUnloading,
             LoadUndo, Created, ListsOK
    <2>2. \A k \in Kinds, t \in Threads : InSection(t, k) => InSection(t, k)'
      BY <1>1
         DEF wvctl_load, Load, LoadCreates, LoadCreateFails, LoadStartsWorker,
             LoadStartFails, LoadWaits, LoadSetsLoaded, LoadClearsUnloading,
             LoadUndo, InSection, LoopInv
    <2>3. QED
      BY <2>1, <2>2, BackKept
  <1>2. CASE CleanUp
    <2>1. \A k \in Kinds, t \in Threads : lock'[k] = t => lock[k] = t
      BY <1>0, <1>2
         DEF CleanUp, wvctl_free_keyboard_cbl, wvctl_free_keyboard_cbl_lock,
             wvctl_free_mouse_cbl, wvctl_free_mouse_cbl_lock,
             wvctl_free_draw_cbl, wvctl_free_draw_cbl_lock, CountsEntries,
             PopsEntry, FreesLock, FreeDone, Destroyed, ListsOK
    <2>2. kind' = kind /\ \A t \in Threads : t # Main => pc'[t] = pc[t]
      BY <1>2
         DEF CleanUp, wvctl_free_keyboard_cbl, wvctl_free_keyboard_cbl_lock,
             wvctl_free_mouse_cbl, wvctl_free_mouse_cbl_lock,
             wvctl_free_draw_cbl, wvctl_free_draw_cbl_lock, CountsEntries,
             PopsEntry, FreesLock, FreeDone
    <2>3. pc[Main] \in {"free", "free_pop"}
      BY <1>2
         DEF CleanUp, wvctl_free_keyboard_cbl, wvctl_free_keyboard_cbl_lock,
             wvctl_free_mouse_cbl, wvctl_free_mouse_cbl_lock,
             wvctl_free_draw_cbl, wvctl_free_draw_cbl_lock, CountsEntries,
             PopsEntry, Frees, FreesLock, FreeDone
    <2>4. \A k \in Kinds, t \in Threads : InSection(t, k) => InSection(t, k)'
      BY <2>2, <2>3 DEF InSection
    <2>5. QED
      BY <2>1, <2>4, BackKept
  <1>3. CASE wvctl_unload
    <2>1. lock' = lock
      BY <1>3 DEF wvctl_unload, Unload, UnloadDestroysWindow, UnloadFails,
         UnloadDropsExitRoutine, UnloadClearsLoaded, UnloadClearsUnloading
    <2>2. \A k \in Kinds, t \in Threads : InSection(t, k) => InSection(t, k)'
      BY <1>3
         DEF wvctl_unload, Unload, UnloadDestroysWindow, UnloadFails,
             UnloadDropsExitRoutine, UnloadClearsLoaded,
             UnloadClearsUnloading, InSection
    <2>3. QED
      BY <2>1, <2>2, BackKept
  <1>4. ASSUME NEW t \in Clients, NEW k \in Kinds,
               Register(t, k) \/ Unregister(t, k)
        PROVE  LocksComeBack'
    <2>1. CASE \/ Enters(t, k, "rg_loaded") \/ Enters(t, k, "un_loaded")
               \/ TestsLoaded(t, k, "rg_loaded", "rg_acquire")
               \/ TestsLoaded(t, k, "un_loaded", "un_acquire")
               \/ RegisterFinds(t, k) \/ RegisterInserts(t, k)
               \/ UnregisterFinds(t, k) \/ UnregisterRemoves(t, k)
      <3>1. lock' = lock
        BY <2>1 DEF Enters, TestsLoaded, RegisterFinds, RegisterInserts,
           UnregisterFinds, UnregisterRemoves
      <3>2. \A j \in Kinds, u \in Threads : InSection(u, j) => InSection(u, j)'
        BY <2>1
           DEF Enters, TestsLoaded, Return, RegisterFinds, RegisterInserts,
               UnregisterFinds, UnregisterRemoves, InSection, CallsOK
      <3>3. QED
        BY <3>1, <3>2, BackKept
    <2>2. CASE \/ Acquires(t, k, "rg_acquire", "rg_find")
               \/ Acquires(t, k, "un_acquire", "un_find")
      <3>1. pc[t] \in {"rg_acquire", "un_acquire"} /\ kind[t] = k
        BY <2>2 DEF Acquires, Return
      <3>2. \A u \in Threads : u # t => pc'[u] = pc[u] /\ kind'[u] = kind[u]
        BY <2>2 DEF Acquires, Return, CallsOK
      <3>3. \A j \in Kinds : ~InSection(t, j)
        BY <3>1 DEF InSection
      <3>4. CASE lock' = lock
        <4>1. \A j \in Kinds, u \in Threads : InSection(u, j) => InSection(u, j)'
          BY <3>2, <3>3 DEF InSection
        <4>2. QED
          BY <3>4, <4>1, BackKept
      <3>5. CASE lock' # lock
        <4>1. /\ lock' = [lock EXCEPT ![k] = t] /\ kind' = kind
              /\ pc'[t] \in {"rg_find", "un_find"}
          BY <2>2, <3>5 DEF Acquires
        <4>2. /\ \A j \in Kinds : j # k => lock'[j] = lock[j]
              /\ lock'[k] = t /\ InSection(t, k)'
          BY <3>1, <4>1 DEF ListsOK, InSection
        <4>3. QED
          BY <3>2, <3>3, <4>2, BackAcquired
      <3>6. QED
        BY <3>4, <3>5
    <2>3. CASE \/ Releases(t, k, "rg_release") \/ Releases(t, k, "un_release")
               \/ UnregisterFailed(t, k)
      <3>1. lock' = [lock EXCEPT ![k] = Released(lock[k])] /\ kind[t] = k
        BY <2>3 DEF Releases, UnregisterFailed
      <3>2. Released(lock[k]) \notin Threads
        BY <1>0 DEF Released
      <3>3. \A u \in Threads : u # t => pc'[u] = pc[u] /\ kind'[u] = kind[u]
        BY <2>3 DEF Releases, UnregisterFailed, Return, CallsOK
      <3>4. ASSUME NEW j \in Kinds, NEW u \in Threads, lock'[j] = u
            PROVE  InSection(u, j)'
        <4>1. j # k /\ lock[j] = u
          BY <3>1, <3>2, <3>4 DEF ListsOK
        <4>2. InSection(u, j)
          BY <4>1 DEF LocksComeBack
        <4>3. u # t
          BY <3>1, <4>1, <4>2 DEF InSection
        <4>4. QED
          BY <3>3, <4>2, <4>3 DEF InSection
      <3>5. QED
        BY <3>4 DEF LocksComeBack
    <2>4. QED
      BY <1>4, <2>1, <2>2, <2>3 DEF Register, Unregister
  <1>5. ASSUME NEW t \in Clients, wvctl_redraw(t) PROVE LocksComeBack'
    BY <1>5 DEF wvctl_redraw, LocksComeBack, InSection
  <1>6. CASE WorkerLoopStep \/ Event
    <2>1. lock' = lock
      BY <1>6
         DEF WorkerLoopStep, WorkerInit, WorkerLoop, WorkerProcessed,
             WorkerTestsRedraw, WorkerPosts, WorkerClearsRedraw,
             WorkerTestsExitRoutine, WorkerCallsExitRoutine, Event, UserEvent,
             wview_keyboard_func, wview_mouse_func, wview_display_func,
             wvctl_closewnd_routine, WindowReaped
    <2>2. \A j \in Kinds, u \in Threads : InSection(u, j) => InSection(u, j)'
      BY <1>6
         DEF WorkerLoopStep, WorkerInit, WorkerLoop, WorkerProcessed,
             WorkerTestsRedraw, WorkerPosts, WorkerClearsRedraw,
             WorkerTestsExitRoutine, WorkerCallsExitRoutine, Event, UserEvent,
             wview_keyboard_func, wview_mouse_func, wview_display_func,
             wvctl_closewnd_routine, WindowReaped, InSection, CallsOK
    <2>3. QED
      BY <2>1, <2>2, BackKept
  <1>7. ASSUME NEW k \in Kinds, Routine(k) PROVE LocksComeBack'
    <2>1. CASE \/ DispatchTestsLoaded(k) \/ DispatchTestsUnloading(k)
               \/ DispatchCounts(k) \/ DispatchCalls(k) \/ DispatchEnds(k)
      <3>1. lock' = lock
        BY <2>1 DEF DispatchTestsLoaded, DispatchTestsUnloading,
           DispatchCounts, DispatchCalls, DispatchEnds
      <3>2. \A j \in Kinds, u \in Threads : InSection(u, j) => InSection(u, j)'
        BY <2>1
           DEF DispatchTestsLoaded, DispatchTestsUnloading, DispatchCounts,
               DispatchCalls, DispatchEnds, EndsPass, InSection, CallsOK
      <3>3. QED
        BY <3>1, <3>2, BackKept
    <2>2. CASE DispatchAcquires(k)
      <3>1. pc[Worker] = "dp_acquire" /\ kind[Worker] = k
        BY <2>2 DEF DispatchAcquires, EndsPass
      <3>2. \A u \in Threads : u # Worker => pc'[u] = pc[u] /\ kind'[u] = kind[u]
        BY <2>2 DEF DispatchAcquires, EndsPass, CallsOK
      <3>3. \A j \in Kinds : ~InSection(Worker, j)
        BY <3>1 DEF InSection
      <3>4. CASE lock' = lock
        <4>1. \A j \in Kinds, u \in Threads : InSection(u, j) => InSection(u, j)'
          BY <3>2, <3>3 DEF InSection
        <4>2. QED
          BY <3>4, <4>1, BackKept
      <3>5. CASE lock' # lock
        <4>1. /\ lock' = [lock EXCEPT ![k] = Worker] /\ kind' = kind
              /\ pc'[Worker] = "dp_count"
          BY <2>2, <3>5 DEF DispatchAcquires
        <4>2. /\ \A j \in Kinds : j # k => lock'[j] = lock[j]
              /\ lock'[k] = Worker /\ InSection(Worker, k)'
          BY <3>1, <4>1 DEF ListsOK, InSection
        <4>3. QED
          BY <3>2, <3>3, <4>2, BackAcquired
      <3>6. QED
        BY <3>4, <3>5
    <2>3. CASE DispatchReleases(k)
      <3>1. lock' = [lock EXCEPT ![k] = Released(lock[k])] /\ kind[Worker] = k
        BY <2>3 DEF DispatchReleases
      <3>2. Released(lock[k]) \notin Threads
        BY <1>0 DEF Released
      <3>3. \A u \in Threads : u # Worker => pc'[u] = pc[u] /\ kind'[u] = kind[u]
        BY <2>3 DEF DispatchReleases, EndsPass, CallsOK
      <3>4. ASSUME NEW j \in Kinds, NEW u \in Threads, lock'[j] = u
            PROVE  InSection(u, j)'
        <4>1. j # k /\ lock[j] = u
          BY <3>1, <3>2, <3>4 DEF ListsOK
        <4>2. InSection(u, j)
          BY <4>1 DEF LocksComeBack
        <4>3. u # Worker
          BY <3>1, <4>1, <4>2 DEF InSection
        <4>4. QED
          BY <3>3, <4>2, <4>3 DEF InSection
      <3>5. QED
        BY <3>4 DEF LocksComeBack
    <2>4. QED
      BY <1>7, <2>1, <2>2, <2>3 DEF Routine
  <1>8. CASE UNCHANGED vars
    BY <1>8 DEF vars, LocksComeBack, InSection
  <1>9. QED
    BY <1>1, <1>2, <1>3, <1>4, <1>5, <1>6, <1>7, <1>8, NextCases

\* Whatever fails in a call, and whatever becomes of the lock meanwhile, a lock
\* that is held belongs to a thread that is about to release it: for every
\* number of clients, no thread waits for a lock that nobody will release.
THEOREM HeldIsReleased == Spec => []LocksComeBack
  <1> DEFINE Inv == TypeOK /\ LoopInv /\ LocksComeBack
  <1>1. Init => Inv
    BY InitTypeOK, Distinct, ThreadsAssumption DEF Init, LoopInv, LocksComeBack
  <1>2. Inv /\ [Next]_vars => Inv'
    BY StepTypeOK, LoopStep, BackStep
  <1>3. Inv => LocksComeBack
    OBVIOUS
  <1> HIDE DEF Inv
  <1>4. QED
    BY <1>1, <1>2, <1>3, PTL DEF Spec
=============================================================================
