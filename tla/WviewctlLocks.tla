---------------------------- MODULE WviewctlLocks ----------------------------
(***************************************************************************)
(* The locks of the callback lists do exclude, for every number of clients *)
(* and callbacks, every bound on the lists and every reading of the        *)
(* addresses (LookupWord).                                                 *)
(*                                                                         *)
(* The invariant says of a thread between acquire and release that it owns *)
(* the lock of its list.  Two things could spoil it: an initialisation of  *)
(* the lock under its owner, and a release by somebody who does not own    *)
(* it.  EarlyInv excludes the first: wvctl_load initialises locks before   *)
(* there is a worker, and until then no call gets past its test of         *)
(* wvctl_loaded.  RemoveInv excludes the second: the double release of     *)
(* wvctl_unregister_mouse_cb needs a removal that fails, and it cannot     *)
(* fail on a list that exists, because the thread found the entry under    *)
(* the lock.                                                               *)
(***************************************************************************)
EXTENDS WviewctlProofs

EarlyPoints == {"idle", "rg_loaded", "un_loaded", "ld_create", "ld_thread",
                "ld_undo", "free", "free_pop"}

EarlyInv ==
  pc[Worker] = "unborn" => /\ ~wvctl_loaded
                           /\ resume # "ul_exit"
                           /\ \A t \in Clients : pc[t] \in EarlyPoints

HoldsInv ==
  \A t \in Threads, k \in Kinds :
    InSection(t, k) /\ memory[k] = "live" => lock[k] = t

RemoveInv ==
  \A t \in Threads : kind[t] = "mouse" /\ memory["mouse"] = "live" =>
    /\ pc[t] # "un_failed"
    /\ pc[t] = "un_remove" =>
         \E i \in DOMAIN cbl["mouse"] : cbl["mouse"][i] = arg[t]

LockInv == TypeOK /\ LoopInv /\ EarlyInv /\ HoldsInv /\ RemoveInv

\* No call gets past its test of wvctl_loaded before there is a worker.
LEMMA EarlyStep ==
  ASSUME TypeOK, LoopInv, EarlyInv, [Next]_vars
  PROVE  EarlyInv'
  <1> USE Distinct
  <1> USE DEF EarlyInv, EarlyPoints, LoopInv, Goto, TypeOK, ControlOK, flags,
          loading
  <1>1. CASE wvctl_load
    <2>1. CASE Load
      BY <2>1 DEF Load
    <2>2. CASE LoadCreates
      BY <2>2 DEF LoadCreates
    <2>3. CASE LoadCreateFails
      BY <2>3 DEF LoadCreateFails
    <2>4. CASE LoadStartsWorker
      BY <2>4 DEF LoadStartsWorker
    <2>5. CASE LoadStartFails
      BY <2>5 DEF LoadStartFails
    <2>6. CASE LoadWaits
      BY <2>6 DEF LoadWaits
    <2>7. CASE LoadSetsLoaded
      BY <2>7 DEF LoadSetsLoaded
    <2>8. CASE LoadClearsUnloading
      BY <2>8 DEF LoadClearsUnloading
    <2>9. CASE LoadUndo
      BY <2>9 DEF LoadUndo, LoadingOK
    <2>10. QED
      BY <1>1, <2>1, <2>2, <2>3, <2>4, <2>5, <2>6, <2>7, <2>8, <2>9
         DEF wvctl_load
  <1>2. CASE CleanUp
    <2>1. CASE FreeDone
      BY <1>2, <2>1 DEF FreeDone, LoadingOK
    <2>2. ASSUME NEW k \in Kinds,
                 \/ CountsEntries(k) \/ PopsEntry(k) \/ FreesLock(k)
                 \/ wvctl_free_mouse_cbl
          PROVE  EarlyInv'
      BY <2>2 DEF CountsEntries, PopsEntry, Frees, FreesLock,
         wvctl_free_mouse_cbl
    <2>3. QED
      BY <1>2, <2>1, <2>2
         DEF CleanUp, Kinds, wvctl_free_keyboard_cbl,
             wvctl_free_keyboard_cbl_lock, wvctl_free_mouse_cbl_lock,
             wvctl_free_draw_cbl, wvctl_free_draw_cbl_lock
  <1>3. CASE wvctl_unload
    BY <1>3 DEF wvctl_unload, Unload, UnloadDestroysWindow, UnloadFails,
       UnloadDropsExitRoutine, UnloadClearsLoaded, UnloadClearsUnloading
  <1>4. ASSUME NEW t \in Clients, NEW k \in Kinds,
               Register(t, k) \/ Unregister(t, k)
        PROVE  EarlyInv'
    <2>1. t \in Threads /\ t # Worker
      OBVIOUS
    <2>2. wvctl_loaded' = wvctl_loaded /\ resume' = resume
      BY <1>4
         DEF Register, Unregister, Enters, TestsLoaded, Acquires, Releases,
             RegisterFinds, RegisterInserts, UnregisterFinds,
             UnregisterRemoves, UnregisterFailed
    <2>3. \E p \in ClientPoints : pc' = [pc EXCEPT ![t] = p]
      BY <1>4
         DEF Register, Unregister, Enters, TestsLoaded, Acquires, Releases,
             RegisterFinds, RegisterInserts, UnregisterFinds,
             UnregisterRemoves, UnregisterFailed, Return, ClientPoints
    <2>4. pc[t] \in EarlyPoints /\ ~wvctl_loaded => pc'[t] \in EarlyPoints
      BY <1>4, <2>1
         DEF Register, Unregister, Enters, TestsLoaded, Acquires, Releases,
             RegisterFinds, RegisterInserts, UnregisterFinds,
             UnregisterRemoves, UnregisterFailed, Return
    <2>5. pc'[Worker] = pc[Worker]
      BY <2>1, <2>3
    <2>6. \A u \in Clients : u # t => pc'[u] = pc[u]
      BY <2>3
    <2>7. QED
      BY <2>2, <2>4, <2>5, <2>6
  <1>5. ASSUME NEW t \in Clients, wvctl_redraw(t) PROVE EarlyInv'
    BY <1>5 DEF wvctl_redraw
  <1>6. CASE WorkerLoopStep
    BY <1>6 DEF WorkerLoopStep, WorkerInit, WorkerLoop, WorkerProcessed,
       WorkerTestsRedraw, WorkerPosts, WorkerClearsRedraw,
       WorkerTestsExitRoutine, WorkerCallsExitRoutine
  <1>7. CASE Event
    BY <1>7 DEF Event, UserEvent, wview_keyboard_func, wview_mouse_func,
       wview_display_func, wvctl_closewnd_routine, WindowReaped
  <1>8. ASSUME NEW k \in Kinds, Routine(k) PROVE EarlyInv'
    BY <1>8 DEF Routine, DispatchTestsLoaded, DispatchTestsUnloading,
       DispatchAcquires, DispatchCounts, DispatchCalls, DispatchEnds,
       DispatchReleases, EndsPass
  <1>9. CASE UNCHANGED vars
    BY <1>9 DEF vars
  <1>10. QED
    BY <1>1, <1>2, <1>3, <1>4, <1>5, <1>6, <1>7, <1>8, <1>9, NextCases

\* A step that changes no lock and brings no thread into a section keeps the
\* ownership.
LEMMA HoldsKept ==
  ASSUME HoldsInv, lock' = lock,
         \A j \in Kinds : memory'[j] = "live" => memory[j] = "live",
         \A u \in Threads, j \in Kinds : InSection(u, j)' => InSection(u, j)
  PROVE  HoldsInv'
  BY DEF HoldsInv

\* Every step keeps the ownership of the locks.
LEMMA HoldsStep ==
  ASSUME TypeOK, LoopInv, EarlyInv, HoldsInv, RemoveInv, [Next]_vars
  PROVE  HoldsInv'
  <1> USE Distinct
  <1> USE DEF TypeOK, ControlOK, Goto, flags, lists, calls
  <1>1. CASE wvctl_load
    <2>1. CASE LoadCreates
      <3>1. pc[Worker] = "unborn"
        BY <2>1 DEF LoadCreates, LoopInv
      <3>2. \A u \in Threads : pc'[u] \in EarlyPoints \cup {"unborn"}
        BY <2>1, <3>1
           DEF LoadCreates, EarlyInv, EarlyPoints, Threads
      <3>3. QED
        BY <3>2 DEF HoldsInv, InSection, EarlyPoints
    <2>2. CASE ~LoadCreates
      <3>1. lists' = lists /\ kind' = kind
        BY <1>1, <2>2
           DEF wvctl_load, Load, LoadCreateFails, LoadStartsWorker,
               LoadStartFails, LoadWaits, LoadSetsLoaded,
               LoadClearsUnloading, LoadUndo
      <3>2. \A u \in Threads, j \in Kinds : InSection(u, j)' => InSection(u, j)
        BY <1>1, <2>2, <3>1
           DEF wvctl_load, Load, LoadCreateFails, LoadStartsWorker,
               LoadStartFails, LoadWaits, LoadSetsLoaded,
               LoadClearsUnloading, LoadUndo, InSection
      <3>3. QED
        BY <3>1, <3>2, HoldsKept
    <2>3. QED
      BY <2>1, <2>2
  <1>2. CASE CleanUp
    <2>1. kind' = kind
      BY <1>2
         DEF CleanUp, wvctl_free_keyboard_cbl, wvctl_free_keyboard_cbl_lock,
             wvctl_free_mouse_cbl, wvctl_free_mouse_cbl_lock,
             wvctl_free_draw_cbl, wvctl_free_draw_cbl_lock, CountsEntries,
             PopsEntry, FreesLock, FreeDone
    <2>2. \E p \in MainPoints \cup {"idle"} : pc' = pc \/ pc' = [pc EXCEPT ![Main] = p]
      BY <1>2
         DEF CleanUp, wvctl_free_keyboard_cbl, wvctl_free_keyboard_cbl_lock,
             wvctl_free_mouse_cbl, wvctl_free_mouse_cbl_lock,
             wvctl_free_draw_cbl, wvctl_free_draw_cbl_lock, CountsEntries,
             PopsEntry, FreesLock, FreeDone, LoadingOK, MainPoints
    <2>3. \A u \in Threads, j \in Kinds : InSection(u, j)' => InSection(u, j)
      BY <2>1, <2>2 DEF InSection, MainPoints
    <2>4. ASSUME NEW k \in Kinds, CountsEntries(k) \/ PopsEntry(k)
          PROVE  HoldsInv'
      <3>1. lock' = lock /\ memory' = memory
        BY <2>4 DEF CountsEntries, PopsEntry
      <3>2. QED
        BY <2>3, <3>1, HoldsKept
    <2>5. CASE wvctl_free_mouse_cbl
      <3>1. lock' = lock
        BY <2>5 DEF wvctl_free_mouse_cbl
      <3>2. \A j \in Kinds : memory'[j] = "live" => memory[j] = "live"
        BY <2>5 DEF wvctl_free_mouse_cbl, ListsOK
      <3>3. QED
        BY <2>3, <3>1, <3>2, HoldsKept
    <2>6. CASE FreeDone
      <3>1. lock' = lock /\ memory' = memory
        BY <2>6 DEF FreeDone
      <3>2. QED
        BY <2>3, <3>1, HoldsKept
    <2>7. ASSUME NEW k \in Kinds, FreesLock(k) PROVE HoldsInv'
      <3>1. memory' = memory /\ lock' = [lock EXCEPT ![k] = Destroyed(@)]
        BY <2>7 DEF FreesLock
      <3>2. \A u \in Threads, j \in Kinds :
              lock[j] = u => lock'[j] = u
        BY <3>1 DEF ListsOK, Destroyed
      <3>3. QED
        BY <2>3, <3>1, <3>2 DEF HoldsInv
    <2>8. QED
      BY <1>2, <2>4, <2>5, <2>6, <2>7
         DEF CleanUp, Kinds, wvctl_free_keyboard_cbl,
             wvctl_free_keyboard_cbl_lock, wvctl_free_mouse_cbl_lock,
             wvctl_free_draw_cbl, wvctl_free_draw_cbl_lock
  <1>3. CASE wvctl_unload
    <2>1. lists' = lists /\ kind' = kind
      BY <1>3 DEF wvctl_unload, Unload, UnloadDestroysWindow, UnloadFails,
         UnloadDropsExitRoutine, UnloadClearsLoaded, UnloadClearsUnloading
    <2>2. \A u \in Threads, j \in Kinds : InSection(u, j)' => InSection(u, j)
      BY <1>3, <2>1
         DEF wvctl_unload, Unload, UnloadDestroysWindow, UnloadFails,
             UnloadDropsExitRoutine, UnloadClearsLoaded,
             UnloadClearsUnloading, InSection
    <2>3. QED
      BY <2>1, <2>2, HoldsKept
  <1>4. ASSUME NEW t \in Clients, NEW k \in Kinds,
               Register(t, k) \/ Unregister(t, k)
        PROVE  HoldsInv'
    <2>1. CASE \/ Enters(t, k, "rg_loaded") \/ Enters(t, k, "un_loaded")
               \/ TestsLoaded(t, k, "rg_loaded", "rg_acquire")
               \/ TestsLoaded(t, k, "un_loaded", "un_acquire")
               \/ RegisterFinds(t, k) \/ RegisterInserts(t, k)
               \/ UnregisterFinds(t, k) \/ UnregisterRemoves(t, k)
      <3>1. lock' = lock /\ memory' = memory
        BY <2>1 DEF Enters, TestsLoaded, RegisterFinds, RegisterInserts,
           UnregisterFinds, UnregisterRemoves
      <3>2. \A u \in Threads, j \in Kinds : InSection(u, j)' => InSection(u, j)
        BY <2>1
           DEF Enters, TestsLoaded, Return, RegisterFinds, RegisterInserts,
               UnregisterFinds, UnregisterRemoves, InSection, CallsOK
      <3>3. QED
        BY <3>1, <3>2, HoldsKept
    <2>2. CASE \/ Acquires(t, k, "rg_acquire", "rg_find")
               \/ Acquires(t, k, "un_acquire", "un_find")
      BY <2>2 DEF Acquires, MayAcquire, Return, HoldsInv, InSection, ListsOK,
         CallsOK
    <2>3. CASE Releases(t, k, "rg_release") \/ Releases(t, k, "un_release")
      <3> SUFFICES ASSUME NEW u \in Threads, NEW j \in Kinds,
                          InSection(u, j)', memory'[j] = "live"
                   PROVE  lock'[j] = u
        BY DEF HoldsInv
      <3>1. InSection(t, k) /\ pc'[t] = "idle"
        BY <2>3 DEF Releases, Return, InSection
      <3>2. u # t
        BY <3>1 DEF InSection
      <3>3. InSection(u, j) /\ lock[j] = u
        <4>1. pc'[u] = pc[u] /\ kind'[u] = kind[u] /\ memory' = memory
          BY <2>3, <3>2 DEF Releases, Return, CallsOK
        <4>2. InSection(u, j)
          BY <4>1 DEF InSection
        <4>3. QED
          BY <4>1, <4>2 DEF HoldsInv
      <3>4. j # k
        BY <2>3, <3>1, <3>2, <3>3 DEF Releases, HoldsInv
      <3>5. QED
        BY <2>3, <3>3, <3>4 DEF Releases, ListsOK
    <2>4. CASE UnregisterFailed(t, k)
      BY <2>4 DEF UnregisterFailed, RemoveInv, Return, HoldsInv, InSection,
         ListsOK, CallsOK, Kinds
    <2>5. QED
      BY <1>4, <2>1, <2>2, <2>3, <2>4 DEF Register, Unregister
  <1>5. ASSUME NEW t \in Clients, wvctl_redraw(t) PROVE HoldsInv'
    BY <1>5 DEF wvctl_redraw, HoldsInv, InSection
  <1>6. CASE WorkerLoopStep \/ Event
    <2>1. lists' = lists
      BY <1>6
         DEF WorkerLoopStep, WorkerInit, WorkerLoop, WorkerProcessed,
             WorkerTestsRedraw, WorkerPosts, WorkerClearsRedraw,
             WorkerTestsExitRoutine, WorkerCallsExitRoutine, Event, UserEvent,
             wview_keyboard_func, wview_mouse_func, wview_display_func,
             wvctl_closewnd_routine, WindowReaped
    <2>2. \A u \in Threads, j \in Kinds : InSection(u, j)' => InSection(u, j)
      BY <1>6
         DEF WorkerLoopStep, WorkerInit, WorkerLoop, WorkerProcessed,
             WorkerTestsRedraw, WorkerPosts, WorkerClearsRedraw,
             WorkerTestsExitRoutine, WorkerCallsExitRoutine, Event, UserEvent,
             wview_keyboard_func, wview_mouse_func, wview_display_func,
             wvctl_closewnd_routine, WindowReaped, InSection, CallsOK
    <2>3. QED
      BY <2>1, <2>2, HoldsKept
  <1>7. ASSUME NEW k \in Kinds, Routine(k) PROVE HoldsInv'
    <2>1. CASE \/ DispatchTestsLoaded(k) \/ DispatchTestsUnloading(k)
               \/ DispatchCounts(k) \/ DispatchCalls(k) \/ DispatchEnds(k)
      <3>1. lists' = lists
        BY <2>1 DEF DispatchTestsLoaded, DispatchTestsUnloading,
           DispatchCounts, DispatchCalls, DispatchEnds
      <3>2. \A u \in Threads, j \in Kinds : InSection(u, j)' => InSection(u, j)
        BY <2>1
           DEF DispatchTestsLoaded, DispatchTestsUnloading, DispatchCounts,
               DispatchCalls, DispatchEnds, EndsPass, InSection, CallsOK
      <3>3. QED
        BY <3>1, <3>2, HoldsKept
    <2>2. CASE DispatchAcquires(k)
      <3>1. CASE lock' = lock
        <4>1. /\ pc'[Worker] \in {"dp_loaded", "process"}
              /\ \A u \in Threads \ {Worker} :
                   pc'[u] = pc[u] /\ kind'[u] = kind[u]
          BY <2>2, <3>1
             DEF DispatchAcquires, MayAcquire, EndsPass, ListsOK, CallsOK
        <4>2. \A u \in Threads, j \in Kinds : InSection(u, j)' => InSection(u, j)
          BY <4>1 DEF InSection
        <4>3. memory' = memory
          BY <2>2 DEF DispatchAcquires
        <4>4. QED
          BY <3>1, <4>2, <4>3, HoldsKept
      <3>2. CASE lock' # lock
        <4>1. /\ lock[k] = Unlocked /\ lock' = [lock EXCEPT ![k] = Worker]
              /\ memory' = memory /\ kind' = kind /\ kind[Worker] = k
              /\ pc' = [pc EXCEPT ![Worker] = "dp_count"]
          BY <2>2, <3>2 DEF DispatchAcquires, MayAcquire
        <4>2. \A u \in Threads : memory[k] = "live" => ~InSection(u, k)
          BY <4>1 DEF HoldsInv
        <4>3. QED
          BY <4>1, <4>2 DEF HoldsInv, InSection, ListsOK
      <3>3. QED
        BY <3>1, <3>2
    <2>3. CASE DispatchReleases(k)
      BY <2>3 DEF DispatchReleases, EndsPass, HoldsInv, InSection, ListsOK,
         CallsOK
    <2>4. QED
      BY <1>7, <2>1, <2>2, <2>3 DEF Routine
  <1>8. CASE UNCHANGED vars
    BY <1>8 DEF vars, HoldsInv, InSection
  <1>9. QED
    BY <1>1, <1>2, <1>3, <1>4, <1>5, <1>6, <1>7, <1>8, NextCases

\* A step that leaves the mouse list and the removals from it alone keeps what
\* they found.
LEMMA RemoveKept ==
  ASSUME RemoveInv, cbl'["mouse"] = cbl["mouse"], memory' = memory,
         \A u \in Threads : pc'[u] \in {"un_failed", "un_remove"} =>
           pc'[u] = pc[u] /\ kind'[u] = kind[u] /\ arg'[u] = arg[u]
  PROVE  RemoveInv'
  BY DEF RemoveInv

\* Every step keeps a found entry in the list.
LEMMA RemoveStep ==
  ASSUME TypeOK, LoopInv, EarlyInv, HoldsInv, RemoveInv, [Next]_vars
  PROVE  RemoveInv'
  <1> USE Distinct
  <1> USE DEF TypeOK, ControlOK, Goto, flags, lists, calls
  <1> DEFINE Same(t) == \A u \in Threads \ {t} :
               pc'[u] = pc[u] /\ kind'[u] = kind[u] /\ arg'[u] = arg[u]
  <1>1. CASE wvctl_load
    <2>1. CASE LoadCreates
      <3>1. pc[Worker] = "unborn"
        BY <2>1 DEF LoadCreates, LoopInv
      <3>2. \A u \in Threads : pc'[u] \in EarlyPoints \cup {"unborn"}
        BY <2>1, <3>1
           DEF LoadCreates, EarlyInv, EarlyPoints, Threads
      <3>3. QED
        BY <3>2 DEF RemoveInv, EarlyPoints
    <2>2. CASE ~LoadCreates
      BY <1>1, <2>2, RemoveKept
         DEF wvctl_load, Load, LoadCreateFails, LoadStartsWorker,
             LoadStartFails, LoadWaits, LoadSetsLoaded,
             LoadClearsUnloading, LoadUndo
    <2>3. QED
      BY <2>1, <2>2
  <1>2. CASE CleanUp
    <2>1. CASE wvctl_free_mouse_cbl
      BY <2>1 DEF wvctl_free_mouse_cbl, RemoveInv, ListsOK, Kinds
    <2>2. CASE FreeDone
      BY <2>2, RemoveKept DEF FreeDone, LoadingOK
    <2>3. ASSUME NEW k \in Kinds, CountsEntries(k) \/ FreesLock(k)
          PROVE  RemoveInv'
      BY <2>3, RemoveKept DEF CountsEntries, FreesLock
    <2>4. ASSUME NEW k \in Kinds, k # "mouse", PopsEntry(k)
          PROVE  RemoveInv'
      <3>1. cbl'["mouse"] = cbl["mouse"] /\ memory' = memory /\ calls' = calls
        BY <2>4 DEF PopsEntry, ListsOK, Kinds
      <3>2. pc' = pc \/ pc' = [pc EXCEPT ![Main] = "free"]
        BY <2>4 DEF PopsEntry
      <3>3. QED
        BY <3>1, <3>2, RemoveKept
    <2>5. QED
      BY <1>2, <2>1, <2>2, <2>3, <2>4
         DEF CleanUp, Kinds, wvctl_free_keyboard_cbl,
             wvctl_free_keyboard_cbl_lock, wvctl_free_mouse_cbl_lock,
             wvctl_free_draw_cbl, wvctl_free_draw_cbl_lock
  <1>3. CASE wvctl_unload
    BY <1>3, RemoveKept
       DEF wvctl_unload, Unload, UnloadDestroysWindow, UnloadFails,
           UnloadDropsExitRoutine, UnloadClearsLoaded, UnloadClearsUnloading
  <1>4. ASSUME NEW t \in Clients, NEW k \in Kinds,
               Register(t, k) \/ Unregister(t, k)
        PROVE  RemoveInv'
    <2>0. memory' = memory /\ Same(t)
      BY <1>4
         DEF Register, Unregister, Enters, TestsLoaded, Acquires, Releases,
             Return, RegisterFinds, RegisterInserts, UnregisterFinds,
             UnregisterRemoves, UnregisterFailed, CallsOK
    <2>1. CASE \/ Enters(t, k, "rg_loaded") \/ Enters(t, k, "un_loaded")
               \/ TestsLoaded(t, k, "rg_loaded", "rg_acquire")
               \/ TestsLoaded(t, k, "un_loaded", "un_acquire")
               \/ Acquires(t, k, "rg_acquire", "rg_find")
               \/ Acquires(t, k, "un_acquire", "un_find")
               \/ Releases(t, k, "rg_release") \/ Releases(t, k, "un_release")
               \/ RegisterFinds(t, k) \/ UnregisterFailed(t, k)
      <3>1. cbl' = cbl /\ pc'[t] \notin {"un_failed", "un_remove"}
        BY <2>1
           DEF Enters, TestsLoaded, Acquires, Releases, Return, RegisterFinds,
               UnregisterFailed
      <3>2. QED
        BY <2>0, <3>1, RemoveKept
    <2>2. CASE RegisterInserts(t, k) \/ UnregisterRemoves(t, k)
      <3>1. InSection(t, k)
        BY <2>2 DEF RegisterInserts, UnregisterRemoves, InSection
      <3> SUFFICES ASSUME NEW u \in Threads,
                          kind'[u] = "mouse", memory'["mouse"] = "live",
                          pc'[u] \in {"un_failed", "un_remove"}
                   PROVE  /\ pc'[u] # "un_failed"
                          /\ \E i \in DOMAIN cbl'["mouse"] :
                               cbl'["mouse"][i] = arg'[u]
        BY DEF RemoveInv
      <3>2. CASE u = t
        <4>1. /\ pc[t] = "un_remove" /\ pc'[t] = "un_failed" /\ k = "mouse"
              /\ kind[t] = "mouse"
              /\ \/ memory["mouse"] # "live"
                 \/ \A i \in DOMAIN cbl["mouse"] : cbl["mouse"][i] # arg[t]
          BY <2>2, <3>2
             DEF RegisterInserts, UnregisterRemoves, ListFails, CallsOK
        <4>2. QED
          BY <2>0, <4>1 DEF RemoveInv
      <3>3. CASE u # t
        <4>1. /\ kind[u] = "mouse" /\ memory["mouse"] = "live"
              /\ pc[u] = pc'[u] /\ arg'[u] = arg[u]
          BY <2>0, <3>3
        <4>2. lock["mouse"] = u
          BY <4>1 DEF HoldsInv, InSection, Kinds
        <4>3. k # "mouse"
          BY <3>1, <3>3, <4>1, <4>2 DEF HoldsInv
        <4>4. cbl'["mouse"] = cbl["mouse"]
          BY <2>2, <4>3 DEF RegisterInserts, UnregisterRemoves, ListsOK,
             Kinds
        <4>5. QED
          BY <4>1, <4>4 DEF RemoveInv
      <3>4. QED
        BY <3>2, <3>3
    <2>3. CASE UnregisterFinds(t, k)
      <3>1. cbl' = cbl /\ pc'[t] # "un_failed"
        BY <2>3 DEF UnregisterFinds
      <3>2. pc'[t] = "un_remove" /\ kind'[t] = "mouse" =>
              \E i \in DOMAIN cbl["mouse"] : cbl["mouse"][i] = arg'[t]
        BY <2>3 DEF UnregisterFinds, Finds, CallsOK
      <3>3. QED
        BY <2>0, <3>1, <3>2 DEF RemoveInv
    <2>4. QED
      BY <1>4, <2>1, <2>2, <2>3 DEF Register, Unregister
  <1>5. ASSUME NEW t \in Clients, wvctl_redraw(t) PROVE RemoveInv'
    BY <1>5, RemoveKept DEF wvctl_redraw
  <1>6. CASE WorkerLoopStep \/ Event
    <2>1. /\ lists' = lists /\ Same(Worker)
          /\ pc'[Worker] \notin {"un_failed", "un_remove"}
      BY <1>6
         DEF WorkerLoopStep, WorkerInit, WorkerLoop, WorkerProcessed,
             WorkerTestsRedraw, WorkerPosts, WorkerClearsRedraw,
             WorkerTestsExitRoutine, WorkerCallsExitRoutine, Event, UserEvent,
             wview_keyboard_func, wview_mouse_func, wview_display_func,
             wvctl_closewnd_routine, WindowReaped, CallsOK
    <2>2. QED
      BY <2>1, RemoveKept
  <1>7. ASSUME NEW k \in Kinds, Routine(k) PROVE RemoveInv'
    <2>1. /\ cbl' = cbl /\ memory' = memory /\ Same(Worker)
          /\ pc'[Worker] \notin {"un_failed", "un_remove"}
      BY <1>7 DEF Routine, DispatchTestsLoaded, DispatchTestsUnloading,
         DispatchAcquires, DispatchCounts, DispatchCalls, DispatchEnds,
         DispatchReleases, EndsPass, CallsOK
    <2>2. QED
      BY <2>1, RemoveKept
  <1>8. CASE UNCHANGED vars
    BY <1>8, RemoveKept DEF vars
  <1>9. QED
    BY <1>1, <1>2, <1>3, <1>4, <1>5, <1>6, <1>7, <1>8, NextCases

\* Two threads are never between the acquire and the release of one list that
\* exists: not through the load that initialises the locks, not through the
\* unload that destroys them without holding them, not through the double
\* release of a removal that fails.
THEOREM Exclusive == Spec => []ExclusiveAccess
  <1>1. Init => LockInv
    BY InitTypeOK, Distinct
       DEF Init, LockInv, LoopInv, EarlyInv, EarlyPoints, HoldsInv, RemoveInv,
           InSection, Clients
  <1>2. LockInv /\ [Next]_vars => LockInv'
    BY StepTypeOK, LoopStep, EarlyStep, HoldsStep, RemoveStep DEF LockInv
  <1>3. LockInv => ExclusiveAccess
    BY DEF LockInv, HoldsInv, ExclusiveAccess
  <1>4. QED
    BY <1>1, <1>2, <1>3, PTL DEF Spec
=============================================================================
