--------------------------- MODULE WviewctlProofs ---------------------------
(***************************************************************************)
(* Theorems about Wviewctl, for every number of clients and callbacks and  *)
(* every bound on the lists.                                               *)
(***************************************************************************)
EXTENDS Wviewctl, TLAPS

\* Removing an entry leaves a sequence of callbacks.
LEMMA RemoveAtType ==
  ASSUME NEW s \in Seq(Callbacks), NEW i \in DOMAIN s
  PROVE  RemoveAt(s, i) \in Seq(Callbacks)
  <1>1. i \in 1..Len(s) /\ Len(s) \in Nat
    OBVIOUS
  <1>2. SubSeq(s, 1, i - 1) \in Seq(Callbacks)
    BY <1>1
  <1>3. SubSeq(s, i + 1, Len(s)) \in Seq(Callbacks)
    BY <1>1
  <1>4. QED
    BY <1>2, <1>3 DEF RemoveAt

\* So does a pop of a list that is not empty.
LEMMA FrontType ==
  ASSUME NEW s \in Seq(Callbacks), s # <<>>
  PROVE  Front(s) \in Seq(Callbacks)
  BY DEF Front

\* The names of the threads and the states of a mutex are kept apart.
LEMMA Distinct ==
  /\ Main \in Clients /\ Main \in Threads
  /\ Worker \in Threads /\ Main # Worker
  /\ \A t \in Others : t \in Threads /\ t # Main /\ t # Worker
  /\ \A t \in Clients : t \in Threads /\ t # Worker
  /\ Unlocked \notin Threads /\ NoMutex \notin Threads
  BY ThreadsAssumption DEF Threads, Clients

LEMMA ObjectsFacts ==
  /\ Len(Objects) = 6
  /\ \A o \in 1..6 : Objects[o].kind \in Kinds
  BY DEF Objects, Kinds

LEMMA InitTypeOK == Init => TypeOK
  <1> SUFFICES ASSUME Init PROVE TypeOK
    OBVIOUS
  <1> USE Distinct, ObjectsFacts DEF Init
  <1>1. FlagsOK
    BY DEF FlagsOK
  <1>2. ListsOK
    BY DEF ListsOK
  <1>3. WindowOK
    BY DEF WindowOK
  <1>4. ControlOK
    BY DEF ControlOK, MainPoints, ClientPoints, WorkerPoints
  <1>5. CallsOK
    BY DEF CallsOK
  <1>6. DispatchOK
    BY DEF DispatchOK
  <1>7. LoadingOK
    BY DEF LoadingOK
  <1>8. QED
    BY <1>1, <1>2, <1>3, <1>4, <1>5, <1>6, <1>7 DEF TypeOK

\* The kinds of steps a proof of an invariant goes through.
LEMMA NextCases ==
  ASSUME [Next]_vars
  PROVE  \/ wvctl_load \/ CleanUp \/ wvctl_unload
         \/ \E t \in Clients, k \in Kinds : Register(t, k) \/ Unregister(t, k)
         \/ \E t \in Clients : wvctl_redraw(t)
         \/ WorkerLoopStep \/ Event
         \/ \E k \in Kinds : Routine(k)
         \/ UNCHANGED vars
  <1>1. ASSUME NEW t \in Clients, ClientStep(t)
        PROVE  \/ \E k \in Kinds : Register(t, k) \/ Unregister(t, k)
               \/ wvctl_redraw(t)
    BY <1>1
       DEF ClientStep, Kinds, wvctl_register_keyboard_cb,
           wvctl_unregister_keyboard_cb, wvctl_register_mouse_cb,
           wvctl_unregister_mouse_cb, wvctl_register_draw_cb,
           wvctl_unregister_draw_cb
  <1>2. ASSUME Dispatch PROVE \E k \in Kinds : Routine(k)
    BY <1>2 DEF Dispatch, Kinds, wvctl_keyboard_routine, wvctl_mouse_routine,
       wvctl_draw_routine
  <1>3. QED
    BY <1>1, <1>2 DEF Next, MainStep

\* What else an induction needs: no worker exists while Main prepares one, and
\* the index of the dispatch loop is zero outside the loop.
LoopInv ==
  /\ pc[Main] \in {"ld_create", "ld_thread"} => pc[Worker] = "unborn"
  /\ next # 0 => pc[Worker] \in {"dp_call", "dp_release"}

\* The steps of wvctl_load.
LEMMA LoadTypeOK ==
  TypeOK /\ wvctl_load => TypeOK'
  <1> SUFFICES ASSUME TypeOK, wvctl_load PROVE TypeOK'
    OBVIOUS
  <1> USE Distinct, ObjectsFacts
  <1> USE DEF TypeOK, flags, redraws, lists, window, calls, dispatch, loading
  <1>1. CASE Load
    <2>1. FlagsOK' /\ ListsOK' /\ WindowOK' /\ DispatchOK'
      BY <1>1 DEF Load, FlagsOK, ListsOK, WindowOK, DispatchOK
    <2>2. ControlOK'
      BY <1>1 DEF Load, ControlOK, Goto, MainPoints
    <2>3. CallsOK'
      BY <1>1 DEF Load, CallsOK, Goto, ControlOK
    <2>4. LoadingOK'
      BY <1>1 DEF Load, LoadingOK, Goto, ControlOK
    <2>5. QED
      BY <2>1, <2>2, <2>3, <2>4 DEF TypeOK
  <1>2. CASE LoadCreates
    <2>1. FlagsOK' /\ WindowOK' /\ DispatchOK'
      BY <1>2 DEF LoadCreates, FlagsOK, WindowOK, DispatchOK
    <2>2. ListsOK'
      <3>1. object \in 1..6 /\ Objects[object].kind \in Kinds
        BY <1>2 DEF LoadCreates, Goto, LoadingOK
      <3>2. cbl' \in [Kinds -> Seq(Callbacks)]
        <4>1. <<>> \in Seq(Callbacks)
          OBVIOUS
        <4>2. QED
          BY <1>2, <3>1, <4>1 DEF LoadCreates, ListsOK
      <3>3. memory' \in [Kinds -> {"none", "live", "freed"}]
        BY <1>2, <3>1 DEF LoadCreates, ListsOK
      <3>4. lock' \in [Kinds -> {NoMutex, Unlocked} \cup Threads]
        BY <1>2, <3>1 DEF LoadCreates, ListsOK, Created
      <3>5. QED
        BY <3>2, <3>3, <3>4 DEF ListsOK
    <2>3. ControlOK'
      BY <1>2 DEF LoadCreates, ControlOK, Goto, MainPoints
    <2>4. CallsOK'
      BY <1>2 DEF LoadCreates, CallsOK, Goto, ControlOK
    <2>5. LoadingOK'
      BY <1>2 DEF LoadCreates, LoadingOK, Goto, ControlOK
    <2>6. QED
      BY <2>1, <2>2, <2>3, <2>4, <2>5 DEF TypeOK
  <1>3. CASE LoadCreateFails
    <2>1. FlagsOK' /\ ListsOK' /\ WindowOK' /\ DispatchOK'
      BY <1>3 DEF LoadCreateFails, FlagsOK, ListsOK, WindowOK, DispatchOK
    <2>2. ControlOK'
      BY <1>3 DEF LoadCreateFails, ControlOK, Goto, MainPoints
    <2>3. CallsOK'
      BY <1>3 DEF LoadCreateFails, CallsOK, Goto, ControlOK
    <2>4. LoadingOK'
      BY <1>3 DEF LoadCreateFails, LoadingOK, Goto, ControlOK
    <2>5. QED
      BY <2>1, <2>2, <2>3, <2>4 DEF TypeOK
  <1>4. CASE LoadStartsWorker
    <2>1. ListsOK' /\ WindowOK' /\ DispatchOK'
      BY <1>4 DEF LoadStartsWorker, ListsOK, WindowOK, DispatchOK
    <2>2. FlagsOK'
      BY <1>4 DEF LoadStartsWorker, FlagsOK
    <2>3. ControlOK'
      BY <1>4 DEF LoadStartsWorker, ControlOK, Goto, MainPoints, WorkerPoints
    <2>4. CallsOK'
      BY <1>4 DEF LoadStartsWorker, CallsOK, Goto, ControlOK
    <2>5. LoadingOK'
      BY <1>4 DEF LoadStartsWorker, LoadingOK, Goto, ControlOK
    <2>6. QED
      BY <2>1, <2>2, <2>3, <2>4, <2>5 DEF TypeOK
  <1>5. CASE LoadStartFails
    <2>1. ListsOK' /\ WindowOK' /\ DispatchOK'
      BY <1>5 DEF LoadStartFails, ListsOK, WindowOK, DispatchOK
    <2>2. FlagsOK'
      BY <1>5 DEF LoadStartFails, FlagsOK
    <2>3. ControlOK'
      BY <1>5 DEF LoadStartFails, ControlOK, Goto, MainPoints
    <2>4. CallsOK'
      BY <1>5 DEF LoadStartFails, CallsOK, Goto, ControlOK
    <2>5. LoadingOK'
      BY <1>5 DEF LoadStartFails, LoadingOK, Goto, ControlOK
    <2>6. QED
      BY <2>1, <2>2, <2>3, <2>4, <2>5 DEF TypeOK
  <1>6. CASE LoadWaits
    <2>1. FlagsOK' /\ ListsOK' /\ WindowOK' /\ DispatchOK'
      BY <1>6 DEF LoadWaits, FlagsOK, ListsOK, WindowOK, DispatchOK
    <2>2. ControlOK'
      BY <1>6 DEF LoadWaits, ControlOK, Goto, MainPoints
    <2>3. CallsOK'
      BY <1>6 DEF LoadWaits, CallsOK, Goto, ControlOK
    <2>4. LoadingOK'
      BY <1>6 DEF LoadWaits, LoadingOK, Goto, ControlOK
    <2>5. QED
      BY <2>1, <2>2, <2>3, <2>4 DEF TypeOK
  <1>7. CASE LoadSetsLoaded
    <2>1. ListsOK' /\ WindowOK' /\ DispatchOK'
      BY <1>7 DEF LoadSetsLoaded, ListsOK, WindowOK, DispatchOK
    <2>2. FlagsOK'
      BY <1>7 DEF LoadSetsLoaded, FlagsOK
    <2>3. ControlOK'
      BY <1>7 DEF LoadSetsLoaded, ControlOK, Goto, MainPoints
    <2>4. CallsOK'
      BY <1>7 DEF LoadSetsLoaded, CallsOK, Goto, ControlOK
    <2>5. LoadingOK'
      BY <1>7 DEF LoadSetsLoaded, LoadingOK, Goto, ControlOK
    <2>6. QED
      BY <2>1, <2>2, <2>3, <2>4, <2>5 DEF TypeOK
  <1>8. CASE LoadClearsUnloading
    <2>1. ListsOK' /\ WindowOK' /\ DispatchOK'
      BY <1>8 DEF LoadClearsUnloading, ListsOK, WindowOK, DispatchOK
    <2>2. FlagsOK'
      BY <1>8 DEF LoadClearsUnloading, FlagsOK
    <2>3. ControlOK'
      BY <1>8 DEF LoadClearsUnloading, ControlOK, Goto, ClientPoints
    <2>4. CallsOK'
      BY <1>8 DEF LoadClearsUnloading, CallsOK, Goto, ControlOK
    <2>5. LoadingOK'
      BY <1>8 DEF LoadClearsUnloading, LoadingOK, Goto, ControlOK
    <2>6. QED
      BY <2>1, <2>2, <2>3, <2>4, <2>5 DEF TypeOK
  <1>9. CASE LoadUndo
    <2>1. ListsOK' /\ WindowOK' /\ DispatchOK'
      BY <1>9 DEF LoadUndo, ListsOK, WindowOK, DispatchOK
    <2>2. FlagsOK'
      BY <1>9 DEF LoadUndo, FlagsOK
    <2>3. ControlOK'
      BY <1>9 DEF LoadUndo, ControlOK, Goto, ClientPoints
    <2>4. CallsOK'
      BY <1>9 DEF LoadUndo, CallsOK, Goto, ControlOK
    <2>5. LoadingOK'
      BY <1>9 DEF LoadUndo, LoadingOK, Goto, ControlOK
    <2>6. QED
      BY <2>1, <2>2, <2>3, <2>4, <2>5 DEF TypeOK
  <1>10. QED
    BY <1>1, <1>2, <1>3, <1>4, <1>5, <1>6, <1>7, <1>8, <1>9
       DEF wvctl_load

\* The steps of the clean-up.
LEMMA CleanUpTypeOK ==
  TypeOK /\ CleanUp => TypeOK'
  <1> SUFFICES ASSUME TypeOK, CleanUp PROVE TypeOK'
    OBVIOUS
  <1> USE Distinct, ObjectsFacts
  <1> USE DEF TypeOK, flags, redraws, lists, window, calls, dispatch, loading
  <1>1. CASE FreeDone
    <2>1. FlagsOK' /\ ListsOK' /\ WindowOK' /\ DispatchOK'
      BY <1>1 DEF FreeDone, FlagsOK, ListsOK, WindowOK, DispatchOK
    <2>2. ControlOK'
      BY <1>1 DEF FreeDone, ControlOK, Goto, MainPoints, ClientPoints,
            LoadingOK
    <2>3. CallsOK'
      BY <1>1 DEF FreeDone, CallsOK, Goto, ControlOK, LoadingOK
    <2>4. LoadingOK'
      BY <1>1 DEF FreeDone, LoadingOK, Goto, ControlOK
    <2>5. QED
      BY <2>1, <2>2, <2>3, <2>4 DEF TypeOK
  <1>2. ASSUME NEW k \in Kinds, CountsEntries(k) PROVE TypeOK'
    <2>1. FlagsOK' /\ ListsOK' /\ WindowOK' /\ DispatchOK'
      BY <1>2 DEF CountsEntries, Frees, FlagsOK, ListsOK, WindowOK, DispatchOK
    <2>2. ControlOK'
      BY <1>2 DEF CountsEntries, Frees, ControlOK, Goto, MainPoints
    <2>3. CallsOK'
      BY <1>2 DEF CountsEntries, Frees, CallsOK, Goto, ControlOK
    <2>4. LoadingOK'
      BY <1>2 DEF CountsEntries, Frees, LoadingOK, Goto, ControlOK
    <2>5. QED
      BY <2>1, <2>2, <2>3, <2>4 DEF TypeOK
  <1>3. ASSUME NEW k \in Kinds, PopsEntry(k) PROVE TypeOK'
    <2>1. FlagsOK' /\ WindowOK' /\ DispatchOK'
      BY <1>3 DEF PopsEntry, FlagsOK, WindowOK, DispatchOK
    <2>2. ListsOK'
      <3>1. CASE cbl[k] = <<>> \/ left = 0
        BY <1>3, <3>1 DEF PopsEntry, ListsOK
      <3>2. CASE ~(cbl[k] = <<>> \/ left = 0)
        <4>1. Front(cbl[k]) \in Seq(Callbacks)
          BY <3>2, FrontType DEF ListsOK
        <4>2. QED
          BY <1>3, <3>2, <4>1 DEF PopsEntry, ListsOK
      <3>3. QED
        BY <3>1, <3>2
    <2>3. ControlOK'
      BY <1>3 DEF PopsEntry, ControlOK, Goto, MainPoints
    <2>4. CallsOK'
      BY <1>3 DEF PopsEntry, CallsOK, Goto, ControlOK
    <2>5. LoadingOK'
      BY <1>3 DEF PopsEntry, LoadingOK, Goto, ControlOK
    <2>6. QED
      BY <2>1, <2>2, <2>3, <2>4, <2>5 DEF TypeOK
  <1>4. CASE wvctl_free_mouse_cbl
    <2>1. FlagsOK' /\ WindowOK' /\ DispatchOK'
      BY <1>4 DEF wvctl_free_mouse_cbl, Frees, FlagsOK, WindowOK, DispatchOK
    <2>2. ListsOK'
      BY <1>4 DEF wvctl_free_mouse_cbl, Frees, ListsOK, Kinds
    <2>3. ControlOK'
      BY <1>4 DEF wvctl_free_mouse_cbl, Frees, ControlOK, Goto, MainPoints
    <2>4. CallsOK'
      BY <1>4 DEF wvctl_free_mouse_cbl, Frees, CallsOK, Goto, ControlOK
    <2>5. LoadingOK'
      BY <1>4 DEF wvctl_free_mouse_cbl, Frees, LoadingOK, Goto, ControlOK
    <2>6. QED
      BY <2>1, <2>2, <2>3, <2>4, <2>5 DEF TypeOK
  <1>5. ASSUME NEW k \in Kinds, FreesLock(k) PROVE TypeOK'
    <2>1. FlagsOK' /\ WindowOK' /\ DispatchOK'
      BY <1>5 DEF FreesLock, Frees, FlagsOK, WindowOK, DispatchOK
    <2>2. ListsOK'
      BY <1>5 DEF FreesLock, Frees, ListsOK, Destroyed
    <2>3. ControlOK'
      BY <1>5 DEF FreesLock, Frees, ControlOK, Goto, MainPoints
    <2>4. CallsOK'
      BY <1>5 DEF FreesLock, Frees, CallsOK, Goto, ControlOK
    <2>5. LoadingOK'
      BY <1>5 DEF FreesLock, Frees, LoadingOK, Goto, ControlOK
    <2>6. QED
      BY <2>1, <2>2, <2>3, <2>4, <2>5 DEF TypeOK
  <1>6. QED
    BY <1>1, <1>2, <1>3, <1>4, <1>5
       DEF CleanUp, Kinds, wvctl_free_keyboard_cbl,
           wvctl_free_keyboard_cbl_lock, wvctl_free_mouse_cbl_lock,
           wvctl_free_draw_cbl, wvctl_free_draw_cbl_lock

\* The steps of wvctl_unload.
LEMMA UnloadTypeOK ==
  TypeOK /\ wvctl_unload => TypeOK'
  <1> SUFFICES ASSUME TypeOK, wvctl_unload PROVE TypeOK'
    OBVIOUS
  <1> USE Distinct, ObjectsFacts
  <1> USE DEF TypeOK, flags, redraws, lists, window, calls, dispatch, loading
  <1>1. CASE Unload
    <2>1. ListsOK' /\ WindowOK' /\ DispatchOK'
      BY <1>1 DEF Unload, ListsOK, WindowOK, DispatchOK
    <2>2. FlagsOK'
      BY <1>1 DEF Unload, FlagsOK
    <2>3. ControlOK'
      BY <1>1 DEF Unload, ControlOK, Goto, MainPoints
    <2>4. CallsOK'
      BY <1>1 DEF Unload, CallsOK, Goto, ControlOK
    <2>5. LoadingOK'
      BY <1>1 DEF Unload, LoadingOK, Goto, ControlOK
    <2>6. QED
      BY <2>1, <2>2, <2>3, <2>4, <2>5 DEF TypeOK
  <1>2. CASE UnloadDestroysWindow
    <2>1. FlagsOK' /\ ListsOK' /\ DispatchOK'
      BY <1>2 DEF UnloadDestroysWindow, FlagsOK, ListsOK, DispatchOK
    <2>2. WindowOK'
      BY <1>2 DEF UnloadDestroysWindow, WindowOK
    <2>3. ControlOK'
      BY <1>2 DEF UnloadDestroysWindow, ControlOK, Goto, MainPoints
    <2>4. CallsOK'
      BY <1>2 DEF UnloadDestroysWindow, CallsOK, Goto, ControlOK
    <2>5. LoadingOK'
      BY <1>2 DEF UnloadDestroysWindow, LoadingOK, Goto, ControlOK
    <2>6. QED
      BY <2>1, <2>2, <2>3, <2>4, <2>5 DEF TypeOK
  <1>3. CASE UnloadFails
    <2>1. FlagsOK' /\ ListsOK' /\ DispatchOK'
      BY <1>3 DEF UnloadFails, FlagsOK, ListsOK, DispatchOK
    <2>2. WindowOK'
      BY <1>3 DEF UnloadFails, WindowOK
    <2>3. ControlOK'
      BY <1>3 DEF UnloadFails, ControlOK, Goto, ClientPoints
    <2>4. CallsOK'
      BY <1>3 DEF UnloadFails, CallsOK, Goto, ControlOK
    <2>5. LoadingOK'
      BY <1>3 DEF UnloadFails, LoadingOK, Goto, ControlOK
    <2>6. QED
      BY <2>1, <2>2, <2>3, <2>4, <2>5 DEF TypeOK
  <1>4. CASE UnloadDropsExitRoutine
    <2>1. ListsOK' /\ WindowOK' /\ DispatchOK'
      BY <1>4 DEF UnloadDropsExitRoutine, ListsOK, WindowOK, DispatchOK
    <2>2. FlagsOK'
      BY <1>4 DEF UnloadDropsExitRoutine, FlagsOK
    <2>3. ControlOK'
      BY <1>4 DEF UnloadDropsExitRoutine, ControlOK, Goto, MainPoints
    <2>4. CallsOK'
      BY <1>4 DEF UnloadDropsExitRoutine, CallsOK, Goto, ControlOK
    <2>5. LoadingOK'
      BY <1>4 DEF UnloadDropsExitRoutine, LoadingOK, Goto, ControlOK
    <2>6. QED
      BY <2>1, <2>2, <2>3, <2>4, <2>5 DEF TypeOK
  <1>5. CASE UnloadClearsLoaded
    <2>1. ListsOK' /\ WindowOK' /\ DispatchOK'
      BY <1>5 DEF UnloadClearsLoaded, ListsOK, WindowOK, DispatchOK
    <2>2. FlagsOK'
      BY <1>5 DEF UnloadClearsLoaded, FlagsOK
    <2>3. ControlOK'
      BY <1>5 DEF UnloadClearsLoaded, ControlOK, Goto, MainPoints
    <2>4. CallsOK'
      BY <1>5 DEF UnloadClearsLoaded, CallsOK, Goto, ControlOK
    <2>5. LoadingOK'
      BY <1>5 DEF UnloadClearsLoaded, LoadingOK, Goto, ControlOK
    <2>6. QED
      BY <2>1, <2>2, <2>3, <2>4, <2>5 DEF TypeOK
  <1>6. CASE UnloadClearsUnloading
    <2>1. ListsOK' /\ WindowOK' /\ DispatchOK'
      BY <1>6 DEF UnloadClearsUnloading, ListsOK, WindowOK, DispatchOK
    <2>2. FlagsOK'
      BY <1>6 DEF UnloadClearsUnloading, FlagsOK
    <2>3. ControlOK'
      BY <1>6 DEF UnloadClearsUnloading, ControlOK, Goto, ClientPoints
    <2>4. CallsOK'
      BY <1>6 DEF UnloadClearsUnloading, CallsOK, Goto, ControlOK
    <2>5. LoadingOK'
      BY <1>6 DEF UnloadClearsUnloading, LoadingOK, Goto, ControlOK
    <2>6. QED
      BY <2>1, <2>2, <2>3, <2>4, <2>5 DEF TypeOK
  <1>7. QED
    BY <1>1, <1>2, <1>3, <1>4, <1>5, <1>6
       DEF wvctl_unload

\* The steps of a registration and of an unregistration.
LEMMA CallTypeOK ==
  ASSUME NEW t \in Clients, NEW k \in Kinds, TypeOK,
         Register(t, k) \/ Unregister(t, k)
  PROVE  TypeOK'
  <1>0. t \in Threads /\ t # Worker /\ (t = Main \/ t \in Others)
    BY Distinct DEF Clients
  <1> USE Distinct, ObjectsFacts
  <1> USE DEF TypeOK, flags, redraws, lists, window, calls, dispatch, loading
  <1>1. ASSUME Enters(t, k, "rg_loaded") PROVE TypeOK'
    <2>1. FlagsOK' /\ ListsOK' /\ WindowOK' /\ DispatchOK'
      BY <1>1 DEF Enters, FlagsOK, ListsOK, WindowOK, DispatchOK
    <2>2. ControlOK'
      BY <1>1 DEF Enters, ControlOK, Goto, ClientPoints
    <2>3. CallsOK'
      BY <1>1 DEF Enters, CallsOK, Goto, ControlOK
    <2>4. LoadingOK'
      BY <1>1 DEF Enters, LoadingOK, Goto, ControlOK
    <2>5. QED
      BY <2>1, <2>2, <2>3, <2>4 DEF TypeOK
  <1>2. ASSUME Enters(t, k, "un_loaded") PROVE TypeOK'
    <2>1. FlagsOK' /\ ListsOK' /\ WindowOK' /\ DispatchOK'
      BY <1>2 DEF Enters, FlagsOK, ListsOK, WindowOK, DispatchOK
    <2>2. ControlOK'
      BY <1>2 DEF Enters, ControlOK, Goto, ClientPoints
    <2>3. CallsOK'
      BY <1>2 DEF Enters, CallsOK, Goto, ControlOK
    <2>4. LoadingOK'
      BY <1>2 DEF Enters, LoadingOK, Goto, ControlOK
    <2>5. QED
      BY <2>1, <2>2, <2>3, <2>4 DEF TypeOK
  <1>3. ASSUME TestsLoaded(t, k, "rg_loaded", "rg_acquire") PROVE TypeOK'
    <2>1. FlagsOK' /\ ListsOK' /\ WindowOK' /\ DispatchOK'
      BY <1>3 DEF TestsLoaded, Return, Goto, FlagsOK, ListsOK, WindowOK,
            DispatchOK
    <2>2. ControlOK'
      BY <1>3 DEF TestsLoaded, Return, Goto, ControlOK, ClientPoints
    <2>3. CallsOK'
      BY <1>3 DEF TestsLoaded, Return, Goto, CallsOK, ControlOK
    <2>4. LoadingOK'
      BY <1>3 DEF TestsLoaded, Return, Goto, LoadingOK, ControlOK
    <2>5. QED
      BY <2>1, <2>2, <2>3, <2>4 DEF TypeOK
  <1>4. ASSUME TestsLoaded(t, k, "un_loaded", "un_acquire") PROVE TypeOK'
    <2>1. FlagsOK' /\ ListsOK' /\ WindowOK' /\ DispatchOK'
      BY <1>4 DEF TestsLoaded, Return, Goto, FlagsOK, ListsOK, WindowOK,
            DispatchOK
    <2>2. ControlOK'
      BY <1>4 DEF TestsLoaded, Return, Goto, ControlOK, ClientPoints
    <2>3. CallsOK'
      BY <1>4 DEF TestsLoaded, Return, Goto, CallsOK, ControlOK
    <2>4. LoadingOK'
      BY <1>4 DEF TestsLoaded, Return, Goto, LoadingOK, ControlOK
    <2>5. QED
      BY <2>1, <2>2, <2>3, <2>4 DEF TypeOK
  <1>5. ASSUME Acquires(t, k, "rg_acquire", "rg_find") PROVE TypeOK'
    <2>1. FlagsOK' /\ WindowOK' /\ DispatchOK'
      BY <1>5 DEF Acquires, Return, Goto, FlagsOK, WindowOK, DispatchOK
    <2>2. ListsOK'
      BY <1>5 DEF Acquires, Return, Goto, ListsOK
    <2>3. ControlOK'
      BY <1>5 DEF Acquires, Return, Goto, ControlOK, ClientPoints
    <2>4. CallsOK'
      BY <1>5 DEF Acquires, Return, Goto, CallsOK, ControlOK
    <2>5. LoadingOK'
      BY <1>5 DEF Acquires, Return, Goto, LoadingOK, ControlOK
    <2>6. QED
      BY <2>1, <2>2, <2>3, <2>4, <2>5 DEF TypeOK
  <1>6. ASSUME Acquires(t, k, "un_acquire", "un_find") PROVE TypeOK'
    <2>1. FlagsOK' /\ WindowOK' /\ DispatchOK'
      BY <1>6 DEF Acquires, Return, Goto, FlagsOK, WindowOK, DispatchOK
    <2>2. ListsOK'
      BY <1>6 DEF Acquires, Return, Goto, ListsOK
    <2>3. ControlOK'
      BY <1>6 DEF Acquires, Return, Goto, ControlOK, ClientPoints
    <2>4. CallsOK'
      BY <1>6 DEF Acquires, Return, Goto, CallsOK, ControlOK
    <2>5. LoadingOK'
      BY <1>6 DEF Acquires, Return, Goto, LoadingOK, ControlOK
    <2>6. QED
      BY <2>1, <2>2, <2>3, <2>4, <2>5 DEF TypeOK
  <1>7. ASSUME Releases(t, k, "rg_release") PROVE TypeOK'
    <2>1. FlagsOK' /\ WindowOK' /\ DispatchOK'
      BY <1>7 DEF Releases, Return, Goto, FlagsOK, WindowOK, DispatchOK
    <2>2. ListsOK'
      BY <1>7 DEF Releases, Return, Goto, ListsOK, Released
    <2>3. ControlOK'
      BY <1>7 DEF Releases, Return, Goto, ControlOK, ClientPoints
    <2>4. CallsOK'
      BY <1>7 DEF Releases, Return, Goto, CallsOK, ControlOK
    <2>5. LoadingOK'
      BY <1>7 DEF Releases, Return, Goto, LoadingOK, ControlOK
    <2>6. QED
      BY <2>1, <2>2, <2>3, <2>4, <2>5 DEF TypeOK
  <1>8. ASSUME Releases(t, k, "un_release") PROVE TypeOK'
    <2>1. FlagsOK' /\ WindowOK' /\ DispatchOK'
      BY <1>8 DEF Releases, Return, Goto, FlagsOK, WindowOK, DispatchOK
    <2>2. ListsOK'
      BY <1>8 DEF Releases, Return, Goto, ListsOK, Released
    <2>3. ControlOK'
      BY <1>8 DEF Releases, Return, Goto, ControlOK, ClientPoints
    <2>4. CallsOK'
      BY <1>8 DEF Releases, Return, Goto, CallsOK, ControlOK
    <2>5. LoadingOK'
      BY <1>8 DEF Releases, Return, Goto, LoadingOK, ControlOK
    <2>6. QED
      BY <2>1, <2>2, <2>3, <2>4, <2>5 DEF TypeOK
  <1>9. ASSUME RegisterFinds(t, k) PROVE TypeOK'
    <2>1. FlagsOK' /\ ListsOK' /\ WindowOK' /\ DispatchOK'
      BY <1>9 DEF RegisterFinds, Goto, FlagsOK, ListsOK, WindowOK, DispatchOK
    <2>2. ControlOK'
      BY <1>9 DEF RegisterFinds, Goto, ControlOK, ClientPoints
    <2>3. CallsOK'
      <3>1. CASE \E cb \in Callbacks : /\ Goto(t, "rg_find", "rg_insert")
                                      /\ arg' = [arg EXCEPT ![t] = cb]
        BY <1>9, <3>1 DEF RegisterFinds, Goto, CallsOK, ControlOK
      <3>2. CASE Goto(t, "rg_find", "rg_release") /\ UNCHANGED arg
        BY <1>9, <3>2 DEF RegisterFinds, Goto, CallsOK, ControlOK
      <3>3. QED
        BY <1>9, <3>1, <3>2 DEF RegisterFinds
    <2>4. LoadingOK'
      BY <1>9 DEF RegisterFinds, Goto, LoadingOK, ControlOK
    <2>5. QED
      BY <2>1, <2>2, <2>3, <2>4 DEF TypeOK
  <1>10. ASSUME RegisterInserts(t, k) PROVE TypeOK'
    <2>1. FlagsOK' /\ WindowOK' /\ DispatchOK'
      BY <1>10 DEF RegisterInserts, Goto, FlagsOK, WindowOK, DispatchOK
    <2>2. ListsOK'
      <3>1. arg[t] \in Callbacks
        BY <1>0, <1>10 DEF RegisterInserts, Goto, CallsOK
      <3>2. Append(cbl[k], arg[t]) \in Seq(Callbacks)
        BY <3>1 DEF ListsOK
      <3>3. QED
        BY <1>10, <3>2 DEF RegisterInserts, ListsOK
    <2>3. ControlOK'
      BY <1>10 DEF RegisterInserts, Goto, ControlOK, ClientPoints
    <2>4. CallsOK'
      BY <1>10 DEF RegisterInserts, Goto, CallsOK, ControlOK
    <2>5. LoadingOK'
      BY <1>10 DEF RegisterInserts, Goto, LoadingOK, ControlOK
    <2>6. QED
      BY <2>1, <2>2, <2>3, <2>4, <2>5 DEF TypeOK
  <1>11. ASSUME UnregisterFinds(t, k) PROVE TypeOK'
    <2>1. FlagsOK' /\ ListsOK' /\ WindowOK' /\ DispatchOK'
      BY <1>11 DEF UnregisterFinds, FlagsOK, ListsOK, WindowOK, DispatchOK
    <2>2. ControlOK'
      BY <1>11 DEF UnregisterFinds, ControlOK, Goto, ClientPoints
    <2>3. CallsOK'
      BY <1>11, DataAssumption DEF UnregisterFinds, CallsOK, Goto, ControlOK
    <2>4. LoadingOK'
      BY <1>11 DEF UnregisterFinds, LoadingOK, Goto, ControlOK
    <2>5. QED
      BY <2>1, <2>2, <2>3, <2>4 DEF TypeOK
  <1>12. ASSUME UnregisterRemoves(t, k) PROVE TypeOK'
    <2>1. FlagsOK' /\ WindowOK' /\ DispatchOK'
      BY <1>12 DEF UnregisterRemoves, FlagsOK, WindowOK, DispatchOK
    <2>2. ListsOK'
      <3>1. ASSUME NEW i \in DOMAIN cbl[k]
            PROVE  RemoveAt(cbl[k], i) \in Seq(Callbacks)
        BY RemoveAtType DEF ListsOK
      <3>2. \/ cbl' = cbl
            \/ \E i \in DOMAIN cbl[k] :
                 cbl' = [cbl EXCEPT ![k] = RemoveAt(cbl[k], i)]
        BY <1>12 DEF UnregisterRemoves
      <3>3. ASSUME NEW s \in Seq(Callbacks), cbl' = [cbl EXCEPT ![k] = s]
            PROVE  cbl' \in [Kinds -> Seq(Callbacks)]
        BY <3>3 DEF ListsOK
      <3>4. cbl' \in [Kinds -> Seq(Callbacks)]
        BY <3>1, <3>2, <3>3 DEF ListsOK
      <3>5. QED
        BY <1>12, <3>4 DEF UnregisterRemoves, ListsOK
    <2>3. ControlOK'
      BY <1>12 DEF UnregisterRemoves, ControlOK, Goto, ClientPoints
    <2>4. CallsOK'
      BY <1>12 DEF UnregisterRemoves, CallsOK, Goto, ControlOK
    <2>5. LoadingOK'
      BY <1>12 DEF UnregisterRemoves, LoadingOK, Goto, ControlOK
    <2>6. QED
      BY <2>1, <2>2, <2>3, <2>4, <2>5 DEF TypeOK
  <1>13. ASSUME UnregisterFailed(t, k) PROVE TypeOK'
    <2>1. FlagsOK' /\ WindowOK' /\ DispatchOK'
      BY <1>13 DEF UnregisterFailed, Return, Goto, FlagsOK, WindowOK,
            DispatchOK
    <2>2. ListsOK'
      BY <1>13 DEF UnregisterFailed, Return, Goto, ListsOK, Released
    <2>3. ControlOK'
      BY <1>13 DEF UnregisterFailed, Return, Goto, ControlOK, ClientPoints
    <2>4. CallsOK'
      BY <1>13 DEF UnregisterFailed, Return, Goto, CallsOK, ControlOK
    <2>5. LoadingOK'
      BY <1>13 DEF UnregisterFailed, Return, Goto, LoadingOK, ControlOK
    <2>6. QED
      BY <2>1, <2>2, <2>3, <2>4, <2>5 DEF TypeOK
  <1>14. QED
    BY <1>1, <1>2, <1>3, <1>4, <1>5, <1>6, <1>7, <1>8, <1>9, <1>10, <1>11,
       <1>12, <1>13
       DEF Register, Unregister

\* The steps of the worker's initialisation and main loop.
LEMMA WorkerTypeOK ==
  TypeOK /\ WorkerLoopStep => TypeOK'
  <1> SUFFICES ASSUME TypeOK, WorkerLoopStep PROVE TypeOK'
    OBVIOUS
  <1> USE Distinct, ObjectsFacts
  <1> USE DEF TypeOK, flags, redraws, lists, window, calls, dispatch, loading
  <1>1. CASE WorkerInit
    <2>1. FlagsOK' /\ ListsOK' /\ DispatchOK'
      BY <1>1 DEF WorkerInit, FlagsOK, ListsOK, DispatchOK
    <2>2. WindowOK'
      BY <1>1 DEF WorkerInit, WindowOK
    <2>3. ControlOK'
      BY <1>1 DEF WorkerInit, ControlOK, Goto, WorkerPoints, DispatchPoints
    <2>4. CallsOK'
      BY <1>1 DEF WorkerInit, CallsOK, Goto, ControlOK
    <2>5. LoadingOK'
      BY <1>1 DEF WorkerInit, LoadingOK, Goto, ControlOK
    <2>6. QED
      BY <2>1, <2>2, <2>3, <2>4, <2>5 DEF TypeOK
  <1>2. CASE WorkerLoop
    <2>1. FlagsOK' /\ ListsOK' /\ WindowOK' /\ DispatchOK'
      BY <1>2 DEF WorkerLoop, FlagsOK, ListsOK, WindowOK, DispatchOK
    <2>2. ControlOK'
      BY <1>2 DEF WorkerLoop, ControlOK, Goto, WorkerPoints, DispatchPoints
    <2>3. CallsOK'
      BY <1>2 DEF WorkerLoop, CallsOK, Goto, ControlOK
    <2>4. LoadingOK'
      BY <1>2 DEF WorkerLoop, LoadingOK, Goto, ControlOK
    <2>5. QED
      BY <2>1, <2>2, <2>3, <2>4 DEF TypeOK
  <1>3. CASE WorkerProcessed
    <2>1. FlagsOK' /\ ListsOK' /\ WindowOK' /\ DispatchOK'
      BY <1>3 DEF WorkerProcessed, FlagsOK, ListsOK, WindowOK, DispatchOK
    <2>2. ControlOK'
      BY <1>3 DEF WorkerProcessed, ControlOK, Goto, WorkerPoints,
            DispatchPoints
    <2>3. CallsOK'
      BY <1>3 DEF WorkerProcessed, CallsOK, Goto, ControlOK
    <2>4. LoadingOK'
      BY <1>3 DEF WorkerProcessed, LoadingOK, Goto, ControlOK
    <2>5. QED
      BY <2>1, <2>2, <2>3, <2>4 DEF TypeOK
  <1>4. CASE WorkerTestsRedraw
    <2>1. FlagsOK' /\ ListsOK' /\ WindowOK' /\ DispatchOK'
      BY <1>4 DEF WorkerTestsRedraw, FlagsOK, ListsOK, WindowOK, DispatchOK
    <2>2. ControlOK'
      BY <1>4 DEF WorkerTestsRedraw, ControlOK, Goto, WorkerPoints,
            DispatchPoints
    <2>3. CallsOK'
      BY <1>4 DEF WorkerTestsRedraw, CallsOK, Goto, ControlOK
    <2>4. LoadingOK'
      BY <1>4 DEF WorkerTestsRedraw, LoadingOK, Goto, ControlOK
    <2>5. QED
      BY <2>1, <2>2, <2>3, <2>4 DEF TypeOK
  <1>5. CASE WorkerPosts
    <2>1. FlagsOK' /\ ListsOK' /\ DispatchOK'
      BY <1>5 DEF WorkerPosts, FlagsOK, ListsOK, DispatchOK
    <2>2. WindowOK'
      BY <1>5 DEF WorkerPosts, WindowOK
    <2>3. ControlOK'
      BY <1>5 DEF WorkerPosts, ControlOK, Goto, WorkerPoints, DispatchPoints
    <2>4. CallsOK'
      BY <1>5 DEF WorkerPosts, CallsOK, Goto, ControlOK
    <2>5. LoadingOK'
      BY <1>5 DEF WorkerPosts, LoadingOK, Goto, ControlOK
    <2>6. QED
      BY <2>1, <2>2, <2>3, <2>4, <2>5 DEF TypeOK
  <1>6. CASE WorkerClearsRedraw
    <2>1. ListsOK' /\ WindowOK' /\ DispatchOK'
      BY <1>6 DEF WorkerClearsRedraw, ListsOK, WindowOK, DispatchOK
    <2>2. FlagsOK'
      BY <1>6 DEF WorkerClearsRedraw, FlagsOK
    <2>3. ControlOK'
      BY <1>6 DEF WorkerClearsRedraw, ControlOK, Goto, WorkerPoints,
            DispatchPoints
    <2>4. CallsOK'
      BY <1>6 DEF WorkerClearsRedraw, CallsOK, Goto, ControlOK
    <2>5. LoadingOK'
      BY <1>6 DEF WorkerClearsRedraw, LoadingOK, Goto, ControlOK
    <2>6. QED
      BY <2>1, <2>2, <2>3, <2>4, <2>5 DEF TypeOK
  <1>7. CASE WorkerTestsExitRoutine
    <2>1. FlagsOK' /\ ListsOK' /\ WindowOK' /\ DispatchOK'
      BY <1>7 DEF WorkerTestsExitRoutine, FlagsOK, ListsOK, WindowOK,
            DispatchOK
    <2>2. ControlOK'
      BY <1>7 DEF WorkerTestsExitRoutine, ControlOK, Goto, WorkerPoints,
            DispatchPoints
    <2>3. CallsOK'
      BY <1>7 DEF WorkerTestsExitRoutine, CallsOK, Goto, ControlOK
    <2>4. LoadingOK'
      BY <1>7 DEF WorkerTestsExitRoutine, LoadingOK, Goto, ControlOK
    <2>5. QED
      BY <2>1, <2>2, <2>3, <2>4 DEF TypeOK
  <1>8. CASE WorkerCallsExitRoutine
    <2>1. FlagsOK' /\ ListsOK' /\ WindowOK' /\ DispatchOK'
      BY <1>8 DEF WorkerCallsExitRoutine, FlagsOK, ListsOK, WindowOK,
            DispatchOK
    <2>2. ControlOK'
      BY <1>8 DEF WorkerCallsExitRoutine, ControlOK, Goto, WorkerPoints,
            DispatchPoints
    <2>3. CallsOK'
      BY <1>8 DEF WorkerCallsExitRoutine, CallsOK, Goto, ControlOK
    <2>4. LoadingOK'
      BY <1>8 DEF WorkerCallsExitRoutine, LoadingOK, Goto, ControlOK
    <2>5. QED
      BY <2>1, <2>2, <2>3, <2>4 DEF TypeOK
  <1>9. QED
    BY <1>1, <1>2, <1>3, <1>4, <1>5, <1>6, <1>7, <1>8
       DEF WorkerLoopStep

\* The callbacks GLUT makes.
LEMMA EventTypeOK ==
  TypeOK /\ Event => TypeOK'
  <1> SUFFICES ASSUME TypeOK, Event PROVE TypeOK'
    OBVIOUS
  <1> USE Distinct, ObjectsFacts
  <1> USE DEF TypeOK, flags, redraws, lists, window, calls, dispatch, loading
  <1>1. CASE wview_keyboard_func
    <2>1. ListsOK'
      BY <1>1 DEF wview_keyboard_func, UserEvent, ListsOK
    <2>2. FlagsOK'
      BY <1>1 DEF wview_keyboard_func, UserEvent, FlagsOK
    <2>3. WindowOK'
      BY <1>1 DEF wview_keyboard_func, UserEvent, WindowOK
    <2>4. ControlOK'
      BY <1>1 DEF wview_keyboard_func, UserEvent, ControlOK, Goto,
            WorkerPoints, DispatchPoints
    <2>5. CallsOK'
      BY <1>1 DEF wview_keyboard_func, UserEvent, CallsOK, Goto, ControlOK,
            Kinds
    <2>6. DispatchOK'
      BY <1>1 DEF wview_keyboard_func, UserEvent, DispatchOK
    <2>7. LoadingOK'
      BY <1>1 DEF wview_keyboard_func, UserEvent, LoadingOK, Goto, ControlOK
    <2>8. QED
      BY <2>1, <2>2, <2>3, <2>4, <2>5, <2>6, <2>7 DEF TypeOK
  <1>2. CASE wview_mouse_func
    <2>1. ListsOK'
      BY <1>2 DEF wview_mouse_func, UserEvent, ListsOK
    <2>2. FlagsOK'
      BY <1>2 DEF wview_mouse_func, UserEvent, FlagsOK
    <2>3. WindowOK'
      BY <1>2 DEF wview_mouse_func, UserEvent, WindowOK
    <2>4. ControlOK'
      BY <1>2 DEF wview_mouse_func, UserEvent, ControlOK, Goto, WorkerPoints,
            DispatchPoints
    <2>5. CallsOK'
      BY <1>2 DEF wview_mouse_func, UserEvent, CallsOK, Goto, ControlOK, Kinds
    <2>6. DispatchOK'
      BY <1>2 DEF wview_mouse_func, UserEvent, DispatchOK
    <2>7. LoadingOK'
      BY <1>2 DEF wview_mouse_func, UserEvent, LoadingOK, Goto, ControlOK
    <2>8. QED
      BY <2>1, <2>2, <2>3, <2>4, <2>5, <2>6, <2>7 DEF TypeOK
  <1>3. CASE wview_display_func
    <2>1. ListsOK'
      BY <1>3 DEF wview_display_func, UserEvent, ListsOK
    <2>2. FlagsOK'
      BY <1>3 DEF wview_display_func, UserEvent, FlagsOK
    <2>3. WindowOK'
      BY <1>3 DEF wview_display_func, UserEvent, WindowOK
    <2>4. ControlOK'
      BY <1>3 DEF wview_display_func, UserEvent, ControlOK, Goto, WorkerPoints,
            DispatchPoints
    <2>5. CallsOK'
      BY <1>3 DEF wview_display_func, UserEvent, CallsOK, Goto, ControlOK,
            Kinds
    <2>6. DispatchOK'
      BY <1>3 DEF wview_display_func, UserEvent, DispatchOK
    <2>7. LoadingOK'
      BY <1>3 DEF wview_display_func, UserEvent, LoadingOK, Goto, ControlOK
    <2>8. QED
      BY <2>1, <2>2, <2>3, <2>4, <2>5, <2>6, <2>7 DEF TypeOK
  <1>4. CASE wvctl_closewnd_routine
    <2>1. ListsOK' /\ DispatchOK'
      BY <1>4 DEF wvctl_closewnd_routine, ListsOK, DispatchOK
    <2>2. FlagsOK'
      BY <1>4 DEF wvctl_closewnd_routine, FlagsOK
    <2>3. WindowOK'
      BY <1>4 DEF wvctl_closewnd_routine, WindowOK
    <2>4. ControlOK'
      BY <1>4 DEF wvctl_closewnd_routine, ControlOK, Goto, WorkerPoints,
            DispatchPoints
    <2>5. CallsOK'
      BY <1>4 DEF wvctl_closewnd_routine, CallsOK, Goto, ControlOK
    <2>6. LoadingOK'
      BY <1>4 DEF wvctl_closewnd_routine, LoadingOK, Goto, ControlOK
    <2>7. QED
      BY <2>1, <2>2, <2>3, <2>4, <2>5, <2>6 DEF TypeOK
  <1>5. CASE WindowReaped
    <2>1. FlagsOK' /\ ListsOK' /\ DispatchOK'
      BY <1>5 DEF WindowReaped, FlagsOK, ListsOK, DispatchOK
    <2>2. WindowOK'
      BY <1>5 DEF WindowReaped, WindowOK
    <2>3. ControlOK'
      BY <1>5 DEF WindowReaped, ControlOK, Goto, WorkerPoints, DispatchPoints
    <2>4. CallsOK'
      BY <1>5 DEF WindowReaped, CallsOK, Goto, ControlOK
    <2>5. LoadingOK'
      BY <1>5 DEF WindowReaped, LoadingOK, Goto, ControlOK
    <2>6. QED
      BY <2>1, <2>2, <2>3, <2>4, <2>5 DEF TypeOK
  <1>6. QED
    BY <1>1, <1>2, <1>3, <1>4, <1>5
       DEF Event

\* The steps of a *_routine.
LEMMA RoutineTypeOK ==
  ASSUME NEW k \in Kinds, TypeOK, LoopInv, Routine(k)
  PROVE  TypeOK'
  <1> USE Distinct, ObjectsFacts
  <1> USE DEF TypeOK, flags, redraws, lists, window, calls, dispatch, loading
  <1>1. ASSUME DispatchTestsLoaded(k) PROVE TypeOK'
    <2>1. FlagsOK' /\ ListsOK' /\ WindowOK'
      BY <1>1 DEF DispatchTestsLoaded, EndsPass, Goto, FlagsOK, ListsOK,
            WindowOK
    <2>2. ControlOK'
      BY <1>1 DEF DispatchTestsLoaded, EndsPass, Goto, ControlOK, WorkerPoints,
            DispatchPoints
    <2>3. CallsOK'
      BY <1>1 DEF DispatchTestsLoaded, EndsPass, Goto, CallsOK, ControlOK
    <2>4. DispatchOK'
      BY <1>1 DEF DispatchTestsLoaded, EndsPass, Goto, DispatchOK
    <2>5. LoadingOK'
      BY <1>1 DEF DispatchTestsLoaded, EndsPass, Goto, LoadingOK, ControlOK
    <2>6. QED
      BY <2>1, <2>2, <2>3, <2>4, <2>5 DEF TypeOK
  <1>2. ASSUME DispatchTestsUnloading(k) PROVE TypeOK'
    <2>1. FlagsOK' /\ ListsOK' /\ WindowOK'
      BY <1>2 DEF DispatchTestsUnloading, EndsPass, Goto, FlagsOK, ListsOK,
            WindowOK
    <2>2. ControlOK'
      BY <1>2 DEF DispatchTestsUnloading, EndsPass, Goto, ControlOK,
            WorkerPoints, DispatchPoints
    <2>3. CallsOK'
      BY <1>2 DEF DispatchTestsUnloading, EndsPass, Goto, CallsOK, ControlOK
    <2>4. DispatchOK'
      BY <1>2 DEF DispatchTestsUnloading, EndsPass, Goto, DispatchOK
    <2>5. LoadingOK'
      BY <1>2 DEF DispatchTestsUnloading, EndsPass, Goto, LoadingOK, ControlOK
    <2>6. QED
      BY <2>1, <2>2, <2>3, <2>4, <2>5 DEF TypeOK
  <1>3. ASSUME DispatchAcquires(k) PROVE TypeOK'
    <2>1. FlagsOK' /\ WindowOK'
      BY <1>3 DEF DispatchAcquires, EndsPass, Goto, FlagsOK, WindowOK
    <2>2. ListsOK'
      <3>1. cbl' = cbl /\ memory' = memory
        BY <1>3 DEF DispatchAcquires
      <3>2. lock' = lock \/ lock' = [lock EXCEPT ![k] = Worker]
        BY <1>3 DEF DispatchAcquires
      <3>3. QED
        BY <3>1, <3>2 DEF ListsOK
    <2>3. ControlOK'
      BY <1>3 DEF DispatchAcquires, EndsPass, Goto, ControlOK, WorkerPoints,
            DispatchPoints
    <2>4. CallsOK'
      BY <1>3 DEF DispatchAcquires, EndsPass, Goto, CallsOK, ControlOK
    <2>5. DispatchOK'
      BY <1>3 DEF DispatchAcquires, EndsPass, Goto, DispatchOK
    <2>6. LoadingOK'
      BY <1>3 DEF DispatchAcquires, EndsPass, Goto, LoadingOK, ControlOK
    <2>7. QED
      BY <2>1, <2>2, <2>3, <2>4, <2>5, <2>6 DEF TypeOK
  <1>4. ASSUME DispatchCounts(k) PROVE TypeOK'
    <2>1. FlagsOK' /\ ListsOK' /\ WindowOK'
      BY <1>4 DEF DispatchCounts, Goto, FlagsOK, ListsOK, WindowOK
    <2>2. ControlOK'
      BY <1>4 DEF DispatchCounts, Goto, ControlOK, WorkerPoints, DispatchPoints
    <2>3. CallsOK'
      BY <1>4 DEF DispatchCounts, Goto, CallsOK, ControlOK
    <2>4. DispatchOK'
      <3>1. Len(cbl[k]) \in Nat
        BY DEF ListsOK
      <3>2. next = 0
        BY <1>4 DEF DispatchCounts, Goto, LoopInv
      <3>3. QED
        BY <1>4, <3>1, <3>2 DEF DispatchCounts, DispatchOK
    <2>5. LoadingOK'
      BY <1>4 DEF DispatchCounts, Goto, LoadingOK, ControlOK
    <2>6. QED
      BY <2>1, <2>2, <2>3, <2>4, <2>5 DEF TypeOK
  <1>5. ASSUME DispatchCalls(k) PROVE TypeOK'
    <2>1. ListsOK' /\ WindowOK'
      BY <1>5 DEF DispatchCalls, RequestRedraw, ListsOK, WindowOK
    <2>2. FlagsOK'
      BY <1>5 DEF DispatchCalls, RequestRedraw, FlagsOK
    <2>3. ControlOK'
      BY <1>5 DEF DispatchCalls, RequestRedraw, ControlOK, Goto, WorkerPoints,
            DispatchPoints
    <2>4. CallsOK'
      BY <1>5 DEF DispatchCalls, RequestRedraw, CallsOK, Goto, ControlOK
    <2>5. DispatchOK'
      BY <1>5 DEF DispatchCalls, RequestRedraw, DispatchOK
    <2>6. LoadingOK'
      BY <1>5 DEF DispatchCalls, RequestRedraw, LoadingOK, Goto, ControlOK
    <2>7. QED
      BY <2>1, <2>2, <2>3, <2>4, <2>5, <2>6 DEF TypeOK
  <1>6. ASSUME DispatchEnds(k) PROVE TypeOK'
    <2>1. FlagsOK' /\ ListsOK' /\ WindowOK' /\ DispatchOK'
      BY <1>6 DEF DispatchEnds, FlagsOK, ListsOK, WindowOK, DispatchOK
    <2>2. ControlOK'
      BY <1>6 DEF DispatchEnds, ControlOK, Goto, WorkerPoints, DispatchPoints
    <2>3. CallsOK'
      BY <1>6 DEF DispatchEnds, CallsOK, Goto, ControlOK
    <2>4. LoadingOK'
      BY <1>6 DEF DispatchEnds, LoadingOK, Goto, ControlOK
    <2>5. QED
      BY <2>1, <2>2, <2>3, <2>4 DEF TypeOK
  <1>7. ASSUME DispatchReleases(k) PROVE TypeOK'
    <2>1. FlagsOK' /\ WindowOK'
      BY <1>7 DEF DispatchReleases, EndsPass, Goto, FlagsOK, WindowOK
    <2>2. ListsOK'
      BY <1>7 DEF DispatchReleases, EndsPass, Goto, ListsOK, Released
    <2>3. ControlOK'
      BY <1>7 DEF DispatchReleases, EndsPass, Goto, ControlOK, WorkerPoints,
            DispatchPoints
    <2>4. CallsOK'
      BY <1>7 DEF DispatchReleases, EndsPass, Goto, CallsOK, ControlOK
    <2>5. DispatchOK'
      BY <1>7 DEF DispatchReleases, EndsPass, Goto, DispatchOK
    <2>6. LoadingOK'
      BY <1>7 DEF DispatchReleases, EndsPass, Goto, LoadingOK, ControlOK
    <2>7. QED
      BY <2>1, <2>2, <2>3, <2>4, <2>5, <2>6 DEF TypeOK
  <1>8. QED
    BY <1>1, <1>2, <1>3, <1>4, <1>5, <1>6, <1>7
       DEF Routine

\* The steps that move the worker, create it or change the index.
LEMMA LoopStep == TypeOK /\ LoopInv /\ [Next]_vars => LoopInv'
  <1> SUFFICES ASSUME TypeOK, LoopInv, [Next]_vars PROVE LoopInv'
    OBVIOUS
  <1> USE Distinct
  <1> USE DEF LoopInv, Goto, TypeOK, ControlOK, dispatch
  <1>1. CASE wvctl_load
    BY <1>1 DEF wvctl_load, Load, LoadCreates, LoadCreateFails,
       LoadStartsWorker, LoadStartFails, LoadWaits, LoadSetsLoaded,
       LoadClearsUnloading, LoadUndo
  <1>2. CASE CleanUp
    <2>1. resume \notin {"ld_create", "ld_thread"}
      BY DEF LoadingOK
    <2>2. QED
      BY <1>2, <2>1
         DEF CleanUp, wvctl_free_keyboard_cbl, wvctl_free_keyboard_cbl_lock,
             wvctl_free_mouse_cbl, wvctl_free_mouse_cbl_lock,
             wvctl_free_draw_cbl, wvctl_free_draw_cbl_lock, CountsEntries,
             PopsEntry, Frees, FreesLock, FreeDone
  <1>3. CASE wvctl_unload
    BY <1>3 DEF wvctl_unload, Unload, UnloadDestroysWindow, UnloadFails,
       UnloadDropsExitRoutine, UnloadClearsLoaded, UnloadClearsUnloading
  <1>4. ASSUME NEW t \in Clients, NEW k \in Kinds,
               Register(t, k) \/ Unregister(t, k)
        PROVE  LoopInv'
    <2>1. t \in Threads /\ t # Worker
      OBVIOUS
    <2>2. next' = next /\ pc'[Worker] = pc[Worker]
      BY <1>4, <2>1
         DEF Register, Unregister, Enters, TestsLoaded, Acquires, Releases,
             RegisterFinds, RegisterInserts, UnregisterFinds,
             UnregisterRemoves, UnregisterFailed, Return
    <2>3. pc'[Main] \in {"ld_create", "ld_thread"} => pc'[Main] = pc[Main]
      BY <1>4, <2>1
         DEF Register, Unregister, Enters, TestsLoaded, Acquires, Releases,
             RegisterFinds, RegisterInserts, UnregisterFinds,
             UnregisterRemoves, UnregisterFailed, Return
    <2>4. QED
      BY <2>2, <2>3
  <1>5. ASSUME NEW t \in Clients, wvctl_redraw(t) PROVE LoopInv'
    BY <1>5 DEF wvctl_redraw
  <1>6. CASE WorkerLoopStep
    BY <1>6 DEF WorkerLoopStep, WorkerInit, WorkerLoop, WorkerProcessed,
       WorkerTestsRedraw, WorkerPosts, WorkerClearsRedraw,
       WorkerTestsExitRoutine, WorkerCallsExitRoutine
  <1>7. CASE Event
    BY <1>7 DEF Event, UserEvent, wview_keyboard_func, wview_mouse_func,
       wview_display_func, wvctl_closewnd_routine, WindowReaped
  <1>8. ASSUME NEW k \in Kinds, Routine(k) PROVE LoopInv'
    BY <1>8 DEF Routine, DispatchTestsLoaded, DispatchTestsUnloading,
       DispatchAcquires, DispatchCounts, DispatchCalls, DispatchEnds,
       DispatchReleases, EndsPass
  <1>9. CASE UNCHANGED vars
    BY <1>9 DEF vars
  <1>10. QED
    BY <1>1, <1>2, <1>3, <1>4, <1>5, <1>6, <1>7, <1>8, <1>9, NextCases

\* Every step keeps the types.
LEMMA StepTypeOK == TypeOK /\ LoopInv /\ [Next]_vars => TypeOK'
  <1> SUFFICES ASSUME TypeOK, LoopInv, [Next]_vars PROVE TypeOK'
    OBVIOUS
  <1>1. CASE wvctl_load \/ CleanUp \/ wvctl_unload
    BY <1>1, LoadTypeOK, CleanUpTypeOK, UnloadTypeOK
  <1>2. ASSUME NEW t \in Clients, NEW k \in Kinds,
               Register(t, k) \/ Unregister(t, k)
        PROVE  TypeOK'
    BY <1>2, CallTypeOK
  <1>3. ASSUME NEW t \in Clients, wvctl_redraw(t) PROVE TypeOK'
    BY <1>3 DEF wvctl_redraw, RequestRedraw, TypeOK, FlagsOK, ListsOK,
       WindowOK, ControlOK, CallsOK, DispatchOK, LoadingOK, flags, lists,
       window, calls, dispatch, loading
  <1>4. CASE WorkerLoopStep \/ Event
    BY <1>4, WorkerTypeOK, EventTypeOK
  <1>5. ASSUME NEW k \in Kinds, Routine(k) PROVE TypeOK'
    BY <1>5, RoutineTypeOK
  <1>6. CASE UNCHANGED vars
    BY <1>6 DEF vars, TypeOK, FlagsOK, ListsOK, WindowOK, ControlOK, CallsOK,
       DispatchOK, LoadingOK, flags, redraws, lists, window, calls, dispatch,
       loading
  <1>7. QED
    BY <1>1, <1>2, <1>3, <1>4, <1>5, <1>6, NextCases

\* Every variable of the view controller keeps its type, whatever the number of
\* clients: no thread leaves the control points of its sort, no clean-up walks
\* past the objects, no dispatch past its count.
THEOREM TypeCorrect == Spec => []TypeOK
  <1>1. Init => TypeOK /\ LoopInv
    BY InitTypeOK, Distinct DEF Init, LoopInv
  <1>2. TypeOK /\ LoopInv /\ [Next]_vars => (TypeOK /\ LoopInv)'
    BY StepTypeOK, LoopStep
  <1>3. QED
    BY <1>1, <1>2, PTL DEF Spec
-----------------------------------------------------------------------------
(***************************************************************************)
(* No redraw request is lost, for every number of clients and callbacks.   *)
(*                                                                         *)
(* The worker tests wvctl_redraw_flag, posts a redisplay and clears the    *)
(* flag, in three steps and without a lock.  A request that arrives        *)
(* between the test and the clearing loses its flag; it is served by the   *)
(* redisplay already posted, which is still pending because only the       *)
(* worker itself draws.  That is the first part of RedrawInv; the others   *)
(* say that the window the redisplay is posted for is the open one.        *)
(***************************************************************************)
RedrawInv ==
  /\ pc[Worker] = "clear" => posted \/ win # "open"
  /\ win = "open" => window_id = 1
  /\ pc[Worker] \in {"unborn", "init"} => win = "none"

\* A step that leaves the window, the requests and the worker alone.
LEMMA RedrawKept ==
  ASSUME RedrawInv, NoLostRedraw, window' = window, redraws' = redraws,
         pc'[Worker] = pc[Worker]
  PROVE  RedrawInv' /\ NoLostRedraw'
  BY DEF RedrawInv, NoLostRedraw, window, redraws

LEMMA RedrawStep ==
  ASSUME TypeOK, LoopInv, RedrawInv, NoLostRedraw, [Next]_vars
  PROVE  RedrawInv' /\ NoLostRedraw'
  <1> USE Distinct
  <1> USE DEF TypeOK, ControlOK, Goto, window, redraws, flags
  <1>1. CASE wvctl_load
    <2>1. CASE LoadStartsWorker
      BY <2>1 DEF LoadStartsWorker, LoopInv, RedrawInv, NoLostRedraw
    <2>2. CASE ~LoadStartsWorker
      BY <1>1, <2>2, RedrawKept
         DEF wvctl_load, Load, LoadCreates, LoadCreateFails, LoadStartFails,
             LoadWaits, LoadSetsLoaded, LoadClearsUnloading, LoadUndo
    <2>3. QED
      BY <2>1, <2>2
  <1>2. CASE CleanUp
    BY <1>2, RedrawKept
       DEF CleanUp, wvctl_free_keyboard_cbl, wvctl_free_keyboard_cbl_lock,
           wvctl_free_mouse_cbl, wvctl_free_mouse_cbl_lock,
           wvctl_free_draw_cbl, wvctl_free_draw_cbl_lock, CountsEntries,
           PopsEntry, FreesLock, FreeDone
  <1>3. CASE wvctl_unload
    <2>1. CASE UnloadDestroysWindow \/ UnloadFails
      BY <2>1 DEF UnloadDestroysWindow, UnloadFails, RedrawInv, NoLostRedraw,
         WindowOK
    <2>2. CASE ~(UnloadDestroysWindow \/ UnloadFails)
      BY <1>3, <2>2, RedrawKept
         DEF wvctl_unload, Unload, UnloadDropsExitRoutine, UnloadClearsLoaded,
             UnloadClearsUnloading
    <2>3. QED
      BY <2>1, <2>2
  <1>4. ASSUME NEW t \in Clients, NEW k \in Kinds,
               Register(t, k) \/ Unregister(t, k)
        PROVE  RedrawInv' /\ NoLostRedraw'
    <2>1. window' = window /\ redraws' = redraws /\ pc'[Worker] = pc[Worker]
      BY <1>4
         DEF Register, Unregister, Enters, TestsLoaded, Acquires, Releases,
             Return, RegisterFinds, RegisterInserts, UnregisterFinds,
             UnregisterRemoves, UnregisterFailed
    <2>2. QED
      BY <2>1, RedrawKept
  <1>5. ASSUME NEW t \in Clients, wvctl_redraw(t)
        PROVE  RedrawInv' /\ NoLostRedraw'
    BY <1>5 DEF wvctl_redraw, RequestRedraw, RedrawInv, NoLostRedraw
  <1>6. CASE WorkerLoopStep
    <2>1. CASE WorkerInit
      <3>1. pc[Worker] = "init" /\ win = "none"
        BY <2>1 DEF WorkerInit, RedrawInv
      <3>2. pc'[Worker] \in {"loop", "done"}
        BY <2>1 DEF WorkerInit
      <3>3. \/ window_id' = 1 /\ win' = "open" /\ posted' = TRUE
            \/ win' = win
        BY <2>1 DEF WorkerInit
      <3>4. QED
        BY <3>1, <3>2, <3>3 DEF RedrawInv, NoLostRedraw
    <2>2. CASE WorkerPosts
      <3>1. /\ pc'[Worker] = "clear" /\ win' = win /\ window_id' = window_id
            /\ owed' = owed /\ wvctl_redraw_flag' = wvctl_redraw_flag
        BY <2>2 DEF WorkerPosts
      <3>2. posted' = (posted \/ (window_id # 0 /\ win = "open"))
        BY <2>2 DEF WorkerPosts
      <3>3. posted \/ win = "open" => posted'
        <4>1. win = "open" => window_id # 0
          BY DEF RedrawInv
        <4>2. QED
          BY <3>2, <4>1, Zenon
      <3>4. QED
        BY <3>1, <3>3 DEF RedrawInv, NoLostRedraw
    <2>3. CASE WorkerClearsRedraw
      BY <2>3 DEF WorkerClearsRedraw, RedrawInv, NoLostRedraw
    <2>4. CASE \/ WorkerLoop \/ WorkerProcessed \/ WorkerTestsRedraw
               \/ WorkerTestsExitRoutine \/ WorkerCallsExitRoutine
      BY <2>4
         DEF WorkerLoop, WorkerProcessed, WorkerTestsRedraw,
             WorkerTestsExitRoutine, WorkerCallsExitRoutine, RedrawInv,
             NoLostRedraw
    <2>5. QED
      BY <1>6, <2>1, <2>2, <2>3, <2>4 DEF WorkerLoopStep
  <1>7. CASE Event
    BY <1>7 DEF Event, UserEvent, wview_keyboard_func, wview_mouse_func,
       wview_display_func, wvctl_closewnd_routine, WindowReaped, RedrawInv,
       NoLostRedraw
  <1>8. ASSUME NEW k \in Kinds, Routine(k)
        PROVE  RedrawInv' /\ NoLostRedraw'
    <2>1. CASE DispatchCalls(k)
      BY <2>1 DEF DispatchCalls, RequestRedraw, RedrawInv, NoLostRedraw
    <2>2. CASE ~DispatchCalls(k)
      BY <1>8, <2>2
         DEF Routine, DispatchTestsLoaded, DispatchTestsUnloading,
             DispatchAcquires, DispatchCounts, DispatchEnds, DispatchReleases,
             EndsPass, RedrawInv, NoLostRedraw
    <2>3. QED
      BY <2>1, <2>2
  <1>9. CASE UNCHANGED vars
    BY <1>9, RedrawKept DEF vars
  <1>10. QED
    BY <1>1, <1>2, <1>3, <1>4, <1>5, <1>6, <1>7, <1>8, <1>9, NextCases

\* Until a frame is drawn, a redraw that was requested is in the flag of
\* wvctl_redraw or in GLUT's pending redisplay, as long as the window is open.
THEOREM RedrawKeptSafe == Spec => []NoLostRedraw
  <1> DEFINE Inv == TypeOK /\ LoopInv /\ RedrawInv /\ NoLostRedraw
  <1>1. Init => Inv
    BY InitTypeOK, Distinct DEF Init, LoopInv, RedrawInv, NoLostRedraw
  <1>2. Inv /\ [Next]_vars => Inv'
    BY StepTypeOK, LoopStep, RedrawStep
  <1>3. Inv => NoLostRedraw
    OBVIOUS
  <1> HIDE DEF Inv
  <1>4. QED
    BY <1>1, <1>2, <1>3, PTL DEF Spec
=============================================================================
