------------------------------ MODULE Wviewctl ------------------------------
(***************************************************************************)
(* The view controller of wicom (src/wviewctl.c) with the part of the view *)
(* (src/wview_fglut.c) it depends on.                                      *)
(*                                                                         *)
(* Client threads call the functions of the module at any time; one of     *)
(* them, Main, is the thread that loads and unloads it, as main() of       *)
(* src/wicom.c does.  wvctl_load starts a worker thread, which owns the    *)
(* window: it runs GLUT's event loop, calls the registered callbacks under *)
(* the lock of their list, turns redraw requests into GLUT redisplays, and *)
(* leaves when the window is closed.                                       *)
(*                                                                         *)
(* One action is one access to shared memory, or a run of statements that  *)
(* no other thread can tell from one: a test of a flag, a lock operation,  *)
(* one operation on a list made under its lock.                            *)
(*                                                                         *)
(* There is one worker: a second one would call glutInit again (line 106   *)
(* of wview_fglut.c), which GLUT allows once in a program.  A load that    *)
(* fails before its thread is created can be repeated.                     *)
(***************************************************************************)
EXTENDS Naturals, Sequences, SequencesExt, Wlock

CONSTANTS
  Main,            \* the client thread that loads and unloads the module
  Others,          \* the other client threads
  Worker,          \* the thread wthread_create makes
  Callbacks,       \* addresses of client callback functions
  NoCallback,      \* not one of them
  LookupWord,      \* the pointer an iwvctl_find_* function reads (see Finds)
  UsedKinds,       \* the kinds of callback the clients and the user exercise
  CloseOnDestroy,  \* does GLUT call the close callback of a window that the
                   \* program destroyed?  freeglut does
  MaxEntries       \* bound: entries of each list, malloc fails beyond it

Clients == {Main} \cup Others
Threads == Clients \cup {Worker}
Kinds   == {"keyboard", "mouse", "draw"}

ASSUME ThreadsAssumption ==
  /\ Main \notin Others
  /\ Worker \notin Clients
  /\ {NoMutex, Unlocked} \cap Threads = {}

ASSUME DataAssumption ==
  /\ NoCallback \notin Callbacks
  /\ LookupWord \in [Callbacks -> Callbacks \cup {NoCallback}]
  /\ UsedKinds \subseteq Kinds
  /\ CloseOnDestroy \in BOOLEAN
  /\ MaxEntries \in [Kinds -> Nat]

VARIABLES
  wvctl_loaded, wvctl_unloading, wvctl_closed,   \* the flags of the module,
  wvctl_redraw_flag,                             \* which no lock protects
  exit_routine,    \* is an exit routine set?
  cbl,             \* the entries of each callback list
  memory,          \* the list objects: "none", "live" or "freed"
  lock,            \* the lock of each list
  tis,             \* thread_init_status, shared by wvctl_load and the worker
  window_id,       \* wview's window identifier, 0 for none
  win,             \* GLUT's window: "none", "open", "doomed" (destroyed by
                   \* the program, not yet reaped by the event loop), "gone"
  posted,          \* GLUT has a redisplay of the window pending
  pc,              \* where each thread is
  kind,            \* the list the thread's call is about
  arg,             \* the callback it has found or is about to add
  count, next,     \* entry_count and i of the loop in a *_routine
  pass,            \* calls of the *_routine this event still makes
  object, last,    \* progress of the load and of the clean-up, in Objects
  left,            \* cbcount of the loop that frees a list
  resume,          \* what follows the clean-up
  owed             \* history: a redraw was requested, nothing drawn since

flags    == <<wvctl_loaded, wvctl_unloading, wvctl_closed, exit_routine>>
redraws  == <<wvctl_redraw_flag, owed>>
lists    == <<cbl, memory, lock>>
window   == <<window_id, win, posted>>
calls    == <<kind, arg>>
dispatch == <<count, next, pass>>
loading  == <<tis, object, last, left, resume>>

vars == <<flags, redraws, lists, window, pc, calls, dispatch, loading>>

\* The thread takes control from one point to another.
Goto(t, from, to) == /\ pc[t] = from
                     /\ pc' = [pc EXCEPT ![t] = to]

\* A client's call returns; what it returned is of no use to the module.
Return(t, from) == /\ Goto(t, from, "idle")
                   /\ kind' = [kind EXCEPT ![t] = "none"]
                   /\ arg' = [arg EXCEPT ![t] = NoCallback]
-----------------------------------------------------------------------------
\* The shared objects in the order wvctl_load creates and the clean-up frees
\* them: for each kind its list, then the lock of the list.
Objects == << [kind |-> "keyboard", what |-> "list"],
              [kind |-> "keyboard", what |-> "lock"],
              [kind |-> "mouse",    what |-> "list"],
              [kind |-> "mouse",    what |-> "lock"],
              [kind |-> "draw",     what |-> "list"],
              [kind |-> "draw",     what |-> "lock"] >>

\* jmlist reports no error on a live list.  On a list that was freed it may,
\* or it may work on the memory as it was left.
ListFails(k) == memory[k] # "live"

\* A lookup compares each entry with the word that the find callback copies
\* from its parameter.  The callers pass the function's address itself, not
\* the address of a pointer to it, so the word is what lies in memory at that
\* address: the first bytes of the function's code.
Finds(k, cb) == \E i \in DOMAIN cbl[k] : cbl[k][i] = LookupWord[cb]
-----------------------------------------------------------------------------
Init ==
  /\ wvctl_loaded = FALSE
  /\ wvctl_unloading = FALSE
  /\ wvctl_closed = FALSE
  /\ exit_routine = FALSE
  /\ wvctl_redraw_flag = FALSE
  /\ owed = FALSE
  /\ cbl = [k \in Kinds |-> <<>>]
  /\ memory = [k \in Kinds |-> "none"]
  /\ lock = [k \in Kinds |-> NoMutex]
  /\ window_id = 0
  /\ win = "none"
  /\ posted = FALSE
  /\ pc = [t \in Threads |-> IF t = Worker THEN "unborn" ELSE "idle"]
  /\ kind = [t \in Threads |-> "none"]
  /\ arg = [t \in Threads |-> NoCallback]
  /\ count = 0
  /\ next = 0
  /\ pass = 0
  /\ tis = "pending"
  /\ object = 1
  /\ last = 0
  /\ left = 0
  /\ resume = "idle"
-----------------------------------------------------------------------------
(***************************************************************************)
(* wvctl_load, first part: the lists and the locks.                        *)
(***************************************************************************)
Load == /\ Goto(Main, "idle", "ld_create")
        /\ ~wvctl_loaded
        /\ pc[Worker] = "unborn"
        /\ object' = 1
        /\ UNCHANGED <<flags, redraws, lists, window, calls, dispatch, tis,
                       last, left, resume>>

LoadCreates ==
  /\ Goto(Main, "ld_create", IF object = Len(Objects) THEN "ld_thread"
                                                      ELSE "ld_create")
  /\ LET o == Objects[object] IN
       \/ /\ o.what = "list"
          /\ cbl' = [cbl EXCEPT ![o.kind] = <<>>]
          /\ memory' = [memory EXCEPT ![o.kind] = "live"]
          /\ UNCHANGED lock
       \/ /\ o.what = "lock"
          /\ lock' = [lock EXCEPT ![o.kind] = Created]
          /\ UNCHANGED <<cbl, memory>>
  /\ object' = object + 1
  /\ UNCHANGED <<flags, redraws, window, calls, dispatch, tis, last, left,
                 resume>>

\* A creation fails: free the objects created before it.
LoadCreateFails ==
  /\ Goto(Main, "ld_create", "free")
  /\ object' = 1
  /\ last' = object - 1
  /\ resume' = "idle"
  /\ UNCHANGED <<flags, redraws, lists, window, calls, dispatch, tis, left>>

\* The exit routine of the load structure is kept, the worker thread created.
LoadStartsWorker ==
  /\ pc[Main] = "ld_thread"
  /\ pc' = [pc EXCEPT ![Main] = "ld_wait", ![Worker] = "init"]
  /\ exit_routine' \in BOOLEAN
  /\ tis' = "pending"
  /\ UNCHANGED <<wvctl_loaded, wvctl_unloading, wvctl_closed, redraws, lists,
                 window, calls, dispatch, object, last, left, resume>>

LoadStartFails ==
  /\ Goto(Main, "ld_thread", "free")
  /\ exit_routine' \in BOOLEAN
  /\ object' = 1
  /\ last' = Len(Objects)
  /\ resume' = "ld_undo"
  /\ UNCHANGED <<wvctl_loaded, wvctl_unloading, wvctl_closed, redraws, lists,
                 window, calls, dispatch, tis, left>>

\* The loop that polls the initialisation flag, and the test of the status.
LoadWaits ==
  \/ /\ tis = "success"
     /\ Goto(Main, "ld_wait", "ld_loaded")
     /\ UNCHANGED <<flags, redraws, lists, window, calls, dispatch, loading>>
  \/ /\ tis = "failure"
     /\ Goto(Main, "ld_wait", "free")
     /\ object' = 1
     /\ last' = Len(Objects)
     /\ resume' = "ld_undo"
     /\ UNCHANGED <<flags, redraws, lists, window, calls, dispatch, tis, left>>

LoadSetsLoaded ==
  /\ Goto(Main, "ld_loaded", "ld_unloading")
  /\ wvctl_loaded' = TRUE
  /\ UNCHANGED <<wvctl_unloading, wvctl_closed, exit_routine, redraws, lists,
                 window, calls, dispatch, loading>>

LoadClearsUnloading ==
  /\ Goto(Main, "ld_unloading", "idle")
  /\ wvctl_unloading' = FALSE
  /\ UNCHANGED <<wvctl_loaded, wvctl_closed, exit_routine, redraws, lists,
                 window, calls, dispatch, loading>>

LoadUndo ==
  /\ Goto(Main, "ld_undo", "idle")
  /\ exit_routine' = FALSE
  /\ UNCHANGED <<wvctl_loaded, wvctl_unloading, wvctl_closed, redraws, lists,
                 window, calls, dispatch, loading>>
-----------------------------------------------------------------------------
(***************************************************************************)
(* The clean-up shared by a load that fails and by wvctl_unload: it frees  *)
(* Objects[1..last].  It acquires no lock and ignores every result.        *)
(***************************************************************************)
Frees(k, what) == /\ pc[Main] = "free"
                  /\ object <= last
                  /\ Objects[object] = [kind |-> k, what |-> what]

\* The keyboard and the draw list: read the number of entries, then pop and
\* free as many, unless the list has become empty; the list object stays.
CountsEntries(k) ==
  /\ Frees(k, "list")
  /\ IF cbl[k] = <<>>
     THEN /\ object' = object + 1
          /\ UNCHANGED <<pc, left>>
     ELSE /\ left' = Len(cbl[k])
          /\ Goto(Main, "free", "free_pop")
          /\ UNCHANGED object
  /\ UNCHANGED <<flags, redraws, lists, window, calls, dispatch, tis, last,
                 resume>>

PopsEntry(k) ==
  /\ pc[Main] = "free_pop"
  /\ Objects[object].kind = k
  /\ IF cbl[k] = <<>> \/ left = 0
     THEN /\ Goto(Main, "free_pop", "free")
          /\ object' = object + 1
          /\ left' = 0
          /\ UNCHANGED cbl
     ELSE /\ cbl' = [cbl EXCEPT ![k] = Front(@)]
          /\ left' = left - 1
          /\ UNCHANGED <<pc, object>>
  /\ UNCHANGED <<flags, redraws, memory, lock, window, calls, dispatch, tis,
                 last, resume>>

wvctl_free_keyboard_cbl == CountsEntries("keyboard") \/ PopsEntry("keyboard")
wvctl_free_draw_cbl     == CountsEntries("draw") \/ PopsEntry("draw")

\* The mouse list: the object is given back, entries and all.
wvctl_free_mouse_cbl ==
  /\ Frees("mouse", "list")
  /\ memory' = [memory EXCEPT !["mouse"] = "freed"]
  /\ object' = object + 1
  /\ UNCHANGED <<flags, redraws, cbl, lock, window, pc, calls, dispatch, tis,
                 last, left, resume>>

FreesLock(k) ==
  /\ Frees(k, "lock")
  /\ lock' = [lock EXCEPT ![k] = Destroyed(@)]
  /\ object' = object + 1
  /\ UNCHANGED <<flags, redraws, cbl, memory, window, pc, calls, dispatch, tis,
                 last, left, resume>>

wvctl_free_keyboard_cbl_lock == FreesLock("keyboard")
wvctl_free_mouse_cbl_lock    == FreesLock("mouse")
wvctl_free_draw_cbl_lock     == FreesLock("draw")

FreeDone ==
  /\ object > last
  /\ Goto(Main, "free", resume)
  /\ UNCHANGED <<flags, redraws, lists, window, calls, dispatch, loading>>
-----------------------------------------------------------------------------
(***************************************************************************)
(* wvctl_unload.                                                           *)
(***************************************************************************)
UnloadUnannounced ==   \* fault: the unloading flag is not set
  /\ Goto(Main, "idle", "ul_destroy")
  /\ wvctl_loaded
  /\ UNCHANGED <<flags, redraws, lists, window, calls, dispatch, loading>>

UnloadClosing ==   \* fault: unloading breaks the worker's main loop
  /\ Goto(Main, "idle", "ul_destroy")
  /\ wvctl_loaded
  /\ wvctl_unloading' = TRUE
  /\ wvctl_closed' = TRUE
  /\ UNCHANGED <<wvctl_loaded, exit_routine, redraws, lists, window, calls,
                 dispatch, loading>>

Unload ==
  /\ Goto(Main, "idle", "ul_destroy")
  /\ wvctl_loaded
  /\ wvctl_unloading' = TRUE
  /\ UNCHANGED <<wvctl_loaded, wvctl_closed, exit_routine, redraws, lists,
                 window, calls, dispatch, loading>>

\* wview_destroy_window, in the thread of the client.  It has nothing to do
\* without a window identifier; it fails when GLUT still has a current window.
UnloadDestroysWindow ==
  /\ window_id' = 0
  /\ win' = IF window_id # 0 /\ win = "open" THEN "doomed" ELSE win
  /\ Goto(Main, "ul_destroy", "free")
  /\ object' = 1
  /\ last' = Len(Objects)
  /\ resume' = "ul_exit"
  /\ UNCHANGED <<flags, redraws, lists, posted, calls, dispatch, tis, left>>

UnloadFails ==
  /\ window_id # 0
  /\ Goto(Main, "ul_destroy", "idle")
  /\ win' = IF win = "open" THEN "doomed" ELSE win
  /\ UNCHANGED <<flags, redraws, lists, window_id, posted, calls, dispatch,
                 loading>>

UnloadDropsExitRoutine ==
  /\ Goto(Main, "ul_exit", "ul_loaded")
  /\ exit_routine' = FALSE
  /\ UNCHANGED <<wvctl_loaded, wvctl_unloading, wvctl_closed, redraws, lists,
                 window, calls, dispatch, loading>>

UnloadClearsLoaded ==
  /\ Goto(Main, "ul_loaded", "ul_unloading")
  /\ wvctl_loaded' = FALSE
  /\ UNCHANGED <<wvctl_unloading, wvctl_closed, exit_routine, redraws, lists,
                 window, calls, dispatch, loading>>

UnloadClearsUnloading ==
  /\ Goto(Main, "ul_unloading", "idle")
  /\ wvctl_unloading' = FALSE
  /\ UNCHANGED <<wvctl_loaded, wvctl_closed, exit_routine, redraws, lists,
                 window, calls, dispatch, loading>>
-----------------------------------------------------------------------------
(***************************************************************************)
(* wvctl_register_*_cb and wvctl_unregister_*_cb, by any client.  A call   *)
(* that a flag turns away changes nothing and is left out where no step    *)
(* precedes it.                                                            *)
(***************************************************************************)
Enters(t, k, to) ==
  /\ ~wvctl_unloading
  /\ Goto(t, "idle", to)
  /\ kind' = [kind EXCEPT ![t] = k]
  /\ UNCHANGED <<flags, redraws, lists, window, arg, dispatch, loading>>

TestsLoaded(t, k, from, to) ==
  /\ kind[t] = k
  /\ \/ wvctl_loaded /\ Goto(t, from, to) /\ UNCHANGED calls
     \/ ~wvctl_loaded /\ Return(t, from)
  /\ UNCHANGED <<flags, redraws, lists, window, dispatch, loading>>

Acquires(t, k, from, to) ==
  /\ kind[t] = k
  /\ \/ /\ MayAcquire(lock[k])
        /\ lock' = [lock EXCEPT ![k] = t]
        /\ Goto(t, from, to)
        /\ UNCHANGED calls
     \/ /\ AcquireFails(lock[k])
        /\ Return(t, from)
        /\ UNCHANGED lock
  /\ UNCHANGED <<flags, redraws, cbl, memory, window, dispatch, loading>>

Releases(t, k, from) ==
  /\ kind[t] = k
  /\ lock' = [lock EXCEPT ![k] = Released(@)]
  /\ Return(t, from)
  /\ UNCHANGED <<flags, redraws, cbl, memory, window, dispatch, loading>>

RegisterFindsAndLeaves(t, k) ==   \* fault: a failure returns with the lock
  /\ kind[t] = k
  /\ \/ \E cb \in Callbacks :
          /\ ~Finds(k, cb)
          /\ Len(cbl[k]) < MaxEntries[k]
          /\ Goto(t, "rg_find", "rg_insert")
          /\ arg' = [arg EXCEPT ![t] = cb]
          /\ UNCHANGED kind
     \/ Return(t, "rg_find")
  /\ UNCHANGED <<flags, redraws, lists, window, dispatch, loading>>

\* The lookup for a callback that is there already, and the allocation.
RegisterFinds(t, k) ==
  /\ kind[t] = k
  /\ \/ \E cb \in Callbacks :
          /\ ~Finds(k, cb)
          /\ Len(cbl[k]) < MaxEntries[k]
          /\ Goto(t, "rg_find", "rg_insert")
          /\ arg' = [arg EXCEPT ![t] = cb]
     \/ \* found already, or jmlist_find or malloc fails
        /\ Goto(t, "rg_find", "rg_release")
        /\ UNCHANGED arg
  /\ UNCHANGED <<flags, redraws, lists, window, kind, dispatch, loading>>

RegisterInserts(t, k) ==
  /\ kind[t] = k
  /\ Goto(t, "rg_insert", "rg_release")
  /\ \/ cbl' = [cbl EXCEPT ![k] = Append(@, arg[t])]
     \/ UNCHANGED cbl                            \* jmlist_insert fails
  /\ UNCHANGED <<flags, redraws, memory, lock, window, calls, dispatch,
                 loading>>

Register(t, k) == \/ Enters(t, k, "rg_loaded")
                  \/ TestsLoaded(t, k, "rg_loaded", "rg_acquire")
                  \/ Acquires(t, k, "rg_acquire", "rg_find")
                  \/ RegisterFinds(t, k)
                  \/ RegisterInserts(t, k)
                  \/ Releases(t, k, "rg_release")

\* The lookup gives the entry to remove.
UnregisterFinds(t, k) ==
  /\ kind[t] = k
  /\ \/ \E cb \in Callbacks :
          /\ Finds(k, cb)
          /\ Goto(t, "un_find", "un_remove")
          /\ arg' = [arg EXCEPT ![t] = LookupWord[cb]]
     \/ /\ ListFails(k) \/ \E cb \in Callbacks : ~Finds(k, cb)
        /\ Goto(t, "un_find", "un_release")
        /\ UNCHANGED arg
  /\ UNCHANGED <<flags, redraws, lists, window, kind, dispatch, loading>>

\* The entry may have been freed since: its removal then fails.
UnregisterRemoves(t, k) ==
  /\ kind[t] = k
  /\ \/ \E i \in DOMAIN cbl[k] :
          /\ cbl[k][i] = arg[t]
          /\ cbl' = [cbl EXCEPT ![k] = RemoveAt(@, i)]
          /\ Goto(t, "un_remove", "un_release")
     \/ /\ ListFails(k) \/ \A i \in DOMAIN cbl[k] : cbl[k][i] # arg[t]
        /\ Goto(t, "un_remove", "un_failed")
        /\ UNCHANGED cbl
  /\ UNCHANGED <<flags, redraws, memory, lock, window, calls, dispatch,
                 loading>>

\* A failed removal releases the lock and reports; wvctl_unregister_mouse_cb
\* goes on to release_and_fail and releases the lock again.
UnregisterFailed(t, k) ==
  /\ kind[t] = k
  /\ lock' = [lock EXCEPT ![k] = Released(@)]
  /\ IF k = "mouse" THEN Goto(t, "un_failed", "un_release") /\ UNCHANGED calls
                    ELSE Return(t, "un_failed")
  /\ UNCHANGED <<flags, redraws, cbl, memory, window, dispatch, loading>>

Unregister(t, k) == \/ Enters(t, k, "un_loaded")
                    \/ TestsLoaded(t, k, "un_loaded", "un_acquire")
                    \/ Acquires(t, k, "un_acquire", "un_find")
                    \/ UnregisterFinds(t, k)
                    \/ UnregisterRemoves(t, k)
                    \/ UnregisterFailed(t, k)
                    \/ Releases(t, k, "un_release")

wvctl_register_keyboard_cb(t)   == Register(t, "keyboard")
wvctl_unregister_keyboard_cb(t) == Unregister(t, "keyboard")
wvctl_register_mouse_cb(t)      == Register(t, "mouse")
wvctl_unregister_mouse_cb(t)    == Unregister(t, "mouse")
wvctl_register_draw_cb(t)       == Register(t, "draw")
wvctl_unregister_draw_cb(t)     == Unregister(t, "draw")

\* wvctl_redraw: a flag for the worker; the module need not be loaded.
RequestRedraw == /\ wvctl_redraw_flag' = TRUE
                 /\ owed' = TRUE

wvctl_redraw(t) ==
  /\ pc[t] = "idle"
  /\ RequestRedraw
  /\ UNCHANGED <<flags, lists, window, pc, calls, dispatch, loading>>
-----------------------------------------------------------------------------
(***************************************************************************)
(* The worker thread: initialisation and main loop.                        *)
(***************************************************************************)
WorkerInitSilent ==   \* fault: a window that fails is not reported
  \/ /\ Goto(Worker, "init", "loop")
     /\ window_id' = 1
     /\ win' = "open"
     /\ posted' = TRUE
     /\ tis' = "success"
     /\ UNCHANGED <<flags, redraws, lists, calls, dispatch, object, last, left,
                    resume>>
  \/ /\ Goto(Worker, "init", "done")
     /\ UNCHANGED <<flags, redraws, lists, window, calls, dispatch, loading>>

\* wview_load, which cannot fail here, and wview_create_window.
WorkerInit ==
  \/ /\ Goto(Worker, "init", "loop")
     /\ window_id' = 1
     /\ win' = "open"
     /\ posted' = TRUE
     /\ tis' = "success"
     /\ UNCHANGED <<flags, redraws, lists, calls, dispatch, object, last, left,
                    resume>>
  \/ /\ Goto(Worker, "init", "done")
     /\ window_id' = 0
     /\ tis' = "failure"
     /\ UNCHANGED <<flags, redraws, lists, win, posted, calls, dispatch,
                    object, last, left, resume>>

WorkerLoopUntilUnloading ==   \* fault: the loop goes on unless both are set
  /\ Goto(Worker, "loop",
          IF wvctl_closed /\ wvctl_unloading THEN "exit" ELSE "process")
  /\ UNCHANGED <<flags, redraws, lists, window, calls, dispatch, loading>>

WorkerLoop ==
  /\ Goto(Worker, "loop", IF wvctl_closed THEN "exit" ELSE "process")
  /\ UNCHANGED <<flags, redraws, lists, window, calls, dispatch, loading>>

\* glutMainLoopEvent returns, in the main loop or after it.  After the main
\* loop there is no window left whose events it could dispatch.
WorkerProcessed ==
  /\ \/ Goto(Worker, "process", "redraw")
     \/ Goto(Worker, "last_process", "done")
  /\ UNCHANGED <<flags, redraws, lists, window, calls, dispatch, loading>>

WorkerAlwaysClears ==   \* fault: the flag is cleared outside the if
  /\ Goto(Worker, "redraw", IF wvctl_redraw_flag THEN "post" ELSE "clear")
  /\ UNCHANGED <<flags, redraws, lists, window, calls, dispatch, loading>>

WorkerTestsRedraw ==
  /\ Goto(Worker, "redraw", IF wvctl_redraw_flag THEN "post" ELSE "loop")
  /\ UNCHANGED <<flags, redraws, lists, window, calls, dispatch, loading>>

WorkerForgetsPost ==   \* fault: nothing reaches GLUT
  /\ Goto(Worker, "post", "clear")
  /\ UNCHANGED <<flags, redraws, lists, window, calls, dispatch, loading>>

\* wview_redraw, whose failure for want of a window goes unnoticed.
WorkerPosts ==
  /\ Goto(Worker, "post", "clear")
  /\ posted' = (posted \/ (window_id # 0 /\ win = "open"))
  /\ UNCHANGED <<flags, redraws, lists, window_id, win, calls, dispatch,
                 loading>>

WorkerClearsRedraw ==
  /\ Goto(Worker, "clear", "loop")
  /\ wvctl_redraw_flag' = FALSE
  /\ UNCHANGED <<flags, owed, lists, window, calls, dispatch, loading>>

\* The exit routine is tested, then called.
WorkerTestsExitRoutine ==
  /\ Goto(Worker, "exit", IF exit_routine THEN "call_exit" ELSE "last_process")
  /\ UNCHANGED <<flags, redraws, lists, window, calls, dispatch, loading>>

WorkerCallsExitRoutine ==
  /\ Goto(Worker, "call_exit", "last_process")
  /\ UNCHANGED <<flags, redraws, lists, window, calls, dispatch, loading>>
-----------------------------------------------------------------------------
(***************************************************************************)
(* The worker thread inside glutMainLoopEvent: the callbacks GLUT makes.   *)
(***************************************************************************)

\* A key (down, then up), a mouse button, or a frame (perspective, then
\* orthogonal) of the open window.
UserEvent(k) ==
  /\ win = "open"
  /\ Goto(Worker, "process", "dp_loaded")
  /\ kind' = [kind EXCEPT ![Worker] = k]
  /\ pass' = IF k = "mouse" THEN 1 ELSE 2
  /\ UNCHANGED <<flags, wvctl_redraw_flag, lists, window_id, win, arg, count,
                 next, loading>>

wview_keyboard_func == /\ UserEvent("keyboard")
                       /\ UNCHANGED <<owed, posted>>
wview_mouse_func    == /\ UserEvent("mouse")
                       /\ UNCHANGED <<owed, posted>>
wview_display_func  == /\ UserEvent("draw")
                       /\ owed' = FALSE
                       /\ posted' = FALSE

(***************************************************************************)
(* wvctl_keyboard_routine, wvctl_mouse_routine and wvctl_draw_routine.     *)
(***************************************************************************)

\* The call ends; the event may make another.
EndsPass(from) ==
  IF pass > 1
  THEN /\ pass' = pass - 1
       /\ Goto(Worker, from, "dp_loaded")
       /\ UNCHANGED kind
  ELSE /\ pass' = 0
       /\ Goto(Worker, from, "process")
       /\ kind' = [kind EXCEPT ![Worker] = "none"]

DispatchTestsLoaded(k) ==
  /\ kind[Worker] = k
  /\ \/ /\ wvctl_loaded
        /\ Goto(Worker, "dp_loaded", "dp_unloading")
        /\ UNCHANGED <<pass, kind>>
     \/ /\ ~wvctl_loaded
        /\ EndsPass("dp_loaded")
  /\ UNCHANGED <<flags, redraws, lists, window, arg, count, next, loading>>

DispatchTestsUnloading(k) ==
  /\ kind[Worker] = k
  /\ \/ /\ ~wvctl_unloading
        /\ Goto(Worker, "dp_unloading", "dp_acquire")
        /\ UNCHANGED <<pass, kind>>
     \/ /\ wvctl_unloading
        /\ EndsPass("dp_unloading")
  /\ UNCHANGED <<flags, redraws, lists, window, arg, count, next, loading>>

DispatchWithoutLock(k) ==   \* fault: the list is read without its lock
  /\ kind[Worker] = k
  /\ Goto(Worker, "dp_acquire", "dp_count")
  /\ UNCHANGED <<flags, redraws, lists, window, calls, dispatch, loading>>

DispatchAcquires(k) ==
  /\ kind[Worker] = k
  /\ \/ /\ MayAcquire(lock[k])
        /\ lock' = [lock EXCEPT ![k] = Worker]
        /\ Goto(Worker, "dp_acquire", "dp_count")
        /\ UNCHANGED <<pass, kind>>
     \/ /\ AcquireFails(lock[k])
        /\ EndsPass("dp_acquire")
        /\ UNCHANGED lock
  /\ UNCHANGED <<flags, redraws, cbl, memory, window, arg, count, next,
                 loading>>

DispatchCounts(k) ==
  /\ kind[Worker] = k
  /\ \/ /\ Goto(Worker, "dp_count", "dp_call")
        /\ count' = Len(cbl[k])
     \/ /\ ListFails(k)
        /\ Goto(Worker, "dp_count", "dp_release")
        /\ UNCHANGED count
  /\ UNCHANGED <<flags, redraws, lists, window, calls, next, pass, loading>>

\* The loop calls the entry it finds at its index, with the lock held; the
\* callback may ask for a redraw, as keyboard_routine of wicom.c does.
DispatchCalls(k) ==
  /\ kind[Worker] = k
  /\ pc[Worker] = "dp_call"
  /\ next < count
  /\ next < Len(cbl[k])
  /\ next' = next + 1
  /\ RequestRedraw \/ UNCHANGED redraws
  /\ UNCHANGED <<flags, lists, window, pc, calls, count, pass, loading>>

\* The loop ends, after its last entry or when there is no entry at its index.
DispatchEnds(k) ==
  /\ kind[Worker] = k
  /\ next = count \/ next >= Len(cbl[k]) \/ ListFails(k)
  /\ Goto(Worker, "dp_call", "dp_release")
  /\ UNCHANGED <<flags, redraws, lists, window, calls, dispatch, loading>>

ReleasesWithoutReset(k) ==   \* fault: the index keeps its value
  /\ kind[Worker] = k
  /\ lock' = [lock EXCEPT ![k] = Released(@)]
  /\ count' = 0
  /\ EndsPass("dp_release")
  /\ UNCHANGED <<flags, redraws, cbl, memory, window, arg, next, loading>>

DispatchReleases(k) ==
  /\ kind[Worker] = k
  /\ lock' = [lock EXCEPT ![k] = Released(@)]
  /\ count' = 0
  /\ next' = 0
  /\ EndsPass("dp_release")
  /\ UNCHANGED <<flags, redraws, cbl, memory, window, arg, loading>>

Routine(k) == \/ DispatchTestsLoaded(k) \/ DispatchTestsUnloading(k)
              \/ DispatchAcquires(k) \/ DispatchCounts(k) \/ DispatchCalls(k)
              \/ DispatchEnds(k) \/ DispatchReleases(k)

wvctl_keyboard_routine == Routine("keyboard")
wvctl_mouse_routine    == Routine("mouse")
wvctl_draw_routine     == Routine("draw")
-----------------------------------------------------------------------------
CloseWithoutFlag ==   \* fault: the closed flag is not set
  \/ /\ win = "open" \/ (win = "doomed" /\ CloseOnDestroy)
     /\ Goto(Worker, "process", "closing")
     /\ win' = "gone"
     /\ UNCHANGED <<flags, redraws, lists, window_id, posted, calls, dispatch,
                    loading>>
  \/ /\ Goto(Worker, "closing", "process")
     /\ wvctl_unloading' = TRUE
     /\ UNCHANGED <<wvctl_loaded, wvctl_closed, exit_routine, redraws, lists,
                    window, calls, dispatch, loading>>

\* The window's close callback, when the user closes the window or when GLUT
\* reaps one that the program destroyed.  It sets ignore, so that wview does
\* nothing more; GLUT has disposed of the window all the same.
wvctl_closewnd_routine ==
  \/ /\ win = "open" \/ (win = "doomed" /\ CloseOnDestroy)
     /\ Goto(Worker, "process", "closing")
     /\ win' = "gone"
     /\ wvctl_closed' = TRUE
     /\ UNCHANGED <<wvctl_loaded, wvctl_unloading, exit_routine, redraws,
                    lists, window_id, posted, calls, dispatch, loading>>
  \/ /\ Goto(Worker, "closing", "process")
     /\ wvctl_unloading' = TRUE
     /\ UNCHANGED <<wvctl_loaded, wvctl_closed, exit_routine, redraws, lists,
                    window, calls, dispatch, loading>>

\* Without a callback for it, GLUT reaps a destroyed window silently.
WindowReaped ==
  /\ win = "doomed" /\ ~CloseOnDestroy
  /\ pc[Worker] = "process"
  /\ win' = "gone"
  /\ UNCHANGED <<flags, redraws, lists, window_id, posted, pc, calls, dispatch,
                 loading>>
-----------------------------------------------------------------------------
wvctl_load == \/ Load \/ LoadCreates \/ LoadCreateFails
              \/ LoadStartsWorker \/ LoadStartFails \/ LoadWaits
              \/ LoadSetsLoaded \/ LoadClearsUnloading \/ LoadUndo

CleanUp == \/ wvctl_free_keyboard_cbl \/ wvctl_free_keyboard_cbl_lock
           \/ wvctl_free_mouse_cbl \/ wvctl_free_mouse_cbl_lock
           \/ wvctl_free_draw_cbl \/ wvctl_free_draw_cbl_lock
           \/ FreeDone

wvctl_unload == \/ Unload \/ UnloadDestroysWindow \/ UnloadFails
                \/ UnloadDropsExitRoutine \/ UnloadClearsLoaded
                \/ UnloadClearsUnloading

MainStep == wvctl_load \/ CleanUp \/ wvctl_unload

ClientStep(t) ==
  \/ "keyboard" \in UsedKinds /\ wvctl_register_keyboard_cb(t)
  \/ "keyboard" \in UsedKinds /\ wvctl_unregister_keyboard_cb(t)
  \/ "mouse" \in UsedKinds /\ wvctl_register_mouse_cb(t)
  \/ "mouse" \in UsedKinds /\ wvctl_unregister_mouse_cb(t)
  \/ "draw" \in UsedKinds /\ wvctl_register_draw_cb(t)
  \/ "draw" \in UsedKinds /\ wvctl_unregister_draw_cb(t)
  \/ wvctl_redraw(t)

WorkerLoopStep == \/ WorkerInit \/ WorkerLoop \/ WorkerProcessed
                  \/ WorkerTestsRedraw \/ WorkerPosts \/ WorkerClearsRedraw
                  \/ WorkerTestsExitRoutine \/ WorkerCallsExitRoutine

Event == \/ "keyboard" \in UsedKinds /\ wview_keyboard_func
         \/ "mouse" \in UsedKinds /\ wview_mouse_func
         \/ "draw" \in UsedKinds /\ wview_display_func
         \/ wvctl_closewnd_routine
         \/ WindowReaped

Dispatch == wvctl_keyboard_routine \/ wvctl_mouse_routine \/ wvctl_draw_routine

Next == \/ MainStep
        \/ \E t \in Clients : ClientStep(t)
        \/ WorkerLoopStep
        \/ Event
        \/ Dispatch

Spec == Init /\ [][Next]_vars

(***************************************************************************)
(* Fairness.  A thread inside the module runs on: the worker, Main between *)
(* the begin and the end of wvctl_load and wvctl_unload, a client between  *)
(* the entry and the return of its call.  No client is obliged to make a   *)
(* call and no user to close the window.  Strong fairness is assumed where *)
(* a step waits for others: pthreads let every thread that waits for a     *)
(* mutex have it in the end, glutMainLoopEvent serves the events it finds  *)
(* and returns, draws a window whose redisplay is pending, and reaps a     *)
(* window that was destroyed.                                              *)
(***************************************************************************)
Proceeds(t) == \E k \in UsedKinds : pc[t] # "idle" /\ (Register(t, k) \/ Unregister(t, k))

Fairness ==
  /\ WF_vars(pc[Main] # "idle" /\ MainStep)
  /\ \A t \in Clients : SF_vars(Proceeds(t))
  /\ WF_vars(WorkerLoopStep)
  /\ SF_vars(WorkerProcessed)
  /\ SF_vars(Dispatch)
  /\ WF_vars(pc[Worker] = "closing" /\ wvctl_closewnd_routine)
  /\ SF_vars(win = "doomed" /\ (wvctl_closewnd_routine \/ WindowReaped))
  /\ SF_vars(posted /\ "draw" \in UsedKinds /\ wview_display_func)

FairSpec == Spec /\ Fairness
-----------------------------------------------------------------------------
(***************************************************************************)
(* Properties.                                                             *)
(***************************************************************************)
MainPoints   == {"ld_create", "ld_thread", "ld_wait", "ld_loaded",
                 "ld_unloading", "ld_undo", "free", "free_pop", "ul_destroy",
                 "ul_exit", "ul_loaded", "ul_unloading"}
ClientPoints == {"idle", "rg_loaded", "rg_acquire", "rg_find", "rg_insert",
                 "rg_release", "un_loaded", "un_acquire", "un_find",
                 "un_remove", "un_failed", "un_release"}
DispatchPoints == {"dp_loaded", "dp_unloading", "dp_acquire", "dp_count",
                   "dp_call", "dp_release"}
WorkerPoints == {"unborn", "init", "loop", "process", "redraw", "post",
                 "clear", "exit", "call_exit", "last_process", "done",
                 "closing"} \cup DispatchPoints

FlagsOK ==
  /\ wvctl_loaded \in BOOLEAN
  /\ wvctl_unloading \in BOOLEAN
  /\ wvctl_closed \in BOOLEAN
  /\ exit_routine \in BOOLEAN
  /\ wvctl_redraw_flag \in BOOLEAN
  /\ owed \in BOOLEAN

ListsOK ==
  /\ cbl \in [Kinds -> Seq(Callbacks)]
  /\ memory \in [Kinds -> {"none", "live", "freed"}]
  /\ lock \in [Kinds -> {NoMutex, Unlocked} \cup Threads]

WindowOK ==
  /\ window_id \in {0, 1}
  /\ win \in {"none", "open", "doomed", "gone"}
  /\ posted \in BOOLEAN

\* Each thread is where a thread of its sort can be.
ControlOK ==
  /\ pc \in [Threads -> MainPoints \cup ClientPoints \cup WorkerPoints]
  /\ pc[Main] \in MainPoints \cup ClientPoints
  /\ pc[Worker] \in WorkerPoints
  /\ \A t \in Others : pc[t] \in ClientPoints

\* A thread that is about to insert has something to insert.
CallsOK ==
  /\ kind \in [Threads -> Kinds \cup {"none"}]
  /\ arg \in [Threads -> Callbacks \cup {NoCallback}]
  /\ \A t \in Threads : pc[t] = "rg_insert" => arg[t] \in Callbacks

\* The loop stays inside the count it took.
DispatchOK ==
  /\ count \in Nat
  /\ next \in 0..count
  /\ pass \in 0..2

\* The progress counters stay inside the sequence they walk.
LoadingOK ==
  /\ tis \in {"pending", "success", "failure"}
  /\ object \in 1..7
  /\ last \in 0..6
  /\ pc[Main] = "ld_create" => object <= 6
  /\ pc[Main] = "free_pop" => object <= last
  /\ left \in Nat
  /\ resume \in {"idle", "ld_undo", "ul_exit"}

\* Every variable has its type, and the counters and loops their ranges.
TypeOK == /\ FlagsOK /\ ListsOK /\ WindowOK /\ ControlOK
          /\ CallsOK /\ DispatchOK /\ LoadingOK

\* Between an acquire that succeeded and the release.
InSection(t, k) ==
  /\ kind[t] = k
  /\ pc[t] \in {"rg_find", "rg_insert", "rg_release", "un_find", "un_remove",
                "un_failed", "un_release", "dp_count", "dp_call",
                "dp_release"}

\* Exclusive access to a callback list: however calls, dispatches, a failed
\* load and its repetition interleave, and although wvctl_unload destroys the
\* locks without holding them, two threads are never between the acquire and
\* the release of one list, as long as the list exists.  (Once the mouse list
\* is freed, a failed removal releases its lock twice.)
ExclusiveAccess ==
  \A k \in Kinds : memory[k] = "live" =>
    \A t, u \in Threads : InSection(t, k) /\ InSection(u, k) => t = u

\* The flags the callers test never promise what is not there: while a caller
\* would find the module loaded and not unloading, all lists and locks exist.
\* It rests on the order in which load and unload write the two flags around
\* the creation and the destruction of the objects.
LoadedMeansUsable ==
  wvctl_loaded /\ ~wvctl_unloading =>
    \A k \in Kinds : memory[k] = "live" /\ lock[k] # NoMutex

\* wvctl_unload has begun to free the objects, or has finished.
Unloading == ~wvctl_loaded \/ pc[Main] \in {"free", "free_pop", "ul_exit", "ul_loaded"}

\* The loops of the *_routine functions read the number of entries once: as
\* long as nobody unloads the module it stays the length of the list, so that
\* every callback registered is called and no index misses.
CountStaysCurrent ==
  pc[Worker] = "dp_call" /\ ~Unloading => count = Len(cbl[kind[Worker]])

\* A redraw that was requested is not lost, although the worker clears the flag
\* without a lock after it has posted: until a frame is drawn, the request is
\* in the flag or in GLUT's pending redisplay, unless the window went away.
NoLostRedraw == owed => wvctl_redraw_flag \/ posted \/ win # "open"

\* The worker leaves the main loop, and calls the exit routine, only when the
\* window is gone: never because the module is unloaded around it.
LoopEndsOnClose ==
  pc[Worker] \in {"exit", "call_exit", "last_process"} => win = "gone"

\* A lock that is held is held by a thread between its acquire and its release
\* of that list: no way out of a call or a dispatch, through any of its failures
\* or a lock destroyed, created again or released twice meanwhile, leaves a lock
\* behind for which the others would wait for ever.  What such a thread does
\* next never waits, so that every wait for a lock has an end.
LocksComeBack ==
  \A k \in Kinds, t \in Threads : lock[k] = t => InSection(t, k)
-----------------------------------------------------------------------------
\* wvctl_load returns, whatever fails on the way and whatever the worker's
\* initialisation reports.
LoadReturns ==
  pc[Main] \in {"ld_create", "ld_thread", "ld_wait"} ~> pc[Main] = "idle"

\* Once the window is closed the worker leaves its loop and ends, whatever the
\* clients do in the meantime.
CloseEndsWorker == wvctl_closed ~> pc[Worker] = "done"

\* Nothing in wvctl_unload tells the worker to stop.  It ends all the same when
\* GLUT calls the close callback of the window that wvctl_unload destroyed.
UnloadEndsWorker ==
  CloseOnDestroy /\ win = "doomed" ~> pc[Worker] = "done"

\* A redraw requested of an open window leads to a frame.
RedrawServed == owed /\ win = "open" ~> ~owed \/ win # "open"
-----------------------------------------------------------------------------
(***************************************************************************)
(* What comments and documents say of the module, and the code does not do.*)
(***************************************************************************)

\* "One callback (identified only by the routine address) can only be inserted
\* once to the list, otherwise this function will return error!"
\* (wviewctl.c:950-952).  The lookup reads through the function's address instead
\* of comparing it, and finds nothing.
InsertedOnce ==
  \A k \in Kinds : memory[k] = "live" =>
    \A i, j \in DOMAIN cbl[k] : cbl[k][i] = cbl[k][j] => i = j

\* "This function doesn't acquire the keyboard callback list lock, the caller
\* is responsible for that" (wviewctl.c:100-101).  The caller is wvctl_unload: with
\* the lock held nobody else could be using a list whose entries it pops.
FreesInExclusion ==
  pc[Main] = "free_pop" =>
    \A t \in Threads : ~InSection(t, Objects[object].kind)
============================================================================
