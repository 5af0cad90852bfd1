------------------------------- MODULE Wlock -------------------------------
(***************************************************************************)
(* The mutual exclusion object of wicom (src/wlock.c), a default POSIX     *)
(* mutex behind four functions.  The state of one lock is a single value:  *)
(* NoMutex (never initialised, or destroyed), Unlocked, or the thread that *)
(* locked it last.  A default mutex records no owner that an unlock would  *)
(* verify: releasing a lock somebody else holds opens it.                  *)
(*                                                                         *)
(* Every operator gives the new state of the lock it is applied to; the    *)
(* callers own the variable.                                               *)
(***************************************************************************)

NoMutex  == "no mutex"
Unlocked == "unlocked"

\* wlock_create initialises the memory whatever it held before, an old mutex
\* that is still locked included.
Created == Unlocked

\* wlock_free: pthread_mutex_destroy refuses a locked mutex (EBUSY), which
\* stays as it was.
Destroyed(m) == IF m = Unlocked THEN NoMutex ELSE m

MayShare(m) == m # NoMutex   \* fault: a lock that excludes nobody

\* wlock_acquire returns with the lock, fails on a destroyed mutex (EINVAL),
\* or blocks, when neither of the two holds.
MayAcquire(m)    == m = Unlocked
AcquireFails(m)  == m = NoMutex

\* wlock_release: whoever calls it.
Released(m) == IF m = NoMutex THEN NoMutex ELSE Unlocked
============================================================================
