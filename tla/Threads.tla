------------------------------ MODULE Threads ------------------------------
(***************************************************************************)
(* The library's threads and locks on Windows, which has none of POSIX's:  *)
(* ob_rwlock.c, ob_cond.c and ob_thread.c build them from slim locks,      *)
(* critical sections, condition variables and interlocked operations.  On  *)
(* other systems each function calls its POSIX counterpart.  A step is one *)
(* access to memory that threads share.                                    *)
(***************************************************************************)
EXTENDS Integers, FiniteSets

CONSTANTS WinThreads
Nobody == "nobody"

ASSUME ThreadsAssumption == Nobody \notin WinThreads

VARIABLES tpc,     \* where each thread is
          rw,      \* an ob_rw_lock_t: [shared, excl, flag], flag is is_exclusive
          cs,      \* an ob_mutex_t: [owner, count]
          asleep,  \* threads in SleepConditionVariableCS
          once,    \* an ob_thread_once_t
          ran,     \* how often the routine ran
          hnd      \* an ob_thread_handle: [handle, param, closes]

lockvars == <<rw, cs, asleep, once, ran, hnd>>
threadvars == <<tpc, rw, cs, asleep, once, ran, hnd>>
Go(t, from, to) == tpc[t] = from /\ tpc' = [tpc EXCEPT ![t] = to]

ThreadsInit ==
  /\ tpc = [t \in WinThreads |-> "idle"]
  /\ rw = [shared |-> {}, excl |-> Nobody, flag |-> FALSE]
  /\ cs = [owner |-> Nobody, count |-> 0]
  /\ asleep = {} /\ once = "init" /\ ran = 0
  /\ hnd = [handle |-> "null", param |-> "none", closes |-> 0]

(***************************************************************************)
(* The read-write lock                                                     *)
(***************************************************************************)
(* ob_rw_rdlock, and ob_rw_tryrdlock when it does not return EBUSY         *)
RwRdlock(t) ==
  /\ Go(t, "idle", "reading") /\ rw.excl = Nobody
  /\ rw' = [rw EXCEPT !.shared = @ \cup {t}]
  /\ UNCHANGED <<cs, asleep, once, ran, hnd>>
RwWrlock(t) ==
  /\ Go(t, "idle", "acquired") /\ rw.excl = Nobody /\ rw.shared = {}
  /\ rw' = [rw EXCEPT !.excl = t]
  /\ UNCHANGED <<cs, asleep, once, ran, hnd>>
RwMark(t) ==
  /\ Go(t, "acquired", "writing")
  /\ rw' = [rw EXCEPT !.flag = TRUE]
  /\ UNCHANGED <<cs, asleep, once, ran, hnd>>
(* ob_rw_unlock learns from the flag in which mode the lock is held.       *)
RwUnlock_ReleaseFirst(t) ==
  /\ UNCHANGED <<cs, asleep, once, ran, hnd>>
  /\ \/ tpc[t] \in {"reading", "writing"} /\ rw.flag
        /\ rw' = [rw EXCEPT !.excl = Nobody]
        /\ tpc' = [tpc EXCEPT ![t] = "cleared"]
     \/ tpc[t] \in {"reading", "writing"} /\ ~rw.flag
        /\ rw' = [rw EXCEPT !.shared = @ \ {t}]
        /\ tpc' = [tpc EXCEPT ![t] = "idle"]
     \/ Go(t, "cleared", "idle") /\ rw' = [rw EXCEPT !.flag = FALSE]
RwUnlock(t) ==
  /\ UNCHANGED <<cs, asleep, once, ran, hnd>>
  /\ \/ tpc[t] \in {"reading", "writing"} /\ rw.flag
        /\ rw' = [rw EXCEPT !.flag = FALSE]
        /\ tpc' = [tpc EXCEPT ![t] = "cleared"]
     \/ tpc[t] \in {"reading", "writing"} /\ ~rw.flag
        /\ rw' = [rw EXCEPT !.shared = @ \ {t}]
        /\ tpc' = [tpc EXCEPT ![t] = "idle"]
     \/ Go(t, "cleared", "idle") /\ rw' = [rw EXCEPT !.excl = Nobody]

(***************************************************************************)
(* The mutex and the condition                                             *)
(***************************************************************************)
Enter(t) == cs.owner \in {Nobody, t} /\ cs' = [owner |-> t, count |-> cs.count + 1]
Leave(t) == cs' = [owner |-> IF cs.count = 1 THEN Nobody ELSE t, count |-> cs.count - 1]

MutexLock(t) == Go(t, "idle", "locked") /\ Enter(t) /\ UNCHANGED <<rw, asleep, once, ran, hnd>>
(* ob_mutex_trylock also refuses a mutex the thread holds already          *)
MutexTrylock(t) ==
  /\ \/ Go(t, "idle", "locked") /\ Enter(t)
     \/ Go(t, "locked", "refusing") /\ Enter(t)
     \/ Go(t, "refusing", "locked") /\ Leave(t)
  /\ UNCHANGED <<rw, asleep, once, ran, hnd>>
MutexUnlock(t) == Go(t, "locked", "idle") /\ Leave(t) /\ UNCHANGED <<rw, asleep, once, ran, hnd>>

(* ob_cond_wait, ob_cond_timedwait, ob_cond_timedwait_us: a timeout that   *)
(* has passed already returns 0 at once, so that is no step here           *)
CondSleep(t) ==
  /\ Go(t, "locked", "asleep") /\ Leave(t) /\ asleep' = asleep \cup {t}
  /\ UNCHANGED <<rw, once, ran, hnd>>
CondTimeout(t) ==
  /\ Go(t, "asleep", "waking") /\ t \in asleep /\ asleep' = asleep \ {t}
  /\ UNCHANGED <<rw, cs, once, ran, hnd>>
CondWoken(t) ==
  /\ Go(t, "asleep", "waking") /\ t \notin asleep
  /\ UNCHANGED lockvars
CondReturn(t) == Go(t, "waking", "locked") /\ Enter(t) /\ UNCHANGED <<rw, asleep, once, ran, hnd>>
(* ob_cond_signal, ob_cond_broadcast                                       *)
CondWake(t) ==
  /\ tpc[t] \in {"idle", "locked"} /\ asleep # {}
  /\ asleep' \in {{}} \cup {asleep \ {u} : u \in asleep}
  /\ UNCHANGED <<tpc, rw, cs, once, ran, hnd>>

(***************************************************************************)
(* ob_thread_once                                                          *)
(***************************************************************************)
OnceEnter(t) ==
  /\ once # "done"
  /\ Go(t, "idle", IF once = "init" THEN "routine" ELSE "waiting")
  /\ once' = "inprogress"
  /\ UNCHANGED <<rw, cs, asleep, ran, hnd>>
OnceRun(t) ==
  /\ Go(t, "routine", "ran") /\ ran' = ran + 1
  /\ UNCHANGED <<rw, cs, asleep, once, hnd>>
OnceDone(t) ==
  /\ Go(t, "ran", "idle") /\ once' = "done"
  /\ UNCHANGED <<rw, cs, asleep, ran, hnd>>
OnceWait(t) ==
  /\ Go(t, "waiting", "idle") /\ once # "inprogress"
  /\ UNCHANGED lockvars

(***************************************************************************)
(* One thread that the others create, join or cancel                       *)
(***************************************************************************)
(* ob_thread_create: the thread may be detached, or not start              *)
ThreadCreate ==
  /\ hnd.param = "none" /\ hnd.closes = 0
  /\ hnd' \in {[handle |-> "null", param |-> "freed", closes |-> 0],
               [handle |-> "open", param |-> "passed", closes |-> 0],
               [handle |-> "null", param |-> "passed", closes |-> 1]}
  /\ UNCHANGED <<tpc, rw, cs, asleep, once, ran>>
(* ob_win_thread_start                                                     *)
ThreadStart ==
  /\ hnd.param = "passed" /\ hnd' = [hnd EXCEPT !.param = "freed"]
  /\ UNCHANGED <<tpc, rw, cs, asleep, once, ran>>
(* ob_thread_join waits for the end; without a handle it fails at once     *)
ThreadJoin ==
  /\ \/ hnd.handle = "open" /\ hnd.param = "freed"
        /\ hnd' = [hnd EXCEPT !.handle = "closed", !.closes = @ + 1]
     \/ hnd.handle = "null" /\ hnd' = hnd
  /\ UNCHANGED <<tpc, rw, cs, asleep, once, ran>>
(* ob_thread_cancel: the memory passed to a thread that has not read it    *)
(* yet is lost                                                             *)
ThreadCancel ==
  /\ hnd.handle = "open"
  /\ hnd' = [hnd EXCEPT !.handle = "closed", !.closes = @ + 1,
                        !.param = IF @ = "passed" THEN "lost" ELSE @]
  /\ UNCHANGED <<tpc, rw, cs, asleep, once, ran>>

ThreadsNext ==
  \/ \E t \in WinThreads :
       \/ RwRdlock(t) \/ RwWrlock(t) \/ RwMark(t) \/ RwUnlock(t)
       \/ MutexLock(t) \/ MutexTrylock(t) \/ MutexUnlock(t)
       \/ CondSleep(t) \/ CondTimeout(t) \/ CondWoken(t) \/ CondReturn(t) \/ CondWake(t)
       \/ OnceEnter(t) \/ OnceRun(t) \/ OnceDone(t) \/ OnceWait(t)
  \/ (\A t \in WinThreads : tpc[t] = "idle") /\ (ThreadCreate \/ ThreadStart \/ ThreadJoin \/ ThreadCancel)

ThreadsSpec == ThreadsInit /\ [][ThreadsNext]_threadvars

(* ob_rw_unlock releases the mode its caller holds: although any holder may*)
(* read is_exclusive, the lock's own state is always that of the threads   *)
(* that think they hold it, and no writer is beside another or a reader.   *)
RwModes ==
  /\ rw.shared = {t \in WinThreads : tpc[t] = "reading"}
  /\ \A t \in WinThreads : tpc[t] \in {"acquired", "writing", "cleared"} <=> rw.excl = t
  /\ rw.shared # {} => rw.excl = Nobody

(* A thread that ob_mutex_lock, ob_mutex_trylock or a wait left as holder  *)
(* holds the critical section exactly once, so that one unlock or one wait *)
(* lets the others in.                                                     *)
MutexHeldOnce ==
  \A t \in WinThreads :
    /\ tpc[t] = "locked" <=> (cs.owner = t /\ cs.count = 1)
    /\ tpc[t] = "refusing" <=> (cs.owner = t /\ cs.count = 2)

(* The routine given to ob_thread_once runs once, no thread goes on before *)
(* it is over, and whoever waits waits for a thread that is running it.    *)
OnceOnly ==
  /\ ran <= 1
  /\ once = "done" => ran = 1
  /\ once = "inprogress" <=> \E t \in WinThreads : tpc[t] \in {"routine", "ran"}

(* A thread's handle is closed once at most, and joining a detached thread *)
(* closes nothing (ob_thread_create, ob_thread_join, ob_thread_cancel).    *)
HandleClosedOnce ==
  /\ hnd.closes <= 1
  /\ hnd.handle = "closed" => hnd.closes = 1

(* The Windows versions of the thread functions promise what their POSIX   *)
(* namesakes do: a lock is held in the mode and as often as its callers    *)
(* believe, the once routine runs once before anyone goes on, and a        *)
(* thread's handle is closed once (ob_thread.c).                           *)
AsPosix ==
  /\ RwModes
  /\ MutexHeldOnce
  /\ OnceOnly
  /\ HandleClosedOnce
=============================================================================
