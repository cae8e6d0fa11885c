--------------------------- MODULE ThreadsProofs ---------------------------
(* The locks, conditions, once-only initialisation and thread handles of     *)
(* ob_rwlock.c, ob_cond.c and ob_thread.c behave like their POSIX namesakes  *)
(* for any number of threads.                                                *)
EXTENDS Threads, TLAPS

Places ==
  {"idle", "reading", "acquired", "writing", "cleared", "locked", "refusing", "asleep",
   "waking", "routine", "ran", "waiting"}
Owners == WinThreads \cup {Nobody}
Handles ==
  [handle : {"null", "open", "closed"}, param : {"none", "passed", "freed", "lost"}, closes : Nat]

(* The memory that threads share has its type.                               *)
ThreadsType ==
  /\ tpc \in [WinThreads -> Places]
  /\ rw \in [shared : SUBSET WinThreads, excl : Owners, flag : BOOLEAN]
  /\ cs \in [owner : Owners, count : Nat]
  /\ once \in {"init", "inprogress", "done"} /\ ran \in Nat
  /\ hnd \in Handles

(* is_exclusive is set exactly while a writer is between RwMark and          *)
(* RwUnlock, so that a reader never finds it set.                            *)
RwInv ==
  /\ RwModes
  /\ rw.flag => rw.excl # Nobody
  /\ \A t \in WinThreads : rw.excl = t => (rw.flag <=> tpc[t] = "writing")

(* The critical section is entered as often as it has an owner to leave it.  *)
MutexInv ==
  /\ MutexHeldOnce
  /\ cs.owner = Nobody <=> cs.count = 0
  /\ cs.count <= 2

(* One thread at most is at the routine, and ran counts what it has done.    *)
AtRoutine(t) == tpc[t] \in {"routine", "ran"}
OnceInv ==
  /\ OnceOnly
  /\ \A t, u \in WinThreads : AtRoutine(t) /\ AtRoutine(u) => t = u
  /\ once = "init" => ran = 0
  /\ \A t \in WinThreads : tpc[t] = "routine" => ran = 0
  /\ \A t \in WinThreads : tpc[t] = "ran" => ran = 1

(* A handle that is open was not closed, and none is there before the call.  *)
HandleInv ==
  /\ HandleClosedOnce
  /\ hnd.handle = "open" => hnd.closes = 0
  /\ hnd.param = "none" => hnd.handle = "null"

ThreadsInv == ThreadsType /\ RwInv /\ MutexInv /\ OnceInv /\ HandleInv

---------------------------------------------------------------------------
LEMMA ThreadsInitInv ==
  ASSUME ThreadsInit
  PROVE  ThreadsInv
<1>1. ThreadsType
  BY DEF ThreadsInit, ThreadsType, Places, Owners, Handles
<1>2. RwInv /\ MutexInv
  BY ThreadsAssumption DEF ThreadsInit, RwInv, RwModes, MutexInv, MutexHeldOnce
<1>3. OnceInv /\ HandleInv
  BY DEF ThreadsInit, OnceInv, OnceOnly, AtRoutine, HandleInv, HandleClosedOnce
<1> QED
  BY <1>1, <1>2, <1>3 DEF ThreadsInv

(* The steps by the part of the state they change.                           *)
RwStep(t) == RwRdlock(t) \/ RwWrlock(t) \/ RwMark(t) \/ RwUnlock(t)
CsStep(t) == MutexLock(t) \/ MutexTrylock(t) \/ MutexUnlock(t)
CondStep(t) == CondSleep(t) \/ CondTimeout(t) \/ CondWoken(t) \/ CondReturn(t) \/ CondWake(t)
OnceStep(t) == OnceEnter(t) \/ OnceRun(t) \/ OnceDone(t) \/ OnceWait(t)
HandleStep == ThreadCreate \/ ThreadStart \/ ThreadJoin \/ ThreadCancel

RwPlaces == {"reading", "acquired", "writing", "cleared"}
CsPlaces == {"locked", "refusing"}
OncePlaces == {"routine", "ran"}

(* A step moves its own thread, and a thread's place belongs to one object.  *)
Moves(t, places) ==
  \E from, to \in places : tpc[t] = from /\ tpc' = [tpc EXCEPT ![t] = to]

LEMMA RwStepMoves ==
  ASSUME ThreadsType, NEW t \in WinThreads, RwStep(t)
  PROVE  Moves(t, {"idle"} \cup RwPlaces) /\ UNCHANGED <<cs, asleep, once, ran, hnd>>
BY DEF ThreadsType, RwStep, RwRdlock, RwWrlock, RwMark, RwUnlock, Go, Moves, RwPlaces

LEMMA CsStepMoves ==
  ASSUME ThreadsType, NEW t \in WinThreads, CsStep(t) \/ CondStep(t)
  PROVE  Moves(t, {"idle", "asleep", "waking"} \cup CsPlaces) /\ UNCHANGED <<rw, once, ran, hnd>>
<1>1. CASE CsStep(t)
  BY <1>1 DEF CsStep, MutexLock, MutexTrylock, MutexUnlock, Go, Moves, CsPlaces
<1>2. CASE CondSleep(t) \/ CondTimeout(t) \/ CondWoken(t) \/ CondReturn(t)
  BY <1>2 DEF CondSleep, CondTimeout, CondWoken, CondReturn, Go, Moves, CsPlaces, lockvars
<1>3. CASE CondWake(t)
  <2>1. tpc' = [tpc EXCEPT ![t] = tpc[t]] /\ tpc[t] \in {"idle", "locked"}
    BY <1>3 DEF CondWake, ThreadsType
  <2> QED
    BY <1>3, <2>1 DEF CondWake, Moves, CsPlaces
<1> QED
  BY <1>1, <1>2, <1>3 DEF CondStep

LEMMA OnceStepMoves ==
  ASSUME ThreadsType, NEW t \in WinThreads, OnceStep(t)
  PROVE  Moves(t, {"idle", "waiting"} \cup OncePlaces) /\ UNCHANGED <<rw, cs, asleep, hnd>>
BY DEF OnceStep, OnceEnter, OnceRun, OnceDone, OnceWait, Go, Moves, OncePlaces, lockvars

---------------------------------------------------------------------------
(* A reader does not find is_exclusive set, and whoever does is the writer.  *)
LEMMA RwStepInv ==
  ASSUME ThreadsType, RwInv, NEW t \in WinThreads, RwStep(t)
  PROVE  RwInv'
<1> USE ThreadsAssumption DEF ThreadsType, RwInv, RwModes, Owners, Go
<1>1. CASE RwRdlock(t)
  BY <1>1 DEF RwRdlock
<1>2. CASE RwWrlock(t)
  BY <1>2 DEF RwWrlock
<1>3. CASE RwMark(t)
  BY <1>3 DEF RwMark
<1>4. CASE RwUnlock(t) /\ tpc[t] = "reading"
  BY <1>4 DEF RwUnlock
<1>5. CASE RwUnlock(t) /\ tpc[t] = "writing"
  BY <1>5 DEF RwUnlock
<1>6. CASE RwUnlock(t) /\ tpc[t] = "cleared"
  BY <1>6 DEF RwUnlock
<1>7. RwUnlock(t) => tpc[t] \in {"reading", "writing", "cleared"}
  BY DEF RwUnlock
<1> QED
  BY <1>1, <1>2, <1>3, <1>4, <1>5, <1>6, <1>7 DEF RwStep

(* The read-write lock does not see the steps at other objects.              *)
LEMMA RwFrame ==
  ASSUME ThreadsType, RwInv, rw' = rw, NEW t \in WinThreads,
         Moves(t, Places \ RwPlaces)
  PROVE  RwInv'
BY DEF ThreadsType, RwInv, RwModes, Moves, RwPlaces, Places

LEMMA CsStepInv ==
  ASSUME ThreadsType, MutexInv, NEW t \in WinThreads, CsStep(t) \/ CondStep(t)
  PROVE  MutexInv'
<1> USE ThreadsAssumption DEF ThreadsType, MutexInv, MutexHeldOnce, Owners, Go
<1>1. CASE MutexLock(t)
  BY <1>1 DEF MutexLock, Enter
<1>2. CASE MutexTrylock(t)
  BY <1>2 DEF MutexTrylock, Enter, Leave
<1>3. CASE MutexUnlock(t)
  BY <1>3 DEF MutexUnlock, Leave
<1>4. CASE CondSleep(t)
  BY <1>4 DEF CondSleep, Leave
<1>5. CASE CondTimeout(t) \/ CondWoken(t)
  BY <1>5 DEF CondTimeout, CondWoken, lockvars
<1>6. CASE CondReturn(t)
  BY <1>6 DEF CondReturn, Enter
<1>7. CASE CondWake(t)
  BY <1>7 DEF CondWake
<1> QED
  BY <1>1, <1>2, <1>3, <1>4, <1>5, <1>6, <1>7 DEF CsStep, CondStep

LEMMA MutexFrame ==
  ASSUME ThreadsType, MutexInv, cs' = cs, NEW t \in WinThreads,
         Moves(t, Places \ CsPlaces)
  PROVE  MutexInv'
BY DEF ThreadsType, MutexInv, MutexHeldOnce, Moves, CsPlaces, Places

LEMMA OnceStepInv ==
  ASSUME ThreadsType, OnceInv, NEW t \in WinThreads, OnceStep(t)
  PROVE  OnceInv'
<1> USE DEF ThreadsType, OnceInv, OnceOnly, AtRoutine, Go
<1>1. CASE OnceEnter(t)
  BY <1>1 DEF OnceEnter
<1>2. CASE OnceRun(t)
  BY <1>2 DEF OnceRun
<1>3. CASE OnceDone(t)
  BY <1>3 DEF OnceDone
<1>4. CASE OnceWait(t)
  BY <1>4 DEF OnceWait, lockvars
<1> QED
  BY <1>1, <1>2, <1>3, <1>4 DEF OnceStep

LEMMA OnceFrame ==
  ASSUME ThreadsType, OnceInv, UNCHANGED <<once, ran>>, NEW t \in WinThreads,
         Moves(t, Places \ OncePlaces)
  PROVE  OnceInv'
BY DEF ThreadsType, OnceInv, OnceOnly, AtRoutine, Moves, OncePlaces, Places

LEMMA HandleStepInv ==
  ASSUME ThreadsType, HandleInv, HandleStep
  PROVE  HandleInv'
<1> USE DEF ThreadsType, Handles, HandleInv, HandleClosedOnce
<1>1. CASE ThreadCreate
  BY <1>1 DEF ThreadCreate
<1>2. CASE ThreadStart
  BY <1>2 DEF ThreadStart
<1>3. CASE ThreadJoin
  <2>1. CASE hnd' = hnd
    BY <2>1
  <2>2. CASE hnd.handle = "open" /\ hnd' = [hnd EXCEPT !.handle = "closed", !.closes = @ + 1]
    BY <1>3, <2>2 DEF ThreadJoin
  <2> QED
    BY <1>3, <2>1, <2>2 DEF ThreadJoin
<1>4. CASE ThreadCancel
  BY <1>4 DEF ThreadCancel
<1> QED
  BY <1>1, <1>2, <1>3, <1>4 DEF HandleStep

---------------------------------------------------------------------------
(* Every step leaves the shared memory with its types.                       *)
LEMMA ThreadsTypeStep ==
  ASSUME ThreadsInv, ThreadsNext
  PROVE  ThreadsType'
<1> USE DEF ThreadsType
<1>0. ThreadsType /\ MutexInv
  BY DEF ThreadsInv
<1>1. ASSUME NEW t \in WinThreads, RwStep(t) PROVE ThreadsType'
  <2>1. tpc' \in [WinThreads -> Places] /\ UNCHANGED <<cs, asleep, once, ran, hnd>>
    BY <1>0, <1>1, RwStepMoves DEF Moves, RwPlaces, Places
  <2>2. rw' \in [shared : SUBSET WinThreads, excl : Owners, flag : BOOLEAN]
    <3>1. \/ rw' = [rw EXCEPT !.shared = @ \cup {t}] \/ rw' = [rw EXCEPT !.shared = @ \ {t}]
          \/ rw' = [rw EXCEPT !.excl = t] \/ rw' = [rw EXCEPT !.excl = Nobody]
          \/ rw' = [rw EXCEPT !.flag = TRUE] \/ rw' = [rw EXCEPT !.flag = FALSE]
      BY <1>1 DEF RwStep, RwRdlock, RwWrlock, RwMark, RwUnlock
    <3>2. rw = [shared |-> rw.shared, excl |-> rw.excl, flag |-> rw.flag]
      BY <1>0
    <3>3. rw.shared \cup {t} \in SUBSET WinThreads /\ rw.shared \ {t} \in SUBSET WinThreads
      BY <1>0
    <3>4. t \in Owners /\ Nobody \in Owners
      BY DEF Owners
    <3> QED
      BY <1>0, <3>1, <3>2, <3>3, <3>4
  <2> QED
    BY <1>0, <2>1, <2>2
<1>2. ASSUME NEW t \in WinThreads, CsStep(t) \/ CondStep(t) PROVE ThreadsType'
  <2>1. tpc' \in [WinThreads -> Places] /\ UNCHANGED <<rw, once, ran, hnd>>
    BY <1>0, <1>2, CsStepMoves DEF Moves, CsPlaces, Places
  <2>2. ASSUME Enter(t) PROVE cs' \in [owner : Owners, count : Nat]
    BY <1>0, <2>2 DEF Enter, Owners
  <2>3. ASSUME Leave(t), tpc[t] \in CsPlaces PROVE cs' \in [owner : Owners, count : Nat]
    BY <1>0, <2>3 DEF Leave, Owners, CsPlaces, MutexInv, MutexHeldOnce
  <2>4. cs' = cs \/ Enter(t) \/ (Leave(t) /\ tpc[t] \in CsPlaces)
    BY <1>2 DEF CsStep, CondStep, MutexLock, MutexTrylock, MutexUnlock, CondSleep, CondTimeout,
                CondWoken, CondReturn, CondWake, lockvars, Go, CsPlaces
  <2> QED
    BY <1>0, <2>1, <2>2, <2>3, <2>4
<1>3. ASSUME NEW t \in WinThreads, OnceStep(t) PROVE ThreadsType'
  <2>1. tpc' \in [WinThreads -> Places] /\ UNCHANGED <<rw, cs, asleep, hnd>>
    BY <1>0, <1>3, OnceStepMoves DEF Moves, OncePlaces, Places
  <2>2. once' \in {"init", "inprogress", "done"} /\ ran' \in Nat
    BY <1>0, <1>3 DEF OnceStep, OnceEnter, OnceRun, OnceDone, OnceWait, lockvars
  <2> QED
    BY <1>0, <2>1, <2>2
<1>4. ASSUME HandleStep PROVE ThreadsType'
  <2>1. UNCHANGED <<tpc, rw, cs, asleep, once, ran>>
    BY <1>4 DEF HandleStep, ThreadCreate, ThreadStart, ThreadJoin, ThreadCancel
  <2>2. ThreadCreate \/ ThreadStart => hnd' \in Handles
    BY <1>0 DEF ThreadCreate, ThreadStart, Handles
  <2>3. ASSUME NEW p \in {hnd.param, "lost"},
               hnd' = [hnd EXCEPT !.handle = "closed", !.closes = @ + 1, !.param = p]
        PROVE  hnd' \in Handles
    <3>1. hnd \in Handles
      BY <1>0
    <3>2. hnd.closes + 1 \in Nat /\ p \in {"none", "passed", "freed", "lost"}
      BY <3>1 DEF Handles
    <3>3. hnd' = [handle |-> "closed", param |-> p, closes |-> hnd.closes + 1]
      BY <2>3, <3>1 DEF Handles
    <3> QED
      BY <3>2, <3>3 DEF Handles
  <2>4. ThreadJoin => hnd' \in Handles
    <3>1. [hnd EXCEPT !.handle = "closed", !.closes = @ + 1]
            = [hnd EXCEPT !.handle = "closed", !.closes = @ + 1, !.param = hnd.param]
      BY <1>0 DEF Handles
    <3> QED
      BY <1>0, <2>3, <3>1 DEF ThreadJoin
  <2>5. ThreadCancel => hnd' \in Handles
    <3> DEFINE p == IF hnd.param = "passed" THEN "lost" ELSE hnd.param
    <3>1. p \in {hnd.param, "lost"}
      OBVIOUS
    <3>2. ThreadCancel => hnd' = [hnd EXCEPT !.handle = "closed", !.closes = @ + 1, !.param = p]
      BY DEF ThreadCancel
    <3> QED
      BY <2>3, <3>1, <3>2
  <2> QED
    BY <1>0, <1>4, <2>1, <2>2, <2>4, <2>5 DEF HandleStep
<1> QED
  BY <1>1, <1>2, <1>3, <1>4
  DEF ThreadsNext, RwStep, CsStep, CondStep, OnceStep, HandleStep

(* ThreadsInv is inductive.                                                  *)
LEMMA ThreadsStep ==
  ASSUME ThreadsInv, [ThreadsNext]_threadvars
  PROVE  ThreadsInv'
<1>0. ThreadsType /\ RwInv /\ MutexInv /\ OnceInv /\ HandleInv
  BY DEF ThreadsInv
<1>1. CASE UNCHANGED threadvars
  BY <1>0, <1>1 DEF threadvars, ThreadsInv, ThreadsType, RwInv, RwModes, MutexInv, MutexHeldOnce,
                    OnceInv, OnceOnly, AtRoutine, HandleInv, HandleClosedOnce
<1>2. ThreadsNext => ThreadsType'
  BY ThreadsTypeStep
<1>3. ASSUME NEW t \in WinThreads, RwStep(t) PROVE RwInv' /\ MutexInv' /\ OnceInv' /\ HandleInv'
  <2>1. Moves(t, {"idle"} \cup RwPlaces) /\ UNCHANGED <<cs, asleep, once, ran, hnd>>
    BY <1>0, <1>3, RwStepMoves
  <2>2. Moves(t, Places \ CsPlaces) /\ Moves(t, Places \ OncePlaces)
    BY <2>1 DEF Moves, Places, RwPlaces, CsPlaces, OncePlaces
  <2>3. RwInv'
    BY <1>0, <1>3, RwStepInv
  <2>4. MutexInv' /\ OnceInv'
    BY <1>0, <2>1, <2>2, MutexFrame, OnceFrame
  <2> QED
    BY <1>0, <2>1, <2>3, <2>4 DEF HandleInv, HandleClosedOnce
<1>4. ASSUME NEW t \in WinThreads, CsStep(t) \/ CondStep(t)
      PROVE  RwInv' /\ MutexInv' /\ OnceInv' /\ HandleInv'
  <2>1. Moves(t, {"idle", "asleep", "waking"} \cup CsPlaces) /\ UNCHANGED <<rw, once, ran, hnd>>
    BY <1>0, <1>4, CsStepMoves
  <2>2. Moves(t, Places \ RwPlaces) /\ Moves(t, Places \ OncePlaces)
    BY <2>1 DEF Moves, Places, RwPlaces, CsPlaces, OncePlaces
  <2>3. MutexInv'
    BY <1>0, <1>4, CsStepInv
  <2>4. RwInv' /\ OnceInv'
    BY <1>0, <2>1, <2>2, RwFrame, OnceFrame
  <2> QED
    BY <1>0, <2>1, <2>3, <2>4 DEF HandleInv, HandleClosedOnce
<1>5. ASSUME NEW t \in WinThreads, OnceStep(t) PROVE RwInv' /\ MutexInv' /\ OnceInv' /\ HandleInv'
  <2>1. Moves(t, {"idle", "waiting"} \cup OncePlaces) /\ UNCHANGED <<rw, cs, asleep, hnd>>
    BY <1>0, <1>5, OnceStepMoves
  <2>2. Moves(t, Places \ RwPlaces) /\ Moves(t, Places \ CsPlaces)
    BY <2>1 DEF Moves, Places, RwPlaces, CsPlaces, OncePlaces
  <2>3. OnceInv'
    BY <1>0, <1>5, OnceStepInv
  <2>4. RwInv' /\ MutexInv'
    BY <1>0, <2>1, <2>2, RwFrame, MutexFrame
  <2> QED
    BY <1>0, <2>1, <2>3, <2>4 DEF HandleInv, HandleClosedOnce
<1>6. ASSUME HandleStep PROVE RwInv' /\ MutexInv' /\ OnceInv' /\ HandleInv'
  <2>1. UNCHANGED <<tpc, rw, cs, asleep, once, ran>>
    BY <1>6 DEF HandleStep, ThreadCreate, ThreadStart, ThreadJoin, ThreadCancel
  <2>2. RwInv' /\ MutexInv' /\ OnceInv'
    BY <1>0, <2>1 DEF RwInv, RwModes, MutexInv, MutexHeldOnce, OnceInv, OnceOnly, AtRoutine
  <2> QED
    BY <1>0, <1>6, <2>2, HandleStepInv
<1>7. CASE ThreadsNext
  BY <1>2, <1>3, <1>4, <1>5, <1>6, <1>7
  DEF ThreadsInv, ThreadsNext, RwStep, CsStep, CondStep, OnceStep, HandleStep
<1> QED
  BY <1>1, <1>7

(* For any number of threads, ob_rw_unlock releases the mode its caller      *)
(* holds, a mutex is held once by whoever has locked it, the routine of      *)
(* ob_thread_once runs once before anyone goes on, and a thread's handle is  *)
(* closed once (ob_rwlock.c, ob_cond.c, ob_thread.c).                        *)
THEOREM AsPosixHolds == ThreadsSpec => []AsPosix
<1>1. ThreadsInit => ThreadsInv
  BY ThreadsInitInv
<1>2. ThreadsInv /\ [ThreadsNext]_threadvars => ThreadsInv'
  BY ThreadsStep
<1>3. ThreadsInv => AsPosix
  BY DEF ThreadsInv, RwInv, MutexInv, OnceInv, HandleInv, AsPosix
<1> QED
  BY <1>1, <1>2, <1>3, PTL DEF ThreadsSpec
=============================================================================
