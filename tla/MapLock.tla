------------------------------- MODULE MapLock --------------------------------
(***************************************************************************)
(* The lock around the user maps (lockAAAMap, unLockAAAMap) and, in copies *)
(* of the same code, around the DNS lookup map: a counting semaphore built *)
(* from a pthread mutex, a condition variable and a counter that starts at *)
(* 1.  AAA session managers, flushers and the main thread all use it.      *)
(*                                                                         *)
(* A thread that holds the mutex is the only one to touch the counter and  *)
(* the wait set; the steps below are the points at which it takes, gives   *)
(* up or is moved by mutex and condition variable.                         *)
(***************************************************************************)
EXTENDS Integers, FiniteSets

CONSTANTS
  Thread,    \* the threads that use the maps
  NoThread   \* the holder of a free mutex

ASSUME MapLockAssumption == NoThread \notin Thread

VARIABLES
  count,     \* mapAAALock::count
  lockCount, \* the thread that holds the mutex mapAAALock::lockCount
  pc         \* where each thread is, see Place

lockVars == <<count, lockCount, pc>>

\* "out": neither has nor wants the lock.  "lock": wants the mutex to take
\* the lock.  "test": at the while, with the mutex.  "waiting": in
\* pthread_cond_wait.  "woken": out of it, wants the mutex back.  "in": has
\* the lock.  "unlock": wants the mutex to give the lock back.  "signal",
\* "give": before the signal and before the increment, with the mutex.
Place == {"out", "lock", "test", "waiting", "woken",
          "in", "unlock", "signal", "give"}

LockInit ==
  /\ count = 1
  /\ lockCount = NoThread
  /\ pc = [t \in Thread |-> "out"]

Move(t, from, to) ==
  /\ pc[t] = from
  /\ pc' = [pc EXCEPT ![t] = to]

\* pthread_mutex_lock returns.
MutexLock(t, from, to) ==
  /\ lockCount = NoThread
  /\ lockCount' = t
  /\ Move(t, from, to)
  /\ UNCHANGED count

\* A thread comes to lockAAAMap.
Call(t) == Move(t, "out", "lock") /\ UNCHANGED <<count, lockCount>>

\* pthread_cond_wait gives up the mutex and waits, in one step.
Wait(t) ==
  /\ count = 0
  /\ Move(t, "test", "waiting")
  /\ lockCount' = NoThread
  /\ UNCHANGED count

\* POSIX lets pthread_cond_wait return without a signal.
SpuriousWakeup(t) ==
  /\ Move(t, "waiting", "woken")
  /\ UNCHANGED <<count, lockCount>>

\* Mutant: "if" in place of "while", which does not test again.
RelockWithoutTest(t) ==
  /\ lockCount = NoThread
  /\ Move(t, "woken", "in")
  /\ count' = count - 1
  /\ UNCHANGED lockCount

\* pthread_cond_wait returns with the mutex, and the loop tests again.
Relock(t) == MutexLock(t, "woken", "test")

Take(t) ==
  /\ count # 0
  /\ Move(t, "test", "in")
  /\ count' = count - 1
  /\ lockCount' = NoThread

\* The work on the maps is done and unLockAAAMap is called.
Leave(t) == Move(t, "in", "unlock") /\ UNCHANGED <<count, lockCount>>

\* Mutant: the signal is sent when the counter is not zero.
SignalLate(t) ==
  /\ Move(t, "signal", "give")
  /\ UNCHANGED <<count, lockCount>>

\* pthread_cond_signal wakes one of the waiting threads, if there is one.
Signal(t) ==
  /\ pc[t] = "signal"
  /\ LET waiting == {u \in Thread : pc[u] = "waiting"}
     IN  IF count = 0 /\ waiting # {}
         THEN \E u \in waiting :
                pc' = [pc EXCEPT ![t] = "give", ![u] = "woken"]
         ELSE pc' = [pc EXCEPT ![t] = "give"]
  /\ UNCHANGED <<count, lockCount>>

Give(t) ==
  /\ Move(t, "give", "out")
  /\ count' = count + 1
  /\ lockCount' = NoThread

\* What a thread inside lockAAAMap or unLockAAAMap does next.
Step(t) ==
  \/ MutexLock(t, "lock", "test") \/ Wait(t) \/ Relock(t) \/ Take(t)
  \/ MutexLock(t, "unlock", "signal") \/ Signal(t) \/ Give(t)

LockNext == \E t \in Thread : Call(t) \/ Leave(t) \/ SpuriousWakeup(t) \/ Step(t)

LockSpec == LockInit /\ [][LockNext]_lockVars

\* Work on the maps ends (it is a bounded loop over map or file), and a
\* thread that can go on inside the lock functions does.  No thread is
\* obliged to come back for the lock, and waits do not return without a
\* signal for ever.
FairLockSpec ==
  /\ LockSpec
  /\ \A t \in Thread : WF_lockVars(Leave(t)) /\ WF_lockVars(Step(t))
  /\ <>[][\A t \in Thread : ~ SpuriousWakeup(t)]_lockVars

-----------------------------------------------------------------------------
LockTypeOK ==
  /\ count \in {0, 1}
  /\ lockCount \in Thread \cup {NoThread}
  /\ pc \in [Thread -> Place]

\* The threads that have the lock.
Holder == {t \in Thread : pc[t] \in {"in", "unlock", "signal", "give"}}

(* At most one thread is at work on the maps, however many wait, whoever   *)
(* takes the lock between a signal and the return from the wait, and even  *)
(* if a wait returns without a signal.                                     *)
MutualExclusion == \A t, u \in Holder : t = u

(* No wake-up is lost: while the lock is free, no thread waits for it      *)
(* unless another one is on its way to test the counter.                   *)
NoLostWakeup ==
  (count = 1 /\ \E t \in Thread : pc[t] = "waiting")
    => \E t \in Thread : pc[t] \in {"woken", "test"}

(* If threads want the lock, one of them gets it.  (Not every one: neither *)
(* the mutex nor the condition variable is fair.)                          *)
SomebodyGetsIn ==
  (\E t \in Thread : pc[t] \in {"lock", "waiting", "woken"})
    ~> (\E t \in Thread : pc[t] = "in")
=============================================================================
