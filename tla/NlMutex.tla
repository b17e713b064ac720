------------------------------- MODULE NlMutex -------------------------------
(***************************************************************************)
(* The mutex of lib/nl_thread.h on Linux: one futex word, 0 free, 1 held.  *)
(* Lock exchanges 1 into the word and sleeps in the kernel while the old   *)
(* value was 1; unlock stores 0 and then, as a second step, wakes one      *)
(* sleeper. Threads lock and unlock for ever, as the capture thread and    *)
(* the render loop do with the mutex of the frame exchange.                *)
(***************************************************************************)
EXTENDS Naturals

CONSTANT Threads

ASSUME ThreadsAssumption == Threads # {}

VARIABLES
  state,   \* nl_mutex_t.state
  pc       \* what each thread is about to do

vars == <<state, pc>>

Steps == {"out",        \* does not use the mutex
          "exchange",   \* nl_mutex_lock: at the atomic exchange
          "call",       \* saw 1, at the futex_wait system call
          "asleep",     \* in the futex's wait queue
          "inside",     \* holds the mutex
          "wake"}       \* nl_mutex_unlock: stored 0, at the futex_wake call

Init ==
  /\ state = 0
  /\ pc = [t \in Threads |-> "out"]

\* nl_mutex_lock is called.
Want(t) ==
  /\ pc[t] = "out"
  /\ pc' = [pc EXCEPT ![t] = "exchange"]
  /\ UNCHANGED state

\* Mutant: the word counts the lockers.
Exchange_Count(t) ==
  /\ pc[t] = "exchange"
  /\ state' = state + 1
  /\ pc' = [pc EXCEPT ![t] = IF state = 0 THEN "inside" ELSE "call"]

\* Mutant: a plain read and write instead of the exchange.
Exchange_Racy(t) ==
  /\ pc[t] = "exchange"
  /\ state' = 1
  /\ pc' = [pc EXCEPT ![t] = "inside"]

Exchange(t) ==
  /\ pc[t] = "exchange"
  /\ state' = 1
  /\ pc' = [pc EXCEPT ![t] = IF state = 0 THEN "inside" ELSE "call"]

\* Mutant: the kernel is not given the value to compare with.
FutexWait_NoCompare(t) ==
  /\ pc[t] = "call"
  /\ pc' = [pc EXCEPT ![t] = "asleep"]
  /\ UNCHANGED state

\* _nl_futex_wait(&m->state, 1): the kernel compares and sleeps in one step.
FutexWait(t) ==
  /\ pc[t] = "call"
  /\ pc' = [pc EXCEPT ![t] = IF state = 1 THEN "asleep" ELSE "exchange"]
  /\ UNCHANGED state

\* A signal (SIGWINCH, SIGINT) ends the sleep; the result is not looked at.
Interrupted(t) ==
  /\ pc[t] = "asleep"
  /\ pc' = [pc EXCEPT ![t] = "exchange"]
  /\ UNCHANGED state

\* nl_mutex_unlock: the store, then _nl_futex_wake(&m->state, 1).
Store(t) ==
  /\ pc[t] = "inside"
  /\ state' = 0
  /\ pc' = [pc EXCEPT ![t] = "wake"]

Asleep == {t \in Threads : pc[t] = "asleep"}

\* Mutant: unlock wakes nobody.
FutexWake_None(t) ==
  /\ pc[t] = "wake"
  /\ pc' = [pc EXCEPT ![t] = "out"]
  /\ UNCHANGED state

FutexWake(t) ==
  /\ pc[t] = "wake"
  /\ \/ /\ Asleep = {}
        /\ pc' = [pc EXCEPT ![t] = "out"]
     \/ \E s \in Asleep : pc' = [pc EXCEPT ![t] = "out", ![s] = "exchange"]
  /\ UNCHANGED state

Step(t) == Exchange(t) \/ FutexWait(t) \/ Store(t) \/ FutexWake(t)

Next == \E t \in Threads : Want(t) \/ Step(t) \/ Interrupted(t)

(***************************************************************************)
(* The kernel runs every runnable thread, and a thread inside the mutex    *)
(* leaves it: the sections of frame_exchange.h are a few assignments. No   *)
(* thread has to call lock, and no signal has to arrive.                   *)
(***************************************************************************)
Fairness == \A t \in Threads : WF_vars(Step(t))

Spec == Init /\ [][Next]_vars /\ Fairness

-----------------------------------------------------------------------------
\* The futex word is 0 or 1 and every thread is at one step of the two functions.
TypeOK ==
  /\ state \in {0, 1}
  /\ pc \in [Threads -> Steps]

(***************************************************************************)
(* Mutual exclusion: the word is 1 exactly while one thread is inside, and *)
(* no two are, however exchanges, sleeps, stores and wakes interleave.     *)
(***************************************************************************)
MutualExclusion ==
  /\ \A t, u \in Threads : pc[t] = "inside" /\ pc[u] = "inside" => t = u
  /\ state = 1 <=> \E t \in Threads : pc[t] = "inside"

(***************************************************************************)
(* No wake-up is lost (nl_thread.h:34 "no-lost-wakeup guarantee"): while a *)
(* thread sleeps, another one is inside, about to wake it, or awake and    *)
(* on its way to the word, so the sleepers are never left to themselves.   *)
(***************************************************************************)
SleeperHasWaker ==
  Asleep # {} =>
    \E t \in Threads : pc[t] \in {"inside", "wake", "exchange", "call"}

(***************************************************************************)
(* Progress: when a thread wants the mutex, some thread gets it. (Not that *)
(* every thread gets it: a woken thread may lose the race for ever.)       *)
(***************************************************************************)
Progress ==
  (\E t \in Threads : pc[t] \in {"exchange", "call", "asleep"})
    ~> (\E t \in Threads : pc[t] = "inside")

(***************************************************************************)
(* One thread at a time has the mutex, and none sleeps with nobody left to *)
(* wake it: the two things the exchange and the wait have to get right.    *)
(***************************************************************************)
MutexSafe ==
  /\ MutualExclusion
  /\ SleeperHasWaker
=============================================================================
