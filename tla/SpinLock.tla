------------------------------- MODULE SpinLock -------------------------------
(***************************************************************************)
(* SimpleSynchronizationLib: a spin lock and a counter that several        *)
(* processors use.  Every load, store and locked instruction is a step of  *)
(* its own.  The two builds differ in the counter only: the MSFT           *)
(* intrinsics return the value they made, the GCC code reads it again      *)
(* after the locked instruction.                                           *)
(***************************************************************************)
EXTENDS Integers, FiniteSets

CONSTANTS
  Threads,
  Builds,             \* which of "GCC" and "MSFT"
  Modulus,            \* 2^32, small
  MaxCounts           \* bound: increments and decrements

ASSUME ModulusAssumption == Modulus \in Nat \ {0}

VARIABLES
  build,
  spinLock,           \* *SpinLock
  lockValue,          \* LockValue of each thread, read before the exchange
  pc,                 \* where each thread is
  counter,            \* *Value
  answer,             \* what a thread's last increment or decrement returned
  ups, downs          \* increments and decrements made so far

syncVars == << build, spinLock, lockValue, pc, counter, answer, ups, downs >>

SPIN_LOCK_RELEASED == 1
SPIN_LOCK_ACQUIRED == 2

InternalSyncCompareExchange32_AnswersCompare(value, compare, exchange) ==
  [value |-> IF value = compare THEN exchange ELSE value, result |-> compare]

(* Locked instructions: the value that is left, and what eax holds. *)
InternalSyncCompareExchange32(value, compare, exchange) ==
  [value |-> IF value = compare THEN exchange ELSE value, result |-> value]
InternalSyncCompareExchange64(value, compare, exchange) ==
  InternalSyncCompareExchange32(value, compare, exchange)
InterlockedCompareExchange32(value, compare, exchange) ==
  InternalSyncCompareExchange32(value, compare, exchange)
InterlockedCompareExchange64(value, compare, exchange) ==
  InternalSyncCompareExchange64(value, compare, exchange)
InterlockedCompareExchangePointer(value, compare, exchange) ==
  InterlockedCompareExchange64(value, compare, exchange)

InitializeSpinLock == spinLock = SPIN_LOCK_RELEASED

SyncInit ==
  /\ build \in Builds
  /\ InitializeSpinLock
  /\ lockValue = [t \in Threads |-> SPIN_LOCK_RELEASED]
  /\ pc = [t \in Threads |-> "outside"]
  /\ counter = 0
  /\ answer = [t \in Threads |-> 0]
  /\ ups = 0 /\ downs = 0

Counting  == << counter, answer, ups, downs >>
Goto(t, place) == pc' = [pc EXCEPT ![t] = place]

(* A thread may ask for the lock once, or spin until it has it. *)
AcquireSpinLock(t) ==
  /\ pc[t] = "outside"
  /\ Goto(t, "spin")
  /\ UNCHANGED << build, spinLock, lockValue, Counting >>

AcquireSpinLockOrFail(t) ==
  /\ pc[t] = "outside"
  /\ Goto(t, "try")
  /\ UNCHANGED << build, spinLock, lockValue, Counting >>

(* LockValue is read for the ASSERT only. *)
ReadLock(t) ==
  /\ pc[t] \in {"spin", "try"}
  /\ lockValue' = [lockValue EXCEPT ![t] = spinLock]
  /\ Goto(t, IF pc[t] = "spin" THEN "spin exchange" ELSE "try exchange")
  /\ UNCHANGED << build, spinLock, Counting >>

Exchange(t) ==
  LET done == InterlockedCompareExchangePointer(spinLock, SPIN_LOCK_RELEASED, SPIN_LOCK_ACQUIRED)
  IN  /\ pc[t] \in {"spin exchange", "try exchange"}
      /\ spinLock' = done.value
      /\ Goto(t, CASE done.result = SPIN_LOCK_RELEASED -> "inside"
                   [] done.result # SPIN_LOCK_RELEASED /\ pc[t] = "spin exchange" -> "spin"
                   [] OTHER -> "outside")
      /\ UNCHANGED << build, lockValue, Counting >>

ReleaseSpinLock(t) ==
  /\ pc[t] = "inside"
  /\ lockValue' = [lockValue EXCEPT ![t] = spinLock]
  /\ Goto(t, "release")
  /\ UNCHANGED << build, spinLock, Counting >>

StoreReleased_Forgotten(t) ==
  /\ pc[t] = "release"
  /\ Goto(t, "outside")
  /\ UNCHANGED << build, spinLock, lockValue, Counting >>

StoreReleased(t) ==
  /\ pc[t] = "release"
  /\ spinLock' = SPIN_LOCK_RELEASED
  /\ Goto(t, "outside")
  /\ UNCHANGED << build, lockValue, Counting >>

(***************************************************************************)
(* The counter.                                                            *)
(***************************************************************************)
InternalSyncIncrement(value) == (value + 1) % Modulus
InternalSyncDecrement(value) == (value + Modulus - 1) % Modulus

(* With GCC the answer is read by a second instruction. *)
Counted(t, value) ==
  /\ pc[t] = "outside"
  /\ ups + downs < MaxCounts
  /\ counter' = value
  /\ IF build = "GCC" THEN Goto(t, "answer") /\ answer' = answer
     ELSE pc' = pc /\ answer' = [answer EXCEPT ![t] = value]
  /\ UNCHANGED << build, spinLock, lockValue >>

InterlockedIncrement(t) ==
  Counted(t, InternalSyncIncrement(counter)) /\ ups' = ups + 1 /\ downs' = downs

InterlockedDecrement(t) ==
  Counted(t, InternalSyncDecrement(counter)) /\ downs' = downs + 1 /\ ups' = ups

ReadAnswer(t) ==
  /\ pc[t] = "answer"
  /\ answer' = [answer EXCEPT ![t] = counter]
  /\ Goto(t, "outside")
  /\ UNCHANGED << build, spinLock, lockValue, counter, ups, downs >>

(* What a thread goes on with by itself; that it asks for the lock is its choice. *)
Going(t) ==
  ReadLock(t) \/ Exchange(t) \/ ReleaseSpinLock(t) \/ StoreReleased(t) \/ ReadAnswer(t)

SyncNext ==
  \E t \in Threads :
    \/ AcquireSpinLock(t) \/ AcquireSpinLockOrFail(t)
    \/ InterlockedIncrement(t) \/ InterlockedDecrement(t)
    \/ Going(t)

SyncSpec == SyncInit /\ [][SyncNext]_syncVars
SyncFairSpec == SyncSpec /\ \A t \in Threads : WF_syncVars(Going(t))
--------------------------------------------------------------------------------
(***************************************************************************)
(* At most one thread is inside, and whenever one is, the lock says so     *)
(* (SynchronizationGcc.c:140, 178).                                        *)
(***************************************************************************)
Holding == { t \in Threads : pc[t] \in {"inside", "release"} }

MutualExclusion ==
  /\ \A s, t \in Holding : s = t
  /\ Holding # {} <=> spinLock = SPIN_LOCK_ACQUIRED
  /\ spinLock \in {SPIN_LOCK_RELEASED, SPIN_LOCK_ACQUIRED}

(***************************************************************************)
(* No increment or decrement is lost, past either end of the number range  *)
(* (SynchronizationGcc.c:185 to 232).                                      *)
(***************************************************************************)
CountsExact == (counter + downs - ups) % Modulus = 0

LockExact == MutualExclusion /\ CountsExact

(* While threads spin, one of them or another gets the lock again and again. *)
SomeoneGetsIn == (\E t \in Threads : pc[t] = "spin") ~> Holding # {}
================================================================================
