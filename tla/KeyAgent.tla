------------------------------ MODULE KeyAgent ------------------------------
(***************************************************************************)
(* SimpleKeyAgent (lib/key_agent.ts): holds the decrypted keys of a vault  *)
(* and forgets them when the user has been idle for autoLockTimeout.       *)
(*                                                                         *)
(* Time is discrete and a timer is the time it has left.  What the keys    *)
(* are used for (encrypt, decrypt) changes nothing here.                   *)
(***************************************************************************)
EXTENDS Integers, FiniteSets

CONSTANTS KeyIds,      \* the keys of the vault
          Timeouts,    \* the timeouts that may be set; 0 disables auto-lock
          MaxIdle,     \* bound: how long the user is idle
          SetOnlyIdle  \* whether the timeout is only set while no key is held,
                       \* as the app does (webui/app.ts)

ASSUME TimeoutsAssumption == Timeouts \subseteq Nat /\ IsFiniteSet(Timeouts)
ASSUME BoundsAssumption == MaxIdle \in Nat /\ SetOnlyIdle \in BOOLEAN

NoTimer == -1

VARIABLES keys,
          autoLockTimeout,
          timers,          \* the callbacks the event loop holds
          lockTimeout,     \* the one the agent knows of, or NoTimer
          idle             \* time since the user, a new key or a new timeout

vars == <<keys, autoLockTimeout, timers, lockTimeout, idle>>

TypeOK ==
  /\ keys \subseteq KeyIds
  /\ autoLockTimeout \in Timeouts \union {0}
  /\ timers \subseteq Nat
  /\ lockTimeout \in Nat \union {NoTimer}
  /\ idle \in Nat

Init ==
  /\ keys = {}
  /\ autoLockTimeout = 0
  /\ timers = {}
  /\ lockTimeout = NoTimer
  /\ idle = 0

-----------------------------------------------------------------------------
(* The timer *)

Cleared == timers \ {lockTimeout}

\* The timer is restarted with the timeout that holds now.
RestartTimer(timeout) ==
  IF timeout = 0 THEN UNCHANGED <<timers, lockTimeout>>
  ELSE /\ timers' = Cleared \union {timeout}
       /\ lockTimeout' = timeout

ResetAutoLock ==
  /\ RestartTimer(autoLockTimeout)
  /\ idle' = 0
  /\ UNCHANGED <<keys, autoLockTimeout>>

\* Only a timer that is running is restarted.
SetAutoLockTimeout(timeout) ==
  /\ SetOnlyIdle => keys = {} /\ lockTimeout = NoTimer
  /\ autoLockTimeout' = timeout
  /\ IF lockTimeout # NoTimer
     THEN RestartTimer(timeout)
     ELSE UNCHANGED <<timers, lockTimeout>>
  /\ idle' = 0
  /\ UNCHANGED keys

-----------------------------------------------------------------------------
(* Keys *)

\* Faulty variant: a new key does not start the timer.
AddKeyNoTimer(k) ==
  /\ keys' = keys \union {k}
  /\ idle' = 0
  /\ UNCHANGED <<autoLockTimeout, timers, lockTimeout>>

AddKey(k) ==
  /\ keys' = keys \union {k}
  /\ RestartTimer(autoLockTimeout)
  /\ idle' = 0
  /\ UNCHANGED autoLockTimeout

ForgetKeys ==
  /\ keys' = {}
  /\ timers' = Cleared
  /\ lockTimeout' = NoTimer
  /\ UNCHANGED <<autoLockTimeout, idle>>

-----------------------------------------------------------------------------
(* Time *)

\* A timer that is due runs before time goes on.
Fire ==
  /\ 0 \in timers
  /\ keys' = {}
  /\ timers' = Cleared \ {0}
  /\ lockTimeout' = NoTimer
  /\ UNCHANGED <<autoLockTimeout, idle>>

\* How long it takes matters only while there is a key or a timer.
Tick ==
  /\ 0 \notin timers
  /\ keys # {} \/ timers # {}
  /\ idle < MaxIdle
  /\ timers' = {t - 1 : t \in timers}
  /\ lockTimeout' = IF lockTimeout = NoTimer THEN NoTimer ELSE lockTimeout - 1
  /\ idle' = idle + 1
  /\ UNCHANGED <<keys, autoLockTimeout>>

-----------------------------------------------------------------------------
Next ==
  \/ ResetAutoLock
  \/ \E t \in Timeouts : SetAutoLockTimeout(t)
  \/ \E k \in KeyIds : AddKey(k)
  \/ ForgetKeys
  \/ Fire
  \/ Tick

Spec == Init /\ [][Next]_vars

-----------------------------------------------------------------------------
(* Properties *)

\* "Set a timeout after which the agent will automatically discard its keys":
\* no key is held by a user who has been idle for longer than the timeout.
LockedInTime == keys # {} /\ autoLockTimeout > 0 => idle <= autoLockTimeout

\* resetAutoLock() prevents auto-locking while the user is interacting with the
\* app: a timer is only due when the user has been idle for the whole timeout.
LockedOnlyWhenIdle ==
  0 \in timers => autoLockTimeout > 0 /\ idle >= autoLockTimeout

\* So the keys are locked when they are due, neither later nor earlier, however
\* uses of the app, new keys and new timeouts follow each other.
LockedWhenDue == LockedInTime /\ LockedOnlyWhenIdle

\* The one timer there is is the one the agent knows of, and it is set to the
\* time the user has left.
TimerInv ==
  /\ TypeOK
  /\ timers = IF lockTimeout = NoTimer THEN {} ELSE {lockTimeout}
  /\ lockTimeout # NoTimer =>
       /\ autoLockTimeout > 0
       /\ lockTimeout + idle = autoLockTimeout
  /\ keys # {} /\ autoLockTimeout > 0 => lockTimeout # NoTimer
=============================================================================
