---------------------------- MODULE AgentProofs -----------------------------
(***************************************************************************)
(* A key agent whose timeout is set before it gets its keys locks when the *)
(* user has been idle for the timeout, neither later nor earlier; the      *)
(* agent process of the command-line client keeps no key that was not used *)
(* for its timeout.                                                        *)
(***************************************************************************)
EXTENDS AgentServer, TLAPS

-----------------------------------------------------------------------------
(* The agent of the app *)

\* A new agent holds no key and has no timer.
LEMMA InitInv == Init => TimerInv
BY DEF Init, TimerInv, TypeOK, NoTimer

\* Whatever starts the timer anew clears the one that was running.
LEMMA RestartedTimer ==
  ASSUME TimerInv, RestartTimer(autoLockTimeout), idle' = 0, UNCHANGED autoLockTimeout,
         keys' \subseteq KeyIds
  PROVE  TimerInv'
<1>. USE TimeoutsAssumption DEF TimerInv, TypeOK, RestartTimer, NoTimer, Cleared
<1>0. autoLockTimeout \in Nat
  OBVIOUS
<1>1. CASE autoLockTimeout = 0
  BY <1>0, <1>1
<1>2. CASE autoLockTimeout # 0
  <2>1. timers' = {autoLockTimeout} /\ lockTimeout' = autoLockTimeout
    BY <1>2
  <2>2. TypeOK'
    BY <1>0, <2>1
  <2>3. TimerInv'
    BY <1>0, <1>2, <2>1
  <2>. QED BY <2>2, <2>3
<1>. QED BY <1>1, <1>2

\* The timeout is set while there is neither key nor timer.
LEMMA TimeoutStep ==
  ASSUME SetOnlyIdle, TimerInv, NEW t \in Timeouts, SetAutoLockTimeout(t)
  PROVE  TimerInv'
<1>1. /\ keys = {} /\ lockTimeout = NoTimer
      /\ UNCHANGED <<keys, timers, lockTimeout>>
      /\ autoLockTimeout' = t /\ idle' = 0
  BY DEF SetAutoLockTimeout
<1>. QED BY <1>1 DEF TimerInv, TypeOK

\* Locking, by the user or by the timer, leaves neither key nor timer.
LEMMA LockStep == ASSUME TimerInv, ForgetKeys \/ Fire PROVE TimerInv'
<1>1. timers' = {} /\ keys' = {} /\ lockTimeout' = NoTimer
      /\ UNCHANGED <<autoLockTimeout, idle>>
  BY DEF TimerInv, TimerInv, ForgetKeys, Fire, Cleared, NoTimer
<1>. QED BY <1>1 DEF TimerInv, TypeOK

\* As time passes the timer and the user's idle time move together.
LEMMA TickStep == ASSUME TimerInv, Tick PROVE TimerInv'
<1>. USE DEF TimerInv, TypeOK, Tick, NoTimer
<1>1. CASE lockTimeout = NoTimer
  <2>1. timers' = {} /\ lockTimeout' = NoTimer
    BY <1>1
  <2>. QED BY <1>1, <2>1
<1>2. CASE lockTimeout # NoTimer
  <2>1. lockTimeout \in Nat \ {0} /\ timers = {lockTimeout}
    BY <1>2
  <2>2. {t - 1 : t \in {lockTimeout}} = {lockTimeout - 1}
    OBVIOUS
  <2>3. timers' = {lockTimeout - 1} /\ lockTimeout' = lockTimeout - 1
    BY <1>2, <2>1, <2>2
  <2>4. lockTimeout - 1 \in Nat
    BY <2>1
  <2>5. /\ keys \subseteq KeyIds /\ autoLockTimeout \in Nat
        /\ autoLockTimeout > 0 /\ lockTimeout + idle = autoLockTimeout
        /\ idle \in Nat
        /\ UNCHANGED <<keys, autoLockTimeout>> /\ idle' = idle + 1
    BY <1>2, TimeoutsAssumption
  <2>6. TypeOK'
    BY <2>3, <2>4, <2>5
  <2>7. TimerInv'
    BY <2>1, <2>3, <2>4, <2>5
  <2>. QED BY <2>6, <2>7
<1>. QED BY <1>1, <1>2

\* Every step keeps the timer and the user's idle time in agreement.
LEMMA NextStep == ASSUME SetOnlyIdle, TimerInv, [Next]_vars PROVE TimerInv'
<1>1. CASE UNCHANGED vars
  BY <1>1 DEF vars, TimerInv, TypeOK
<1>2. CASE ResetAutoLock
  BY <1>2, RestartedTimer DEF ResetAutoLock, TimerInv, TypeOK
<1>3. ASSUME NEW t \in Timeouts, SetAutoLockTimeout(t) PROVE TimerInv'
  BY <1>3, TimeoutStep
<1>4. ASSUME NEW k \in KeyIds, AddKey(k) PROVE TimerInv'
  BY <1>4, RestartedTimer DEF AddKey, TimerInv, TypeOK
<1>5. CASE ForgetKeys \/ Fire
  BY <1>5, LockStep
<1>6. CASE Tick
  BY <1>6, TickStep
<1>. QED BY <1>1, <1>2, <1>3, <1>4, <1>5, <1>6 DEF Next

-----------------------------------------------------------------------------
\* The types hold and the agent knows of every timer, for any keys, timeouts
\* and order of calls.
THEOREM TimerCorrect == ASSUME SetOnlyIdle PROVE Spec => []TimerInv
<1>. QED BY InitInv, NextStep, PTL DEF Spec

\* No key outlives the timeout: while keys are held there is a timer, and it is
\* due when the user has been idle for the timeout.  And no timer locks the keys
\* of a user who was active more recently than that.
THEOREM KeysLockedWhenDue == ASSUME SetOnlyIdle PROVE Spec => []LockedWhenDue
<1>1. TimerInv => LockedInTime
  BY TimeoutsAssumption DEF TimerInv, TypeOK, LockedInTime, NoTimer
<1>2. TimerInv => LockedOnlyWhenIdle
  BY TimeoutsAssumption DEF TimerInv, TypeOK, LockedOnlyWhenIdle, NoTimer
<1>3. TimerInv => LockedWhenDue
  BY <1>1, <1>2 DEF LockedWhenDue
<1>. QED BY <1>3, TimerCorrect, PTL

-----------------------------------------------------------------------------
(* The agent process *)

\* A timer runs while keys are held, and it has been running for as long as they
\* have not been used.
ServerTimerInv ==
    /\ unused \in Nat
    /\ keyTimer # NoTimer => keyTimer \in Nat /\ keyTimer + unused = KeyTimeout
    /\ held # {} => keyTimer # NoTimer

\* A use of the keys starts the timer anew.
LEMMA UsedStep == ASSUME ServerTimerInv, Used PROVE ServerTimerInv'
BY ServerAssumption DEF ServerTimerInv, Used, NoTimer

\* Keys that are gone need no timer: one that is left running, after a lock, and
\* one that ends with its process.
LEMMA ForgottenStep ==
  ASSUME ServerTimerInv, held' = {}, keyTimer' \in {keyTimer, NoTimer}, unused' = unused
  PROVE  ServerTimerInv'
BY DEF ServerTimerInv

\* As time passes, the timer and the time of no use move together.
LEMMA ServerTickStep == ASSUME ServerTimerInv, ServerTick PROVE ServerTimerInv'
BY DEF ServerTimerInv, ServerTick, NoTimer

\* The steps of a command use the keys, forget them or leave them alone.
LEMMA CommandStepKeepsTimer ==
  ASSUME ServerTimerInv, NEW c \in Commands, CommandStep(c) PROVE ServerTimerInv'
<1>1. CASE UNCHANGED heldVars
  BY <1>1 DEF heldVars, ServerTimerInv
<1>2. ASSUME NEW k \in KeyIds, AddKeyToServer(c, k) \/ Decrypt(c, k) \/ SaveEdited(c, k)
      PROVE  ServerTimerInv'
  <2>1. Used \/ UNCHANGED heldVars
    BY <1>2 DEF AddKeyToServer, Decrypt, SaveEdited, Fail
  <2>. QED BY <1>1, <2>1, UsedStep
<1>3. CASE StopAgent(c) \/ LockVault(c)
  BY <1>3, ForgottenStep DEF StopAgent, LockVault
<1>4. CASE \/ VersionAnswered(c) \/ WatchReady(c) \/ RequestRefused(c) \/ IsLocked(c)
           \/ PasswordTyped(c) \/ ValueTyped(c) \/ PasswordsTyped(c) \/ ChangePassword(c)
  BY <1>1, <1>4 DEF VersionAnswered, WatchReady, RequestRefused, Fail, IsLocked, PasswordTyped,
                    ValueTyped, PasswordsTyped, ChangePassword
<1>. QED BY <1>2, <1>3, <1>4 DEF CommandStep

\* Whatever commands, processes and the timer do, the timer runs as long as keys
\* are held.
LEMMA ServerNextStep == ASSUME ServerTimerInv, [ClientNext]_allVars PROVE ServerTimerInv'
<1>1. CASE UNCHANGED heldVars
  BY <1>1 DEF heldVars, ServerTimerInv
<1>2. ASSUME NEW c \in Commands, NEW kind \in Kinds, RunFirst(c, kind) \/ RunNext(c, kind)
      PROVE  ServerTimerInv'
  BY <1>1, <1>2 DEF RunFirst, RunNext
<1>3. ASSUME NEW p \in Pids, ServerStep(p) \/ ServerDies(p) PROVE ServerTimerInv'
  <2>1. CASE ServerStep(p)
    BY <1>1, <2>1 DEF ServerStep, ServerListens, ServerFails
  <2>2. CASE ServerDies(p)
    BY <2>2, ForgottenStep DEF ServerDies
  <2>. QED BY <1>3, <2>1, <2>2
<1>4. CASE KeyTimeoutFires
  BY <1>4, ForgottenStep DEF KeyTimeoutFires
<1>5. CASE (agent = "simple" /\ Next /\ UNCHANGED <<agent, serverVars>>) \/ UNCHANGED allVars
  BY <1>1, <1>5 DEF serverVars, allVars
<1>. QED BY <1>2, <1>3, <1>4, <1>5, ServerTickStep, CommandStepKeepsTimer DEF ClientNext, CliNext

\* The agent process keeps no key that was not used for KEY_TIMEOUT, for any
\* number of commands that start, stop and use agents in any order: an agent
\* that is killed or dies forgets its keys, and so does one that is locked.
THEOREM ServerForgetsUnusedKeys == ClientSpec => []UnusedKeysAreForgotten
<1>1. ClientInit => ServerTimerInv
  <2>1. ClientInit => held = {} /\ keyTimer = NoTimer /\ unused = 0
    BY DEF ClientInit, ServerInit
  <2>. QED BY <2>1 DEF ServerTimerInv
<1>2. ServerTimerInv => UnusedKeysAreForgotten
  BY ServerAssumption DEF ServerTimerInv, UnusedKeysAreForgotten
<1>. QED BY <1>1, <1>2, ServerNextStep, PTL DEF ClientSpec

\* And where the client uses the agent of the app, it locks its keys when the
\* user has been idle for the timeout, neither later nor earlier.
THEOREM ClientLockedWhenDue == ASSUME SetOnlyIdle PROVE ClientSpec => []LockedWhenDue
<1>1. ClientInit => Init
  BY DEF ClientInit
<1>2. [ClientNext]_allVars => [Next]_vars
  BY DEF ClientNext, allVars
<1>3. ClientSpec => Spec
  BY <1>1, <1>2, PTL DEF ClientSpec, Spec
<1>. QED BY <1>3, KeysLockedWhenDue, PTL
=============================================================================
