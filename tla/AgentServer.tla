----------------------------- MODULE AgentServer -----------------------------
(***************************************************************************)
(* The command-line client (cli/cli.ts, edit_cmd.ts): every command is a   *)
(* process of its own, and the keys are kept by another process, the agent *)
(* (cli/agent_server.ts), which the first command starts and which forgets *)
(* them when they have not been used for a while (cli/agent.ts).           *)
(*                                                                         *)
(* A client uses either this agent or SimpleKeyAgent, as the app does.     *)
(***************************************************************************)
EXTENDS KeyAgent

CONSTANTS
    Commands,      \* the processes of commands
    KeyTimeout,    \* KEY_TIMEOUT
    StartsOverlap  \* whether commands start while others are still starting

ASSUME ServerAssumption == KeyTimeout \in Nat /\ StartsOverlap \in BOOLEAN

(* A command starts an agent at most once.                                 *)
Pids == 1 .. Cardinality(Commands)
NoPid == 0

VARIABLES
    agent,     \* which of the agents the client uses
    pidFile,
    servers,   \* the processes of the agent, by their PIDs
    held,      \* the keys that the agent process has
    keyTimer,  \* the time its timer has left, or NoTimer
    unused,    \* the time since the keys were used
    commands

heldVars == <<held, keyTimer, unused>>
processVars == <<pidFile, servers>>
serverVars == <<processVars, heldVars, commands>>
allVars == <<vars, agent, serverVars>>

(* "show" stands for copy, too, and "edit" for the other commands that save*)
(* items.                                                                  *)
Kinds == {"list", "show", "edit", "set-password", "lock"}
Starting == {"checking", "stopping", "watching", "launching"}
Unlocking == {"locked?", "password", "adding"}
Ended == {"0", "1", "2"}    \* the exit codes
Steps ==
    {"not run", "decrypt", "prompt", "save", "passwords", "change", "unanswered", "lock"}
    \union Starting \union Unlocking \union Ended

ServerTypeOK ==
    /\ agent \in {"simple", "http"}
    /\ pidFile \in Pids \union {NoPid}
    /\ servers \in [Pids -> {"none", "starting", "listening", "dead"}]
    /\ held \subseteq KeyIds
    /\ keyTimer \in 0 .. KeyTimeout \union {NoTimer} /\ unused \in 0 .. MaxIdle
    /\ commands \in [Commands -> [kind : Kinds, added : SUBSET KeyIds, step : Steps]]

ServerInit ==
    /\ pidFile = NoPid /\ servers = [p \in Pids |-> "none"]
    /\ held = {} /\ keyTimer = NoTimer /\ unused = 0
    /\ commands = [c \in Commands |-> [kind |-> "list", step |-> "not run", added |-> {}]]

At(c, step) == commands[c].step = step
Goto(c, step) == commands' = [commands EXCEPT ![c].step = step]
Listening == \E p \in Pids : servers[p] = "listening"

-----------------------------------------------------------------------------
(* Starting the agent *)

Begin(c, kind, step) == commands' = [commands EXCEPT ![c].kind = kind, ![c].step = step]

MayRun(c) ==
    /\ At(c, "not run")
    /\ StartsOverlap \/ \A d \in Commands : commands[d].step \notin Starting

(* launchAgent: another process is started.                                *)
Launch(processes) ==
    LET unstarted == {p \in Pids : processes[p] = "none"}
    IN \E p \in unstarted : (\A q \in unstarted : p <= q)
                            /\ servers' = [processes EXCEPT ![p] = "starting"]

(* A command is run.  Without a PID file an agent is launched.             *)
RunFirst(c, kind) ==
    /\ MayRun(c) /\ pidFile = NoPid
    /\ Launch(servers) /\ Begin(c, kind, "watching")
    /\ UNCHANGED <<pidFile, heldVars>>

RunNext(c, kind) ==
    /\ MayRun(c) /\ pidFile # NoPid
    /\ Begin(c, kind, "checking")
    /\ UNCHANGED <<processVars, heldVars>>

(* Faulty variant: an agent that does not answer is waited for.            *)
VersionUnanswered(c) ==
    /\ At(c, "checking") /\ Goto(c, IF Listening THEN "locked?" ELSE "launching")
    /\ UNCHANGED <<processVars, heldVars>>

(* An agent that answers is current: it looks at the version of the same   *)
(* file as the command does.                                               *)
VersionAnswered(c) ==
    /\ At(c, "checking") /\ Goto(c, IF Listening THEN "locked?" ELSE "stopping")
    /\ UNCHANGED <<processVars, heldVars>>

(* stopAgent kills whoever has the PID by now.                             *)
StopAgent(c) ==
    /\ At(c, "stopping") /\ Goto(c, "watching")
    /\ Launch([servers EXCEPT ![pidFile] = "dead"])
    /\ held' = {} /\ keyTimer' = NoTimer
    /\ UNCHANGED <<pidFile, unused>>

(* The state of the PID file to which later ones are compared is known.    *)
WatchReady(c) ==
    /\ At(c, "watching") /\ Goto(c, "launching")
    /\ UNCHANGED <<processVars, heldVars>>

(* A process that does not get the port fails.  The one that does writes   *)
(* the PID file, and the commands that watch it go on.  The process takes  *)
(* longer to start than the command that launched it to look at the file.  *)
ServerFails(p) ==
    /\ servers[p] = "starting" /\ Listening
    /\ servers' = [servers EXCEPT ![p] = "dead"]
    /\ UNCHANGED <<pidFile, heldVars, commands>>

ServerListens(p) ==
    /\ servers[p] = "starting" /\ ~Listening
    /\ StartsOverlap \/ \A c \in Commands : ~At(c, "watching")
    /\ servers' = [servers EXCEPT ![p] = "listening"] /\ pidFile' = p
    /\ commands' = [c \in Commands |->
          IF At(c, "launching") THEN [commands[c] EXCEPT !.step = "locked?"] ELSE commands[c]]
    /\ UNCHANGED heldVars

ServerDies(p) ==
    /\ servers[p] = "listening" /\ servers' = [servers EXCEPT ![p] = "dead"]
    /\ held' = {} /\ keyTimer' = NoTimer
    /\ UNCHANGED <<pidFile, unused, commands>>

-----------------------------------------------------------------------------
(* The requests of a command *)

(* resetKeyTimeout                                                         *)
Used == keyTimer' = KeyTimeout /\ unused' = 0

(* Unlocking fails with exit code 2, the command itself with 1.            *)
Fail(c) ==
    /\ Goto(c, IF commands[c].step \in Unlocking THEN "2" ELSE "1")
    /\ UNCHANGED <<processVars, heldVars>>

(* Nobody is listening: the request is refused.                            *)
RequestRefused(c) ==
    /\ commands[c].step \in {"locked?", "adding", "decrypt", "save", "lock"}
    /\ ~Listening /\ Fail(c)

FirstStep(c) ==
    CASE commands[c].kind = "list" -> "0"
      [] commands[c].kind = "lock" -> "lock"
      [] commands[c].kind = "set-password" -> "passwords"
      [] OTHER -> "decrypt"

(* Vault.isLocked                                                          *)
IsLocked(c) ==
    /\ At(c, "locked?") /\ Listening
    /\ Goto(c, IF KeyIds \subseteq held THEN FirstStep(c) ELSE "password")
    /\ UNCHANGED <<processVars, heldVars>>

PasswordTyped(c) ==
    /\ At(c, "password")
    /\ Goto(c, "adding") \/ Goto(c, "2")
    /\ UNCHANGED <<processVars, heldVars>>

(* Faulty variant: a new key does not start the timer.                     *)
AddKeyToServerNoTimer(c, k) ==
    /\ At(c, "adding") /\ Listening /\ k \notin commands[c].added
    /\ held' = held \union {k} /\ unused' = 0
    /\ LET added == commands[c].added \union {k} IN
       commands' = [commands EXCEPT ![c].added = added,
                                    ![c].step = IF added = KeyIds THEN FirstStep(c) ELSE @]
    /\ UNCHANGED <<processVars, keyTimer>>

AddKeyToServer(c, k) ==
    /\ At(c, "adding") /\ Listening /\ k \notin commands[c].added
    /\ held' = held \union {k} /\ Used
    /\ LET added == commands[c].added \union {k} IN
       commands' = [commands EXCEPT ![c].added = added,
                                    ![c].step = IF added = KeyIds THEN FirstStep(c) ELSE @]
    /\ UNCHANGED processVars

(* The agent decrypts the content of an item, if it has the key still.     *)
Decrypt(c, k) ==
    /\ At(c, "decrypt") /\ Listening
    /\ IF k \in held
       THEN /\ Goto(c, IF commands[c].kind = "edit" THEN "prompt" ELSE "0")
            /\ Used /\ UNCHANGED <<processVars, held>>
       ELSE Fail(c)

(* The user has typed the new value of the field.                          *)
ValueTyped(c) ==
    /\ At(c, "prompt") /\ Goto(c, "save")
    /\ UNCHANGED <<processVars, heldVars>>

SaveEdited(c, k) ==
    /\ At(c, "save") /\ Listening
    /\ IF k \in held
       THEN Goto(c, "0") /\ Used /\ UNCHANGED <<processVars, held>>
       ELSE Fail(c)

(* The new password is typed twice.                                        *)
PasswordsTyped(c) ==
    /\ At(c, "passwords")
    /\ Goto(c, "change") \/ Goto(c, "1")
    /\ UNCHANGED <<processVars, heldVars>>

(* changePassword fails with a wrong password, or if the vault was locked  *)
(* meanwhile; the promise of the exit code is then left alone.             *)
ChangePassword(c) ==
    /\ At(c, "change")
    /\ \/ Listening /\ KeyIds \subseteq held /\ Goto(c, "0")
       \/ Goto(c, "unanswered")
    /\ UNCHANGED <<processVars, heldVars>>

(* The timer is left running.                                              *)
LockVault(c) ==
    /\ At(c, "lock") /\ Listening
    /\ held' = {} /\ Goto(c, "0")
    /\ UNCHANGED <<processVars, keyTimer, unused>>

-----------------------------------------------------------------------------
KeyTimeoutFires ==
    /\ keyTimer = 0 /\ keyTimer' = NoTimer /\ held' = {}
    /\ UNCHANGED <<processVars, unused, commands>>

ServerTick ==
    /\ keyTimer # 0 /\ (held # {} \/ keyTimer # NoTimer) /\ unused < MaxIdle
    /\ keyTimer' = (IF keyTimer = NoTimer THEN NoTimer ELSE keyTimer - 1)
    /\ unused' = unused + 1
    /\ UNCHANGED <<processVars, held, commands>>

CommandStep(c) ==
    \/ VersionAnswered(c) \/ StopAgent(c) \/ WatchReady(c)
    \/ RequestRefused(c) \/ IsLocked(c) \/ PasswordTyped(c) \/ ValueTyped(c) \/ LockVault(c)
    \/ PasswordsTyped(c) \/ ChangePassword(c)
    \/ \E k \in KeyIds : AddKeyToServer(c, k) \/ Decrypt(c, k) \/ SaveEdited(c, k)

ServerStep(p) == ServerListens(p) \/ ServerFails(p)

CliNext ==
    \/ \E c \in Commands : CommandStep(c)
                           \/ \E kind \in Kinds : RunFirst(c, kind) \/ RunNext(c, kind)
    \/ \E p \in Pids : ServerStep(p) \/ ServerDies(p)
    \/ KeyTimeoutFires \/ ServerTick

ClientInit == Init /\ ServerInit /\ agent \in {"simple", "http"}

ClientNext ==
    \/ agent = "simple" /\ Next /\ UNCHANGED <<agent, serverVars>>
    \/ agent = "http" /\ CliNext /\ UNCHANGED <<agent, vars>>

ClientSpec ==
    /\ ClientInit /\ [][ClientNext]_allVars
    /\ \A c \in Commands : WF_allVars(agent = "http" /\ CommandStep(c) /\ UNCHANGED <<agent, vars>>)
    /\ \A p \in Pids : WF_allVars(agent = "http" /\ ServerStep(p) /\ UNCHANGED <<agent, vars>>)

-----------------------------------------------------------------------------
(* Every command ends with an exit code (cli.ts 590-713), also if the PID  *)
(* file is left from an agent that died, if the agent dies, forgets the    *)
(* keys or is locked by another command meanwhile (agent_server.ts         *)
(* 180-276).  Not so a change of the password that fails (cli.ts 422-455), *)
(* and not so if commands start at the same time: one may wait for a PID   *)
(* file that was written before it looked, or kill the agent of another.   *)
CommandsEnd ==
    \A c \in Commands :
        ~At(c, "not run") ~> commands[c].step \in Ended \/ At(c, "unanswered")

(* The agent process keeps no key that was not used for KEY_TIMEOUT.       *)
UnusedKeysAreForgotten == held # {} => unused <= KeyTimeout
=============================================================================
