---------------------------- MODULE CommandLine ----------------------------
(***************************************************************************)
(* The command-line client and the vault it works on.  What the agent      *)
(* keeps are the keys, what the vault keeps are items that are encrypted   *)
(* with them; a save needs no more of the agent than that it has the key,  *)
(* so that a behaviour is one of either of them.                           *)
(***************************************************************************)
EXTENDS Vault, AgentServer

VARIABLE part    \* "vault" or "agent"

commandLineVars == <<part, vaultVars, allVars>>

CommandLineInit ==
    /\ VaultInit /\ ClientInit
    /\ \/ part = "vault" /\ agent = "http"
       \/ part = "agent" /\ backend = "node"

InVault(act) == part = "vault" /\ act /\ UNCHANGED <<part, allVars>>
OfAgent(act) == part = "agent" /\ act /\ UNCHANGED <<part, vaultVars>>
OfCommand(act) == OfAgent(agent = "http" /\ act /\ UNCHANGED <<agent, vars>>)

CommandLineNext == InVault(VaultNext) \/ OfAgent(ClientNext)

CommandLineSpec == CommandLineInit /\ [][CommandLineNext]_commandLineVars

(* The file system answers every call, commands and the processes of       *)
(* agents go on.                                                           *)
FairCommandLineSpec ==
    /\ CommandLineSpec
    /\ WF_commandLineVars(InVault(CallDone))
    /\ \A c \in Commands : WF_commandLineVars(OfCommand(CommandStep(c)))
    /\ \A p \in Pids : WF_commandLineVars(OfCommand(ServerStep(p)))
=============================================================================
