----------------------------- MODULE MasterKeys -----------------------------
(***************************************************************************)
(* The master key of a vault (lib/agile_keychain.ts) and the commands that *)
(* create the vault, change its password and unlock it (cli/cli.ts), each  *)
(* a process of its own with one agent for the keys.  On Dropbox and on    *)
(* the HTTP server a `command' is the form for a new vault of an app       *)
(* (webui/setup_view.ts).  The key is random and is stored encrypted with  *)
(* the password; all items are encrypted with it, so that it must never be *)
(* replaced.                                                               *)
(*                                                                         *)
(* A key is known by the command that made it, an encrypted one by the     *)
(* password that decrypts it, too.                                         *)
(***************************************************************************)
EXTENDS Naturals, FiniteSets, FileSystem

CONSTANTS
    Commands,        \* the processes of commands
    NoCommand,
    Passwords,
    NoPassword,
    Depth,           \* number of folders that createVault makes
    MaxFaults,       \* bound on failing calls and processes that are killed
    ChangesOverlap   \* whether several commands write keys at the same time

ASSUME MasterKeysAssumption ==
    /\ NoCommand \notin Commands /\ NoPassword \notin Passwords
    /\ Depth \in Nat \ {0} /\ MaxFaults \in Nat

ASSUME OverlapAssumption == ChangesOverlap \in BOOLEAN

VARIABLES
    backend,
    folders,       \* how many of the folders exist
    keyFile,       \* encryptionKeys.js
    hintFile,      \* .password.hint: the password that it is for
    contentsFile,  \* contents.js
    agent,         \* the keys that the agent has
    commands,      \* with the new password that their users choose, if any
    lastWriter,    \* the last command that began to write keys
    faults

files == <<backend, folders, keyFile, hintFile, contentsFile>>
keyVars == <<files, agent, commands, lastWriter, faults>>

Entry == [key : Commands, password : Passwords]
NoEntry == [key |-> NoCommand, password |-> NoPassword]

Kinds == {"new-vault", "set-password", "list"}
KindsOn(fs) == IF fs = "node" THEN Kinds ELSE {"new-vault"}
Files == {"keys", "hint", "contents"}
Ended == {"done", "failed", "cancelled", "no exit code"}
Steps == {"not run", "mkdir", "password", "passwords", "write"} \union Ended

Command ==
    [kind : Kinds, level : 1 .. Depth, step : Steps,
     keys : Entry \union {NoEntry}, new : Passwords,
     writes : SUBSET Files, open : SUBSET Files]

KeysTypeOK ==
    /\ backend \in Backends /\ folders \in 0 .. Depth
    /\ keyFile \in Entry \union {NoEntry} /\ hintFile \in Passwords \union {NoPassword}
    /\ contentsFile \in {"none", "empty", "[]"}
    /\ agent \in SUBSET Commands
    /\ commands \in [Commands -> Command]
    /\ lastWriter \in Commands \union {NoCommand}
    /\ faults \in 0 .. MaxFaults

KeysInit ==
    /\ backend \in Backends
    /\ folders = 0 /\ keyFile = NoEntry /\ hintFile = NoPassword /\ contentsFile = "none"
    /\ agent = {}
    /\ commands \in [Commands -> [kind : KindsOn(backend), level : {Depth}, step : {"not run"},
                                  keys : {NoEntry}, new : Passwords, writes : {{}}, open : {{}}]]
    /\ lastWriter = NoCommand
    /\ faults = 0

At(c, step) == commands[c].step = step
Is(c, kind) == commands[c].kind = kind
Goto(c, step) == commands' = [commands EXCEPT ![c].step = step]

MayWrite(c) == ChangesOverlap \/ \A d \in Commands \ {c} : commands[d].writes = {}

(* decryptKey: whether a password is the one a key is encrypted with.      *)
Decrypts(password, entry) == entry.password = password

(* reencryptKey: the key stays the same.                                   *)
Reencrypted(entry, password) == [entry EXCEPT !.password = password]

(* generateMasterKey                                                       *)
NewKey(c, password) == [key |-> c, password |-> password]

-----------------------------------------------------------------------------
(* createVault *)

(* The new password has to be entered twice.                               *)
NewVault(c) ==
    /\ At(c, "not run") /\ Is(c, "new-vault")
    /\ Goto(c, "mkdir") \/ Goto(c, "cancelled")
    /\ UNCHANGED <<files, agent, lastWriter, faults>>

StartWriting(c, entry, writes) ==
    /\ commands' = [commands EXCEPT ![c].step = "write", ![c].keys = entry, ![c].writes = writes]
    /\ lastWriter' = c

FoldersMade(c) == StartWriting(c, NewKey(c, commands[c].new), Files)

(* Faulty variant: an existing folder is fine.                             *)
MayExistAlways(level) == TRUE

(* mkpathInternal: allowExisting.                                          *)
MayExist(level) == level < Depth

(* FileVFS makes one folder at a time: if the parent is missing it goes    *)
(* there first, and comes back when it exists.                             *)
MakeFolder(c) ==
    LET level == commands[c].level
        next == IF level = Depth THEN FoldersMade(c)
                ELSE commands' = [commands EXCEPT ![c].level = level + 1] /\ UNCHANGED lastWriter
    IN /\ At(c, "mkdir") /\ backend # "dropbox"
       /\ \/ /\ folders = level - 1 /\ folders' = level
             /\ next
          \/ /\ folders < level - 1
             /\ commands' = [commands EXCEPT ![c].level = level - 1]
             /\ UNCHANGED <<folders, lastWriter>>
          \/ /\ folders >= level /\ UNCHANGED folders
             /\ IF MayExist(level) THEN next ELSE Goto(c, "failed") /\ UNCHANGED lastWriter
       /\ UNCHANGED <<backend, keyFile, hintFile, contentsFile, agent, faults>>

(* Dropbox makes all of them, unless the last one exists.                  *)
MakeFolders(c) ==
    /\ At(c, "mkdir") /\ backend = "dropbox"
    /\ folders' = Depth
    /\ IF folders = Depth THEN Goto(c, "failed") /\ UNCHANGED lastWriter ELSE FoldersMade(c)
    /\ UNCHANGED <<backend, keyFile, hintFile, contentsFile, agent, faults>>
-----------------------------------------------------------------------------
(* Unlocking, and changing the password *)

FirstStep(c) == IF Is(c, "list") THEN "done" ELSE "passwords"

(* loadKeys and isLocked: the keys are read once, and the password is asked*)
(* for unless the agent has the key.                                       *)
LoadKeys(c) ==
    /\ At(c, "not run") /\ ~Is(c, "new-vault")
    /\ IF keyFile = NoEntry THEN Goto(c, "failed")
       ELSE commands' = [commands EXCEPT
               ![c].keys = keyFile, ![c].step = IF keyFile.key \in agent THEN FirstStep(c) ELSE "password"]
    /\ UNCHANGED <<files, agent, lastWriter, faults>>

Unlock(c) ==
    /\ At(c, "password")
    /\ \E password \in Passwords :
          IF Decrypts(password, commands[c].keys)
          THEN Goto(c, FirstStep(c)) /\ agent' = agent \union {commands[c].keys.key}
          ELSE Goto(c, "failed") /\ UNCHANGED agent
    /\ UNCHANGED <<files, lastWriter, faults>>

(* The keys that were read are encrypted anew, if the vault is not locked  *)
(* meanwhile and the old password is right.  If it fails the user is told, *)
(* but the promise for the exit code stays pending.  If the new passwords  *)
(* differ the code goes on, too, but the process exits first.              *)
ChangePassword(c) ==
    LET entry == commands[c].keys
    IN /\ At(c, "passwords") /\ MayWrite(c)
       /\ \/ Goto(c, "cancelled") /\ UNCHANGED lastWriter
          \/ \E old \in Passwords :
                IF entry.key \in agent /\ Decrypts(old, entry)
                THEN StartWriting(c, Reencrypted(entry, commands[c].new), {"keys", "hint"})
                ELSE Goto(c, "no exit code") /\ UNCHANGED lastWriter
       /\ UNCHANGED <<files, agent, faults>>

(* The agent is locked, by a command or because its time is up.            *)
Lock ==
    /\ agent # {} /\ agent' = {}
    /\ UNCHANGED <<files, commands, lastWriter, faults>>

-----------------------------------------------------------------------------
(* Writing the files *)

SetFile(file, keys, hint, contents) ==
    /\ keyFile' = IF file = "keys" THEN keys ELSE keyFile
    /\ hintFile' = IF file = "hint" THEN hint ELSE hintFile
    /\ contentsFile' = IF file = "contents" THEN contents ELSE contentsFile

(* Without a parentRevision FileVFS, also behind the HTTP server, opens the*)
(* file itself and writes into it; until then it is empty.                 *)
OpenFile(c, file) ==
    /\ backend # "dropbox" /\ file \in commands[c].writes \ commands[c].open
    /\ commands' = [commands EXCEPT ![c].open = @ \union {file}]
    /\ SetFile(file, NoEntry, NoPassword, "empty")
    /\ UNCHANGED <<backend, folders, agent, lastWriter, faults>>

(* Faulty variant: the command does not wait for all of its writes.        *)
AllWrittenEarly(writes) == Cardinality(writes) <= 1

AllWritten(writes) == writes = {}

FileWritten(c, file) ==
    LET writes == commands[c].writes \ {file}
    IN /\ file \in (IF backend = "dropbox" THEN commands[c].writes ELSE commands[c].open)
       /\ SetFile(file, commands[c].keys, commands[c].keys.password, "[]")
       /\ commands' = [commands EXCEPT ![c].writes = writes, ![c].open = @ \ {file},
                           ![c].step = IF At(c, "write") /\ AllWritten(writes) THEN "done" ELSE @]
       /\ UNCHANGED <<backend, folders, agent, lastWriter, faults>>

(* A write fails, while the others go on.                                  *)
WriteFails(c, file) ==
    /\ file \in commands[c].writes /\ faults < MaxFaults
    /\ faults' = faults + 1
    /\ commands' = [commands EXCEPT ![c].writes = @ \ {file}, ![c].open = @ \ {file},
                                    ![c].step = IF Is(c, "set-password") THEN "no exit code" ELSE "failed"]
    /\ UNCHANGED <<files, agent, lastWriter>>

(* A command that has failed to create a vault exits, whatever it writes.  *)
Exit(c) ==
    /\ At(c, "failed") /\ backend = "node" /\ commands[c].writes # {}
    /\ commands' = [commands EXCEPT ![c].writes = {}, ![c].open = {}]
    /\ UNCHANGED <<files, agent, lastWriter, faults>>

(* The process is killed.                                                  *)
Crash(c) ==
    /\ ~At(c, "not run") /\ (commands[c].step \notin Ended \/ commands[c].writes # {})
    /\ faults < MaxFaults
    /\ faults' = faults + 1
    /\ commands' = [commands EXCEPT ![c].writes = {}, ![c].open = {}, ![c].step = "failed"]
    /\ UNCHANGED <<files, agent, lastWriter>>

Step(c) ==
    \/ NewVault(c) \/ MakeFolder(c) \/ MakeFolders(c)
    \/ LoadKeys(c) \/ Unlock(c) \/ ChangePassword(c)
    \/ \E file \in Files : OpenFile(c, file) \/ FileWritten(c, file) \/ WriteFails(c, file)
    \/ Exit(c) \/ Crash(c)

KeysNext == Lock \/ \E c \in Commands : Step(c)

KeysSpec == KeysInit /\ [][KeysNext]_keyVars

-----------------------------------------------------------------------------
(* The keys of a vault: in the file, in the commands and in the agent.     *)
MasterKeys ==
    ({keyFile.key} \union {commands[c].keys.key : c \in Commands} \union agent) \ {NoCommand}

(* A vault has one master key for good: however many commands create it at *)
(* the same time, change its password or are killed, an item that one of   *)
(* them encrypts can be decrypted by the others (agile_keychain.ts 757-864 *)
(* with node.ts 206-252).                                                  *)
OneMasterKey == \A k, l \in MasterKeys : k = l

(* A command that fails to create the vault, though no call failed, gives  *)
(* way to another one that creates it: none is stopped by a folder that    *)
(* another one has made on its way (node.ts 206-252).                      *)
CreationsYieldToOne ==
    \A c \in Commands :
        faults = 0 /\ Is(c, "new-vault") /\ At(c, "failed") =>
            \E d \in Commands : Is(d, "new-vault") /\ commands[d].step \in {"write", "done"}

(* When a command has created the vault or changed its password, the file  *)
(* has the key under the new password, the hint is for that password and   *)
(* the vault has its contents, also after other commands have failed; this *)
(* takes that no two commands write at the same time (agile_keychain.ts    *)
(* 364-384, whose comment admits it).                                      *)
AcknowledgedChangesHold ==
    LET last == commands[lastWriter]
    IN lastWriter # NoCommand /\ last.step = "done" =>
          /\ keyFile = last.keys /\ hintFile = last.keys.password
          /\ last.kind = "new-vault" => contentsFile = "[]"

(* What a command has said of a vault is so, whichever commands it meets.  *)
CommandsAreTrue == CreationsYieldToOne /\ AcknowledgedChangesHold
=============================================================================
