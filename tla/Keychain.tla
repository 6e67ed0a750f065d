------------------------------ MODULE Keychain ------------------------------
(***************************************************************************)
(* What a vault keeps besides its list of items: the files with the master *)
(* key, and the file of one item.  The two have no state in common, since  *)
(* an item is encrypted with the one key there is, so that a behaviour is  *)
(* one of either of them.                                                  *)
(***************************************************************************)
EXTENDS ItemFormat, MasterKeys

VARIABLE part    \* "item" or "keys"

keychainVars == <<part, vars, keyVars>>

(* In a behaviour of the item no command is run.                           *)
NoCommandIsRun ==
    /\ backend = "node"
    /\ LET password == CHOOSE p \in Passwords : TRUE
       IN \A c \in Commands : commands[c].kind = "list" /\ commands[c].new = password

KeychainInit ==
    /\ Init /\ KeysInit
    /\ \/ part = "item" /\ NoCommandIsRun
       \/ part = "keys"

Item(act) == part = "item" /\ act /\ UNCHANGED <<part, keyVars>>
Keys(act) == part = "keys" /\ act /\ UNCHANGED <<part, vars>>

KeychainNext == Item(Next) \/ Keys(KeysNext)

KeychainSpec == KeychainInit /\ [][KeychainNext]_keychainVars
=============================================================================
