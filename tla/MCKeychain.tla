----------------------------- MODULE MCKeychain -----------------------------
(***************************************************************************)
(* Keychain with the contents of a login, of an item with sections and of  *)
(* an empty item, as the program and as other clients write them.          *)
(***************************************************************************)
EXTENDS Keychain, TLC

CONSTANTS MCUser, MCUrl

Login == [sections |-> <<>>, urls |-> <<MCUrl, MCUser>>, notes |-> NoText,
          formFields |-> <<[type |-> "Password", designation |-> "password", value |-> MCUrl],
                           [type |-> "Text", designation |-> "username", value |-> MCUser]>>,
          html |-> MCUrl]
Empty == [sections |-> <<>>, urls |-> <<>>, notes |-> NoText, formFields |-> <<>>, html |-> NoText]

(* One field of each kind.                                                 *)
FieldKinds == <<"string", "concealed", "address", "date", "monthYear", "URL", "cctype", "phone",
                "gender", "email", "menu">>
Card == [sections |-> <<[title |-> MCUser,
                         fields |-> [i \in 1 .. 11 |-> [k |-> FieldKinds[i], t |-> MCUser, v |-> MCUrl]]],
                        [title |-> NoText, fields |-> <<>>]>>,
         URLs |-> <<MCUrl>>, notesPlain |-> MCUser,
         fields |-> <<[type |-> "C", designation |-> "other", value |-> MCUser]>>, html |-> NoText]

Symmetry == Permutations(Apps)

MCContents == {Login, Empty}
MCForeignContents == {Card}
=============================================================================
