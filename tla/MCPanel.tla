------------------------------ MODULE MCPanel -------------------------------
(* A form whose fields the filler must tell apart, one with the password   *)
(* first and a hidden field, and a page with no form.  Two sites of one    *)
(* domain, whose www host is another one.                                  *)
EXTENDS Panel

F(type, name, visible) == [type |-> type, name |-> name, visible |-> visible]
MCPages == {
    [url |-> NoPage, form |-> <<>>],
    [url |-> "site", form |-> <<F("Text", "other", FALSE), F("Password", "other", TRUE),
                                F("Text", "other", TRUE)>>],
    [url |-> "site", form |-> <<F("Password", "password", TRUE), F("Email", "user", TRUE)>>]}
MCItemUrl == [u \in Items |-> IF u = 2 THEN "site" ELSE "another site"]

MCHost == [u \in Urls |-> u]
MCFallback == [u \in Urls |-> "https://www.d"]
=============================================================================
