----------------------------- MODULE FileSystem -----------------------------
(***************************************************************************)
(* The three virtual file systems a vault may be stored in: FileVFS        *)
(* (lib/vfs/node.ts), DropboxVFS (lib/vfs/dropbox.ts) and the client of    *)
(* the HTTP server of lib/vfs/http.ts.  Only the calls whose outcome       *)
(* depends on what is there are modelled; a file is known by its revision. *)
(***************************************************************************)
EXTENDS Naturals

Backends == {"node", "dropbox", "http"}

(* write() with a parentRevision: whether the file is written and whether  *)
(* the call is rejected.  FileVFS notices a conflict and rejects, and      *)
(* renames the new content over the file all the same; Dropbox refuses;    *)
(* the HTTP client drops the option.                                       *)
NodeWrite(conflict) == [written |-> TRUE, rejected |-> conflict]
DropboxWrite(conflict) == [written |-> ~conflict, rejected |-> conflict]
HttpWrite(conflict) == [written |-> TRUE, rejected |-> FALSE]

(* A faulty variant: the option is not passed on.                          *)
WriteAnyway(backend, revision, parentRevision) == HttpWrite(FALSE)

ConditionalWrite(backend, revision, parentRevision) ==
    LET conflict == revision # parentRevision
    IN CASE backend = "node" -> NodeWrite(conflict)
         [] backend = "dropbox" -> DropboxWrite(conflict)
         [] backend = "http" -> HttpWrite(conflict)

(* The revisions a file may have after a write.  That of FileVFS is made   *)
(* of the time, in seconds on some systems, and the size, and may stay the *)
(* same.                                                                   *)
NewRevisions(backend, revision) ==
    {revision + 1} \union (IF backend = "dropbox" THEN {} ELSE {revision})

(* rm(): only FileVFS says FileNotFound of a file that does not exist.     *)
(* Dropbox has errors of its own, and the server answers every failure     *)
(* with status 400, which its client translates to Other.                  *)
NodeRm(exists) == IF exists THEN "done" ELSE "FileNotFound"
DropboxRm(exists) == IF exists THEN "done" ELSE "DropboxError"

HandleFileRequest(succeeds) == IF succeeds THEN 200 ELSE 400
TranslateError(status) ==
    CASE status \in {401, 403} -> "AuthError"
      [] status = 404 -> "FileNotFound"
      [] status = 409 -> "Conflict"
      [] OTHER -> "Other"
HttpRm(exists) ==
    LET status == HandleFileRequest(exists)
    IN IF status = 200 THEN "done" ELSE TranslateError(status)

Rm(backend, exists) ==
    CASE backend = "node" -> NodeRm(exists)
      [] backend = "dropbox" -> DropboxRm(exists)
      [] backend = "http" -> HttpRm(exists)
=============================================================================
