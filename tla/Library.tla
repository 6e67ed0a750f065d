------------------------------ MODULE Library -------------------------------
(***************************************************************************)
(* The parts of lib/ that work for themselves: the queue, event streams    *)
(* and merges that the stores and views are built from, and the two halves *)
(* of the search for the icons of a site, whose only common state is the   *)
(* set of links that a page has.  A behaviour is one of one of them.       *)
(***************************************************************************)
EXTENDS UpdateQueue, EventStream, Merge, PageLinks, SiteInfo

VARIABLE part

libraryVars == <<part, vars, streamVars, mergeVars, linkVars, siteVars>>

(* Where another part runs there is nothing to merge, and no page.         *)
NothingToMerge ==
    /\ base = <<>> /\ first = <<>> /\ second = <<>>
    /\ deltas = [first |-> <<>>, second |-> <<>>] /\ merged = <<>> /\ step = "done"
NoPage == page = <<>> /\ content = <<>> /\ links = <<>> /\ turns = 0

LibraryInit ==
    /\ part \in {"queue", "stream", "merge", "links", "site"}
    /\ Init /\ StreamInit /\ SiteInit
    /\ IF part = "merge" THEN MergeInit ELSE NothingToMerge
    /\ IF part = "links" THEN LinksInit ELSE NoPage

Queue(act) == part = "queue" /\ act /\ UNCHANGED <<part, streamVars, mergeVars, linkVars, siteVars>>
Stream(act) == part = "stream" /\ act /\ UNCHANGED <<part, vars, mergeVars, linkVars, siteVars>>
Merging(act) == part = "merge" /\ act /\ UNCHANGED <<part, vars, streamVars, linkVars, siteVars>>
Links(act) == part = "links" /\ act /\ UNCHANGED <<part, vars, streamVars, mergeVars, siteVars>>
Site(act) == part = "site" /\ act /\ UNCHANGED <<part, vars, streamVars, mergeVars, linkVars>>

LibraryNext ==
    Queue(Next) \/ Stream(StreamNext) \/ Merging(MergeNext) \/ Links(LinksNext) \/ Site(SiteNext)

LibrarySpec == LibraryInit /\ [][LibraryNext]_libraryVars /\ RequestsEnd
=============================================================================
