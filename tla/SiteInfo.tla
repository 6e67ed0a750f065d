------------------------------ MODULE SiteInfo ------------------------------
(***************************************************************************)
(* SiteInfoService (lib/siteinfo/service.ts), which finds the icons of a   *)
(* site on its own: it fetches the icons at well-known paths of the host   *)
(* and the ones that the page links to.  lookup() answers at once with     *)
(* what there is, and each change of it is published.                      *)
(*                                                                         *)
(* An update keeps no reference to the result that it is for: it looks it  *)
(* up under its URL whenever a request ends.                               *)
(***************************************************************************)
EXTENDS Naturals, Sequences, Functions

CONSTANTS
    Urls,                \* normalized URLs
    Icons,               \* the URLs of icons
    StandardIcons,       \* for each URL the icons at STANDARD_PATHS of its host
    LinkedIcons,         \* for each URL the icons that its page may link to
    MaxLookups,          \* bound on the updates
    ForgetsDuringUpdate  \* whether a URL is forgotten before its result is ready

ASSUME SiteInfoAssumption ==
    /\ StandardIcons \in [Urls -> SUBSET Icons] /\ LinkedIcons \in [Urls -> SUBSET Icons]
    /\ MaxLookups \in Nat /\ ForgetsDuringUpdate \in BOOLEAN

VARIABLES
    cache,     \* for each URL what is known of it
    updates,   \* the calls of update(), in order
    told       \* for each URL what a listener has read with status()

siteVars == <<cache, updates, told>>

NoResult == [state |-> "None", icons |-> <<>>, update |-> 0]
SOURCE_COUNT == 2

Result == [state : {"None", "Updating", "Ready"}, icons : Seq(Icons), update : 0 .. MaxLookups]

(* The requests of an update: fetchedUrls and the queue of its IconFetcher,*)
(* whether the page is still awaited, and, for the properties, the icons   *)
(* that were received and decoded.                                         *)
Update == [url : Urls, fetched : SUBSET Icons, queue : SUBSET Icons,
           page : BOOLEAN, sourcesQueried : 1 .. SOURCE_COUNT, received : SUBSET Icons]

SiteTypeOK ==
    /\ cache \in [Urls -> Result] /\ told \in [Urls -> Result]
    /\ updates \in Seq(Update) /\ Len(updates) <= MaxLookups

-----------------------------------------------------------------------------
(* How a request for an icon ends: with an icon, with something else, with *)
(* another status, or not at all.                                          *)
Outcomes == {"icon", "not an icon", "refused", "failed"}

(* Faulty variant: a URL is fetched for each source that has it.           *)
AddUrlsAgain(u, urls) == [u EXCEPT !.fetched = @ \union urls, !.queue = @ \union urls]

AddUrls(u, urls) == [u EXCEPT !.fetched = @ \union urls, !.queue = @ \union (urls \ u.fetched)]

(* updateQueryState: whether all requests of an update have ended.         *)
AllQueried(u) == u.queue = {} /\ u.sourcesQueried = SOURCE_COUNT

(* What an update that is now `u' makes of the result of its URL: `icons'  *)
(* are added, which is `published' to the listeners, and if this was the   *)
(* last request the result is ready, which is published, too.  Without a   *)
(* result the handler throws, after it has published that there is none.   *)
Report(u, icons, published) ==
    LET result == [cache[u.url] EXCEPT
                      !.icons = @ \o icons, !.state = IF AllQueried(u) THEN "Ready" ELSE @]
    IN IF cache[u.url] = NoResult
       THEN /\ UNCHANGED cache
            /\ told' = IF published /\ icons = <<>> THEN [told EXCEPT ![u.url] = NoResult] ELSE told
       ELSE /\ cache' = [cache EXCEPT ![u.url] = result]
            /\ told' = IF published \/ AllQueried(u) THEN [told EXCEPT ![u.url] = result] ELSE told

-----------------------------------------------------------------------------
SiteInit ==
    /\ cache = [url \in Urls |-> NoResult]
    /\ updates = <<>>
    /\ told = [url \in Urls |-> NoResult]

(* The first lookup of a URL starts an update, another one just returns    *)
(* the result.                                                             *)
Lookup(url) ==
    /\ cache[url] = NoResult /\ Len(updates) < MaxLookups
    /\ cache' = [cache EXCEPT ![url] =
                    [state |-> "Updating", icons |-> <<>>, update |-> Len(updates) + 1]]
    /\ updates' = Append(updates, AddUrls([url |-> url, fetched |-> {}, queue |-> {}, page |-> TRUE,
                                           sourcesQueried |-> 1, received |-> {}],
                                          StandardIcons[url]))
    /\ told' = [told EXCEPT ![url] = cache'[url]]

Forget(url) ==
    /\ cache[url].state = "Ready" \/ (ForgetsDuringUpdate /\ cache[url] # NoResult)
    /\ cache' = [cache EXCEPT ![url] = NoResult]
    /\ UNCHANGED <<updates, told>>

(* A request for an icon has ended: it leaves the queue, and the listener  *)
(* to done is told.                                                        *)
IconFetched(n, icon, outcome) ==
    LET icons == IF outcome = "icon" THEN <<icon>> ELSE <<>>
        u == [updates[n] EXCEPT !.queue = @ \ {icon}, !.received = @ \union Range(icons)]
    IN /\ icon \in updates[n].queue
       /\ updates' = [updates EXCEPT ![n] = u]
       /\ Report(u, icons, outcome \in {"icon", "not an icon"})

PageAnswered(u) == [u EXCEPT !.page = FALSE, !.sourcesQueried = SOURCE_COUNT]

(* The page was fetched, and its links are fetched that are to icons.      *)
PageFetched(n, links) ==
    LET u == PageAnswered(AddUrls(updates[n], links))
    IN /\ updates[n].page
       /\ updates' = [updates EXCEPT ![n] = u]
       /\ Report(u, <<>>, FALSE)

(* Faulty variant: only a page that was received counts as queried.        *)
PageFailsUncounted(n) ==
    /\ updates[n].page
    /\ updates' = [updates EXCEPT ![n].page = FALSE]
    /\ UNCHANGED <<cache, told>>

PageFails(n) ==
    /\ updates[n].page
    /\ updates' = [updates EXCEPT ![n] = PageAnswered(@)]
    /\ Report(updates'[n], <<>>, FALSE)

RequestEnds(n) ==
    \/ \E icon \in updates[n].queue, outcome \in Outcomes : IconFetched(n, icon, outcome)
    \/ PageFails(n)
    \/ \E links \in SUBSET LinkedIcons[updates[n].url] : PageFetched(n, links)

SiteNext ==
    \/ \E url \in Urls : Lookup(url) \/ Forget(url)
    \/ \E n \in DOMAIN updates : RequestEnds(n)

SiteSpec == SiteInit /\ [][SiteNext]_siteVars

(* Every request ends.                                                     *)
RequestsEnd == \A n \in 1 .. MaxLookups : WF_siteVars(n \in DOMAIN updates /\ RequestEnds(n))

-----------------------------------------------------------------------------
(* A result that is ready has every icon that was received for it, once,   *)
(* whether it was found at a well-known path, on the page or on both and   *)
(* in whatever order the requests ended, nothing of it is still being      *)
(* fetched, and the listeners have been told of it (service.ts 183-254 and *)
(* 314-377).  Not so if the URL was forgotten and looked up again during   *)
(* an update: two updates then report to one result.                       *)
ReadyIsComplete ==
    \A url \in Urls :
        LET result == cache[url] IN
        result.state = "Ready" =>
            LET u == updates[result.update] IN
            /\ AllQueried(u)
            /\ Range(result.icons) = u.received /\ IsInjective(result.icons)
            /\ told[url] = result

(* Every lookup gets ready, however its requests end, unless it is         *)
(* forgotten (service.ts 314-377).                                         *)
LookupsGetReady == \A url \in Urls : cache[url].state = "Updating" ~> cache[url].state # "Updating"
=============================================================================
