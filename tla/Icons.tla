-------------------------------- MODULE Icons --------------------------------
(***************************************************************************)
(* The icons of items: IconControl and BasicIconProvider                   *)
(* (webui/item_icons.ts) with the client of the site info service          *)
(* (lib/siteinfo/client.ts).  What is known of a URL is kept in memory,    *)
(* the icons of a host also on disk and in the client; the client looks a  *)
(* host up once, and tells of the result under the URL it was asked for.   *)
(***************************************************************************)
EXTENDS FiniteSetsExt, Functions, TLC

CONSTANTS
    Urls,        \* normalized URLs, fallbacks included
    Host,        \* the host of each URL
    Fallback,    \* https://www.<domain> for each URL
    Sizes,       \* the widths of icons, all of them square
    IconSize,    \* the width that is wanted
    Controls,    \* the places in the views that show an icon
    MaxRenders,  \* bound on the controls mounted or moved to another item
    MaxRestarts  \* bound on the restarts of the app

Nowhere == ""       \* the location of an item without a URL
Loading == 0        \* the images that stand for an icon
Default == 1
Hosts == {Host[u] : u \in Urls}

ASSUME IconsAssumption ==
    /\ Nowhere \notin Urls /\ DOMAIN Host = Urls
    /\ Fallback \in [Urls -> Urls] /\ \A u \in Urls : Fallback[Fallback[u]] = Fallback[u]
    /\ Sizes \subseteq Nat \ {Loading, Default} /\ IconSize \in Nat
    /\ MaxRenders \in Nat /\ MaxRestarts \in Nat

VARIABLES
    tempCache,   \* URLs to their icons
    diskCache,   \* hosts to the icons that were found
    reading,     \* the URLs whose disk cache entry is being read
    cache,       \* hosts to the results of the client
    fetching,    \* the icons that the client is getting
    controls,    \* the mounted controls: their location, and what they show
    renders, restarts

iconVars == <<tempCache, diskCache, reading, cache, fetching, controls, renders, restarts>>

Icon == [state : {"Fetching", "NoIcon", "Found"}, image : {Loading, Default} \union Sizes]
Result == [url : Urls, state : {"Asked", "Updating", "Ready"}, icons : SUBSET Sizes]

IconsTypeOK ==
    /\ DOMAIN tempCache \subseteq Urls /\ Range(tempCache) \subseteq Icon
    /\ DOMAIN diskCache \subseteq Hosts /\ Range(diskCache) \subseteq SUBSET Sizes
    /\ reading \subseteq DOMAIN tempCache
    /\ DOMAIN cache \subseteq Hosts /\ Range(cache) \subseteq Result
    /\ fetching \subseteq Hosts \X Sizes
    /\ DOMAIN controls \subseteq Controls
    /\ \A c \in DOMAIN controls :
          controls[c] \in [location : Urls \union {Nowhere}, shown : {Loading, Default} \union Sizes]

-----------------------------------------------------------------------------
(* makeIconUrl: the smallest that is large enough, else the largest.       *)
Selected(icons) ==
    LET large == {w \in icons : w >= IconSize} IN IF large # {} THEN Min(large) ELSE Max(icons)

IconOf(icons) ==
    IF icons = {} THEN [state |-> "NoIcon", image |-> Default]
    ELSE [state |-> "Found", image |-> Selected(icons)]

Fetching == [state |-> "Fetching", image |-> Loading]

(* What query returns, the URLs in `temp' having been queried.             *)
Answer(temp, url) ==
    IF url = Nowhere THEN IconOf({})
    ELSE IF url \notin DOMAIN temp THEN Fetching
    ELSE IF temp[url].state = "NoIcon" /\ Fallback[url] \in DOMAIN temp
         THEN temp[Fallback[url]] ELSE temp[url]

Put(f, x, y) == (x :> y) @@ f

(* The first query of a URL starts to read the disk cache.                 *)
Query(temp, url) ==
    IF url \in DOMAIN temp \union {Nowhere} THEN tempCache' = temp /\ reading' = reading
    ELSE tempCache' = Put(temp, url, Fetching) /\ reading' = reading \union {url}

(* Faulty variant: a control is told only of its own URL.                  *)
UpdateMatchesExact(updateUrl, itemUrl) == updateUrl = itemUrl

UpdateMatches(updateUrl, itemUrl) == itemUrl # Nowhere /\ updateUrl \in {itemUrl, Fallback[itemUrl]}

(* updateCacheEntry: the controls that listen are told of the URL, and     *)
(* render anew; if there is no icon the domain is queried.                 *)
UpdateCacheEntry(url, icons, read) ==
    LET temp == Put(tempCache, url, IconOf(icons)) IN
    /\ controls' = [c \in DOMAIN controls |->
            IF UpdateMatches(url, controls[c].location)
            THEN [controls[c] EXCEPT !.shown = Answer(temp, controls[c].location).image]
            ELSE controls[c]]
    /\ IF icons = {} /\ Fallback[url] # url /\ Fallback[url] \notin DOMAIN temp
       THEN /\ tempCache' = Put(temp, Fallback[url], Fetching)
            /\ reading' = (reading \ read) \union {Fallback[url]}
       ELSE tempCache' = temp /\ reading' = reading \ read

-----------------------------------------------------------------------------
(* IconControl *)

IconsInit ==
    /\ tempCache = <<>> /\ diskCache = <<>> /\ reading = {}
    /\ cache = <<>> /\ fetching = {} /\ controls = <<>>
    /\ renders = 0 /\ restarts = 0

(* A control is mounted, or gets another location: it is rendered.         *)
Render(c, location) ==
    /\ renders < MaxRenders /\ renders' = renders + 1
    /\ c \in DOMAIN controls => controls[c].location # location
    /\ Query(tempCache, location)
    /\ controls' = Put(controls, c, [location |-> location,
                                     shown |-> Answer(tempCache, location).image])
    /\ UNCHANGED <<diskCache, cache, fetching, restarts>>

Unmount(c) ==
    /\ c \in DOMAIN controls
    /\ controls' = Restrict(controls, DOMAIN controls \ {c})
    /\ UNCHANGED <<tempCache, diskCache, reading, cache, fetching, renders, restarts>>

-----------------------------------------------------------------------------
(* BasicIconProvider.query, when the disk cache has been read *)

ReadHit(url) ==
    /\ url \in reading /\ Host[url] \in DOMAIN diskCache
    /\ UpdateCacheEntry(url, diskCache[Host[url]], {url})
    /\ UNCHANGED <<diskCache, cache, fetching, renders, restarts>>

Insert(host, icons) ==
    diskCache' = IF icons = {} THEN diskCache ELSE Put(diskCache, host, icons)

(* There is no entry, or it cannot be read: queryProviderForIcon.  The     *)
(* client looks the host up unless it has done so before; a result that is *)
(* ready is taken at once.                                                 *)
ReadMiss(url) ==
    LET host == Host[url] IN
    /\ url \in reading
    /\ IF host \notin DOMAIN cache
       THEN /\ cache' = Put(cache, host, [url |-> url, state |-> "Asked", icons |-> {}])
            /\ reading' = reading \ {url}
            /\ UNCHANGED <<tempCache, diskCache, controls>>
       ELSE /\ Insert(host, cache[host].icons)
            /\ UNCHANGED cache
            /\ IF cache[host].state = "Ready"
               THEN UpdateCacheEntry(url, cache[host].icons, {url})
               ELSE reading' = reading \ {url} /\ UNCHANGED <<tempCache, controls>>
    /\ UNCHANGED <<fetching, renders, restarts>>

-----------------------------------------------------------------------------
(* PasscardsClient *)

(* The lookup has ended: the provider takes the icons there are.           *)
Ready(host, icons) ==
    /\ cache' = [cache EXCEPT ![host].state = "Ready", ![host].icons = icons]
    /\ Insert(host, icons)
    /\ UpdateCacheEntry(cache[host].url, icons, {})

LookupFails(host) ==
    /\ host \in DOMAIN cache /\ cache[host].state = "Asked"
    /\ Ready(host, {})
    /\ UNCHANGED <<fetching, renders, restarts>>

LookupAnswered(host, icons) ==
    /\ host \in DOMAIN cache /\ cache[host].state = "Asked"
    /\ fetching' = fetching \union ({host} \X icons)
    /\ IF icons = {} THEN Ready(host, {})
       ELSE /\ cache' = [cache EXCEPT ![host].state = "Updating"]
            /\ UNCHANGED <<tempCache, diskCache, reading, controls>>
    /\ UNCHANGED <<renders, restarts>>

(* An icon was received, or refused with a status.                         *)
IconAnswered(host, w, ok) ==
    LET icons == cache[host].icons \union (IF ok THEN {w} ELSE {}) IN
    /\ <<host, w>> \in fetching /\ fetching' = fetching \ {<<host, w>>}
    /\ IF cache[host].state = "Updating" /\ ~\E v \in Sizes : <<host, v>> \in fetching'
       THEN Ready(host, icons)
       ELSE /\ cache' = [cache EXCEPT ![host].icons = icons]
            /\ UNCHANGED <<tempCache, diskCache, reading, controls>>
    /\ UNCHANGED <<renders, restarts>>

(* A request that fails ends the lookup, whatever the others bring later.  *)
IconFails(host, w) ==
    /\ <<host, w>> \in fetching /\ fetching' = fetching \ {<<host, w>>}
    /\ IF cache[host].state = "Updating" THEN Ready(host, cache[host].icons)
       ELSE UNCHANGED <<cache, tempCache, diskCache, reading, controls>>
    /\ UNCHANGED <<renders, restarts>>

-----------------------------------------------------------------------------
Restart ==
    /\ restarts < MaxRestarts /\ restarts' = restarts + 1
    /\ tempCache' = <<>> /\ reading' = {} /\ cache' = <<>> /\ fetching' = {} /\ controls' = <<>>
    /\ UNCHANGED <<diskCache, renders>>

IconsStep ==
    \/ \E u \in reading : ReadHit(u) \/ ReadMiss(u)
    \/ \E h \in DOMAIN cache : LookupFails(h) \/ \E icons \in SUBSET Sizes : LookupAnswered(h, icons)
    \/ \E h \in Hosts, w \in Sizes : IconFails(h, w) \/ \E ok \in BOOLEAN : IconAnswered(h, w, ok)

IconsNext ==
    \/ \E c \in Controls : Unmount(c) \/ \E u \in Urls \union {Nowhere} : Render(c, u)
    \/ IconsStep \/ Restart

-----------------------------------------------------------------------------
(* In the end every control shows what the provider has for its location,  *)
(* and nothing is shown as loading (item_icons.ts 204-257, 298-322 and     *)
(* 430-496).  So it is if a host is queried for one URL: of a second one   *)
(* that is queried during the lookup nobody is told (client.ts 98-102).     *)
IconsSettle ==
    <>[]\A c \in DOMAIN controls :
            /\ controls[c].shown = Answer(tempCache, controls[c].location).image
            /\ controls[c].shown # Loading
=============================================================================
