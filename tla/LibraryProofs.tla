---------------------------- MODULE LibraryProofs ----------------------------
(***************************************************************************)
(* The update queue implements UpdateLog, for any set of updates and any   *)
(* number of failures; and a result for a site that is ready is complete,  *)
(* for any sites, icons and links and however many lookups there are.      *)
(***************************************************************************)
EXTENDS Library, SequenceTheorems, FiniteSetTheorems, TLAPS

-----------------------------------------------------------------------------
(* The update queue                                                        *)

\* At the start the queue is empty and idle.
LEMMA QueueInit == Init => QueueInv
<1>. SUFFICES ASSUME Init PROVE QueueInv
  OBVIOUS
<1>1. TypeOK
  <2>1. <<>> \in Seq(Updates)
    OBVIOUS
  <2>2. failures \in 0..MaxFailures
    BY FailuresAssumption DEF Init
  <2>. QED BY <2>1, <2>2 DEF Init, TypeOK
<1>. QED BY <1>1 DEF Init, QueueInv

\* Every step keeps the types, the promise of the next batch and the batch that
\* is under way in agreement.
LEMMA QueueStep == ASSUME QueueInv, [Next]_vars PROVE QueueInv'
<1>. USE DEF QueueInv, TypeOK
<1>1. CASE UNCHANGED vars
  BY <1>1 DEF vars, queueVars
<1>2. ASSUME NEW u \in Updates, PushUpdate(u) PROVE QueueInv'
  BY <1>2 DEF PushUpdate, Push
<1>3. CASE StartBatch
  BY <1>3 DEF StartBatch, StartFlush, CanStart
<1>4. CASE BatchDone
  BY <1>4 DEF BatchDone, FlushDone
<1>5. CASE BatchFails
  BY <1>5, FailuresAssumption DEF BatchFails, FlushFails
<1>. QED BY <1>1, <1>2, <1>3, <1>4, <1>5 DEF Next, Idle

\* The types hold, a batch that waits has its promise, and a batch that is not
\* resolved is not empty: for every set of updates and however batches end.
THEOREM QueueTypeCorrect == Spec => []QueueInv
<1>. QED BY QueueInit, QueueStep, PTL DEF Spec

-----------------------------------------------------------------------------
Accepted == processed \o batch \o pendingUpdates

\* An empty queue is an empty log.
LEMMA LogInit == Init => Log!Init
BY DEF Init, Log!Init

\* Pushing an update accepts it, as the last one.
LEMMA PushIsAccept ==
  ASSUME QueueInv, NEW u \in Updates, PushUpdate(u)
  PROVE  Log!Accept(u)
<1>1. processed \o batch \in Seq(Updates)
  BY DEF QueueInv, TypeOK
<1>2. Accepted' = Append(Accepted, u)
  BY <1>1, SMTT(60) DEF QueueInv, TypeOK, PushUpdate, Push, Accepted
<1>3. UNCHANGED Len(processed)
  BY DEF PushUpdate, Push
<1>. QED BY <1>2, <1>3 DEF Log!Accept, Accepted

\* Starting a batch changes nothing: its updates are next either way.
LEMMA StartStutters == ASSUME QueueInv, StartBatch PROVE UNCHANGED Log!vars
<1>1. batch = <<>>
  BY DEF QueueInv, StartBatch, StartFlush, CanStart
<1>2. Accepted' = Accepted
  BY <1>1 DEF QueueInv, TypeOK, StartBatch, StartFlush, Accepted
<1>3. UNCHANGED Len(processed)
  BY DEF StartBatch, StartFlush
<1>. QED BY <1>2, <1>3 DEF Log!vars, Accepted

\* A batch that ends well is processed: at least one update, from the front.
LEMMA DoneIsProcess == ASSUME QueueInv, BatchDone PROVE Log!ProcessBatch
<1>1. batch # <<>> /\ batch \in Seq(Updates) /\ processed \in Seq(Updates)
      /\ pendingUpdates \in Seq(Updates)
  BY DEF QueueInv, TypeOK, BatchDone, FlushDone
<1>2. /\ processed' = processed \o batch
      /\ batch' = <<>>
      /\ pendingUpdates' = pendingUpdates
  BY DEF BatchDone, FlushDone
<1>3. Accepted' = Accepted
  BY <1>1, <1>2 DEF Accepted
<1>4. Len(batch) > 0 /\ Len(batch) \in Nat /\ Len(processed) \in Nat
      /\ Len(pendingUpdates) \in Nat
  BY <1>1
<1>5. Len(processed') = Len(processed) + Len(batch)
  BY <1>1, <1>2
<1>6. Len(Accepted) = Len(processed) + Len(batch) + Len(pendingUpdates)
  BY <1>1 DEF Accepted
<1>7. Len(processed)' \in (Len(processed) + 1)..Len(Accepted)
  BY <1>4, <1>5, <1>6
<1>. QED BY <1>3, <1>7 DEF Log!ProcessBatch, Accepted

\* Every step of the queue is a step of the log or leaves it alone.
LEMMA LogStep == ASSUME QueueInv, [Next]_vars PROVE [Log!Next]_(Log!vars)
<1>1. CASE UNCHANGED vars
  BY <1>1 DEF vars, queueVars, Log!vars
<1>2. ASSUME NEW u \in Updates, PushUpdate(u) PROVE [Log!Next]_(Log!vars)
  BY <1>2, PushIsAccept DEF Log!Next
<1>3. CASE StartBatch
  BY <1>3, StartStutters
<1>4. CASE BatchDone
  BY <1>4, DoneIsProcess DEF Log!Next
<1>5. CASE BatchFails
  BY <1>5 DEF BatchFails, FlushFails, Log!vars
<1>. QED BY <1>1, <1>2, <1>3, <1>4, <1>5 DEF Next, Idle

\* Updates are processed in the order in which they were pushed, each once,
\* however the pushes fall between the batches and whichever batches fail.
THEOREM ProcessesInOrder == Spec => ProcessedInOrder
<1>. QED BY QueueInit, QueueStep, LogInit, LogStep, PTL
     DEF Spec, ProcessedInOrder, Log!Spec
-----------------------------------------------------------------------------
(* The icons of a site                                                     *)

(* A result is for an update of its URL and has each icon that this update *)
(* has received, once; when it is ready the listeners know it.             *)
ResultsInv ==
    \A url \in Urls :
        LET result == cache[url]
            u == updates[result.update]
        IN /\ result.state = "None" => result = NoResult
           /\ result.state # "None" =>
                /\ result.update \in DOMAIN updates /\ u.url = url
                /\ Range(result.icons) = u.received /\ IsInjective(result.icons)
           /\ result.state = "Ready" => AllQueried(u) /\ told[url] = result

(* What is still to be fetched was never received, and an update that goes *)
(* on is the one that its result is for.                                   *)
UpdatesInv ==
    \A n \in DOMAIN updates :
        LET u == updates[n] IN
        /\ u.queue \subseteq u.fetched /\ u.received \subseteq u.fetched
        /\ u.queue \intersect u.received = {}
        /\ u.page <=> u.sourcesQueried = 1
        /\ ~AllQueried(u) => cache[u.url].update = n /\ cache[u.url].state = "Updating"

SiteInv == SiteTypeOK /\ ResultsInv /\ UpdatesInv

(* The updates of records.                                                 *)
LEMMA UrlsAdded ==
    ASSUME NEW u \in Update, NEW urls \in SUBSET Icons, NEW w, w = AddUrls(u, urls)
    PROVE  /\ w \in Update /\ w.url = u.url /\ w.page = u.page
           /\ w.fetched = u.fetched \union urls
           /\ w.queue = u.queue \union (urls \ u.fetched)
           /\ w.sourcesQueried = u.sourcesQueried /\ w.received = u.received
<1> DEFINE v == [u EXCEPT !.fetched = u.fetched \union urls]
<1>1. /\ v \in Update /\ v.fetched = u.fetched \union urls
      /\ v.url = u.url /\ v.page = u.page /\ v.queue = u.queue
      /\ v.sourcesQueried = u.sourcesQueried /\ v.received = u.received
  BY DEF Update
<1>2. w = [v EXCEPT !.queue = v.queue \union (urls \ u.fetched)]
  BY <1>1 DEF AddUrls
<1> HIDE DEF v
<1>3. QED
  BY <1>1, <1>2 DEF Update

LEMMA PageCounted ==
    ASSUME NEW u \in Update, NEW w, w = PageAnswered(u)
    PROVE  /\ w \in Update /\ w.url = u.url /\ w.page = FALSE
           /\ w.fetched = u.fetched /\ w.queue = u.queue
           /\ w.sourcesQueried = 2 /\ w.received = u.received
<1> DEFINE v == [u EXCEPT !.page = FALSE]
<1>1. /\ v \in Update /\ v.page = FALSE /\ v.fetched = u.fetched
      /\ v.url = u.url /\ v.queue = u.queue /\ v.received = u.received
  BY DEF Update
<1>2. w = [v EXCEPT !.sourcesQueried = 2]
  BY DEF PageAnswered, SOURCE_COUNT
<1> HIDE DEF v
<1>3. QED
  BY <1>1, <1>2 DEF Update, SOURCE_COUNT

LEMMA SiteStart == SiteInit => SiteInv
<1> SUFFICES ASSUME SiteInit PROVE SiteInv
  OBVIOUS
<1>1. SiteTypeOK
  <2>1. NoResult \in Result
    BY SiteInfoAssumption DEF NoResult, Result
  <2>2. QED
    BY <2>1, SiteInfoAssumption DEF SiteInit, SiteTypeOK
<1>2. ResultsInv
  BY DEF SiteInit, ResultsInv, NoResult
<1>3. UpdatesInv
  BY DEF SiteInit, UpdatesInv
<1>4. QED
  BY <1>1, <1>2, <1>3 DEF SiteInv

(* The first lookup of a URL: no update goes on for it.                    *)
LEMMA LookupStep ==
    ASSUME SiteInv, NEW url \in Urls, Lookup(url) PROVE SiteInv'
<1> DEFINE n == Len(updates) + 1
           u == updates'[n]
           result == [state |-> "Updating", icons |-> <<>>, update |-> n]
<1>1. /\ updates \in Seq(Update) /\ Len(updates) \in Nat /\ n \in 1 .. MaxLookups
      /\ cache \in [Urls -> Result] /\ told \in [Urls -> Result]
  BY SiteInfoAssumption DEF SiteInv, SiteTypeOK, Lookup
<1>2. /\ cache' = [cache EXCEPT ![url] = result] /\ told' = [told EXCEPT ![url] = result]
      /\ result \in Result
  BY <1>1 DEF Lookup, Result, SiteInv, SiteTypeOK
<1>3. PICK added : /\ added \in Update /\ added.url = url /\ added.page = TRUE
               /\ added.fetched = StandardIcons[url] /\ added.queue = StandardIcons[url]
               /\ added.sourcesQueried = 1 /\ added.received = {}
               /\ updates' = Append(updates, added)
  <2> DEFINE new == [url |-> url, fetched |-> {}, queue |-> {}, page |-> TRUE,
                     sourcesQueried |-> 1, received |-> {}]
             v == AddUrls(new, StandardIcons[url])
  <2>1. new \in Update /\ StandardIcons[url] \in SUBSET Icons
    BY SiteInfoAssumption DEF Update, SOURCE_COUNT
  <2>2. /\ new.url = url /\ new.page = TRUE /\ new.fetched = {} /\ new.queue = {}
        /\ new.sourcesQueried = 1 /\ new.received = {}
    OBVIOUS
  <2>3. updates' = Append(updates, v)
    BY DEF Lookup
  <2> HIDE DEF new
  <2>4. /\ v \in Update /\ v.url = new.url /\ v.page = new.page
        /\ v.fetched = new.fetched \union StandardIcons[url]
        /\ v.queue = new.queue \union (StandardIcons[url] \ new.fetched)
        /\ v.sourcesQueried = new.sourcesQueried /\ v.received = new.received
    BY <2>1, UrlsAdded
  <2> HIDE DEF v
  <2>5. QED
    BY <2>2, <2>3, <2>4
<1>4. /\ u = added /\ DOMAIN updates' = DOMAIN updates \union {n} /\ n \notin DOMAIN updates
      /\ \A m \in DOMAIN updates : updates'[m] = updates[m]
  BY <1>1, <1>3
<1>5. /\ u.url = url /\ u.fetched = StandardIcons[url] /\ u.queue = StandardIcons[url]
      /\ u.page = TRUE /\ u.sourcesQueried = 1 /\ u.received = {}
      /\ DOMAIN updates' = DOMAIN updates \union {n} /\ n \notin DOMAIN updates
      /\ \A m \in DOMAIN updates : updates'[m] = updates[m]
  BY <1>3, <1>4
<1>6. u \in Update /\ ~AllQueried(u)
  BY <1>3, <1>4 DEF AllQueried, SOURCE_COUNT
<1>7. SiteTypeOK'
  <2>1. updates' \in Seq(Update) /\ Len(updates') = n
    BY <1>1, <1>3
  <2>2. QED
    BY <1>1, <1>2, <2>1 DEF SiteTypeOK
<1>8. ResultsInv'
  <2> SUFFICES ASSUME NEW other \in Urls
               PROVE  LET r == cache'[other]
                          v == updates'[r.update]
                      IN /\ r.state = "None" => r = NoResult
                         /\ r.state # "None" =>
                              /\ r.update \in DOMAIN updates' /\ v.url = other
                              /\ Range(r.icons) = v.received /\ IsInjective(r.icons)
                         /\ r.state = "Ready" => AllQueried(v) /\ told'[other] = r
    BY DEF ResultsInv, AllQueried
  <2>1. CASE other = url
    <3>1. cache'[other] = result
      BY <1>1, <1>2, <2>1
    <3>2. Range(<<>>) = {} /\ IsInjective(<<>>)
      BY DEF Range, IsInjective
    <3>3. result.state = "Updating" /\ result.update = n /\ result.icons = <<>>
      OBVIOUS
    <3>4. n \in DOMAIN updates' /\ u.url = url /\ u.received = {}
      BY <1>5
    <3> HIDE DEF result
    <3>5. QED
      BY <2>1, <3>1, <3>2, <3>3, <3>4
  <2>2. CASE other # url
    <3>1. cache'[other] = cache[other] /\ told'[other] = told[other]
      BY <1>1, <1>2, <2>2
    <3>2. cache[other].state # "None" => cache[other].update \in DOMAIN updates
      BY DEF SiteInv, ResultsInv
    <3>3. cache[other].state = "Ready" => cache[other].state # "None"
      OBVIOUS
    <3>4. QED
      BY <1>5, <3>1, <3>2, <3>3 DEF SiteInv, ResultsInv
  <2>3. QED
    BY <2>1, <2>2
<1>9. UpdatesInv'
  <2> SUFFICES ASSUME NEW m \in DOMAIN updates'
               PROVE  LET v == updates'[m] IN
                      /\ v.queue \subseteq v.fetched /\ v.received \subseteq v.fetched
                      /\ v.queue \intersect v.received = {}
                      /\ v.page <=> v.sourcesQueried = 1
                      /\ ~AllQueried(v) => cache'[v.url].update = m /\ cache'[v.url].state = "Updating"
    BY DEF UpdatesInv, AllQueried
  <2>1. CASE m = n
    BY <1>1, <1>2, <1>5, <2>1
  <2>2. CASE m # n
    <3>1. m \in DOMAIN updates /\ updates'[m] = updates[m]
      BY <1>5, <2>2
    <3>2. updates[m] \in Update
      BY <1>1, <3>1
    <3>3. ~AllQueried(updates[m]) => updates[m].url # url
      BY <3>1 DEF Lookup, NoResult, SiteInv, UpdatesInv
    <3>4. ~AllQueried(updates[m]) => cache'[updates[m].url] = cache[updates[m].url]
      BY <1>1, <1>2, <3>2, <3>3 DEF Update
    <3>5. QED
      BY <3>1, <3>4 DEF SiteInv, UpdatesInv
  <2>3. QED
    BY <2>1, <2>2
<1>10. QED
  BY <1>7, <1>8, <1>9 DEF SiteInv

(* Only results that are ready are forgotten, and their updates are over.  *)
LEMMA ForgetStep ==
    ASSUME ~ForgetsDuringUpdate, SiteInv, NEW url \in Urls, Forget(url) PROVE SiteInv'
<1>1. /\ cache[url].state = "Ready" /\ cache' = [cache EXCEPT ![url] = NoResult]
      /\ UNCHANGED <<updates, told>> /\ cache \in [Urls -> Result]
  BY DEF Forget, SiteInv, SiteTypeOK
<1>2. SiteTypeOK'
  <2>1. NoResult \in Result
    BY SiteInfoAssumption DEF NoResult, Result
  <2>2. QED
    BY <1>1, <2>1 DEF SiteInv, SiteTypeOK
<1>3. ResultsInv'
  <2>1. ASSUME NEW other \in Urls PROVE cache'[other] \in {NoResult, cache[other]}
    BY <1>1
  <2>2. QED
    BY <1>1, <2>1 DEF SiteInv, ResultsInv, NoResult, AllQueried
<1>4. UpdatesInv'
  <2>1. ASSUME NEW n \in DOMAIN updates, ~AllQueried(updates[n])
        PROVE  cache'[updates[n].url] = cache[updates[n].url]
    <3>1. cache[updates[n].url].state = "Updating"
      BY <2>1 DEF SiteInv, UpdatesInv
    <3>2. QED
      BY <1>1, <3>1
  <2>2. QED
    BY <1>1, <2>1 DEF SiteInv, UpdatesInv, AllQueried
<1>5. QED
  BY <1>2, <1>3, <1>4 DEF SiteInv

(* A request of an update ends, and the update reports to its result.      *)
LEMMA ReportStep ==
    ASSUME SiteInv, NEW n \in DOMAIN updates, ~AllQueried(updates[n]),
           NEW u \in Update, updates' = [updates EXCEPT ![n] = u],
           NEW icons \in {<<>>} \union {<<icon>> : icon \in Icons},
           u.url = updates[n].url, u.queue \subseteq u.fetched, updates[n].fetched \subseteq u.fetched,
           u.queue \intersect u.received = {}, u.page <=> u.sourcesQueried = 1,
           u.received = updates[n].received \union Range(icons),
           Range(icons) \subseteq updates[n].fetched \ updates[n].received,
           \E published \in BOOLEAN : Report(u, icons, published)
    PROVE  SiteInv'
<1> DEFINE url == u.url
           old == cache[url]
           result == [old EXCEPT !.icons = @ \o icons, !.state = IF AllQueried(u) THEN "Ready" ELSE @]
<1>1. /\ updates \in Seq(Update) /\ updates[n] \in Update /\ url \in Urls
      /\ cache \in [Urls -> Result] /\ told \in [Urls -> Result] /\ old \in Result
  <2>1. updates \in Seq(Update) /\ cache \in [Urls -> Result] /\ told \in [Urls -> Result]
    BY DEF SiteInv, SiteTypeOK
  <2>2. updates[n] \in Update
    BY <2>1
  <2>3. url \in Urls
    BY DEF Update
  <2>4. QED
    BY <2>1, <2>2, <2>3
<1>2. old.update = n /\ old.state = "Updating" /\ old # NoResult
  BY DEF SiteInv, UpdatesInv, NoResult
<1>3. Range(old.icons) = updates[n].received /\ IsInjective(old.icons)
  BY <1>1, <1>2 DEF SiteInv, ResultsInv
<1>4. /\ cache' = [cache EXCEPT ![url] = result]
      /\ told' \in {told, [told EXCEPT ![url] = result]}
      /\ AllQueried(u) => told' = [told EXCEPT ![url] = result]
  BY <1>2 DEF Report
<1>5. /\ result.icons = old.icons \o icons /\ result.update = n /\ result \in Result
      /\ result.state = IF AllQueried(u) THEN "Ready" ELSE "Updating"
  <2> DEFINE list == old.icons \o icons
             state == IF AllQueried(u) THEN "Ready" ELSE "Updating"
  <2>1. list \in Seq(Icons) /\ state \in {"Updating", "Ready"}
    <3>1. old.icons \in Seq(Icons) /\ icons \in Seq(Icons)
      <4>1. CASE icons = <<>>
        BY <1>1, <4>1 DEF Result
      <4>2. ASSUME NEW icon \in Icons, icons = <<icon>> PROVE old.icons \in Seq(Icons) /\ icons \in Seq(Icons)
        BY <1>1, <4>2 DEF Result
      <4>3. QED
        BY <4>1, <4>2
    <3>2. list \in Seq(Icons)
      BY <3>1
    <3>3. QED
      BY <3>2
  <2> DEFINE p == [old EXCEPT !.icons = list]
  <2>2. p \in Result /\ p.icons = list /\ p.update = n /\ p.state = "Updating"
    BY <1>1, <1>2, <2>1 DEF Result
  <2>3. result = [p EXCEPT !.state = state]
    BY <1>2, <2>2
  <2> HIDE DEF list, state, result, p
  <2>4. result \in Result /\ result.icons = list /\ result.state = state /\ result.update = n
    BY <2>1, <2>2, <2>3 DEF Result
  <2>5. QED
    BY <2>4 DEF list, state
<1>6. /\ Range(result.icons) = u.received /\ IsInjective(result.icons)
      /\ result.icons \in Seq(Icons)
  <2>1. old.icons \in Seq(Icons)
    BY <1>1 DEF Result
  <2>2. CASE icons = <<>>
    BY <1>3, <1>5, <2>1, <2>2 DEF Range, IsInjective
  <2>3. ASSUME NEW icon \in Icons, icons = <<icon>>
        PROVE /\ Range(result.icons) = u.received /\ IsInjective(result.icons)
              /\ result.icons \in Seq(Icons)
    <3>1. result.icons = Append(old.icons, icon)
      BY <1>5, <2>1, <2>3
    <3>2. icon \notin updates[n].received /\ u.received = updates[n].received \union {icon}
      BY <2>3 DEF Range
    <3>3. /\ DOMAIN result.icons = DOMAIN old.icons \union {Len(old.icons) + 1}
          /\ Len(old.icons) + 1 \notin DOMAIN old.icons
          /\ \A i \in DOMAIN old.icons : result.icons[i] = old.icons[i]
          /\ result.icons[Len(old.icons) + 1] = icon
      BY <2>1, <3>1
    <3>4. \A i \in DOMAIN old.icons : old.icons[i] # icon
      BY <1>3, <3>2 DEF Range
    <3>5. IsInjective(result.icons)
      BY <1>3, <3>3, <3>4 DEF IsInjective
    <3>6. Range(result.icons) = u.received
      BY <1>3, <3>2, <3>3 DEF Range
    <3>7. QED
      BY <2>1, <3>1, <3>5, <3>6
  <2>4. QED
    BY <2>2, <2>3
<1>7. /\ DOMAIN updates' = DOMAIN updates /\ updates'[n] = u
      /\ \A m \in DOMAIN updates : m # n => updates'[m] = updates[m]
      /\ updates' \in Seq(Update) /\ Len(updates') = Len(updates)
  BY <1>1
<1> HIDE DEF result
<1>8. /\ cache'[url] = result
      /\ \A other \in Urls : other # url => cache'[other] = cache[other] /\ told'[other] = told[other]
      /\ AllQueried(u) => told'[url] = result
      /\ cache' \in [Urls -> Result] /\ told' \in [Urls -> Result]
  <2>1. cache'[url] = result /\ cache' \in [Urls -> Result]
    BY <1>1, <1>4, <1>5
  <2>2. CASE told' = told
    BY <1>1, <1>4, <1>5, <2>1, <2>2
  <2>3. CASE told' = [told EXCEPT ![url] = result]
    BY <1>1, <1>4, <1>5, <2>1, <2>3
  <2>4. QED
    BY <1>4, <2>2, <2>3
<1>9. SiteTypeOK'
  BY <1>7, <1>8 DEF SiteTypeOK, SiteInv
<1>10. ResultsInv'
  <2> SUFFICES ASSUME NEW other \in Urls
               PROVE  LET r == cache'[other]
                          v == updates'[r.update]
                      IN /\ r.state = "None" => r = NoResult
                         /\ r.state # "None" =>
                              /\ r.update \in DOMAIN updates' /\ v.url = other
                              /\ Range(r.icons) = v.received /\ IsInjective(r.icons)
                         /\ r.state = "Ready" => AllQueried(v) /\ told'[other] = r
    BY DEF ResultsInv, AllQueried
  <2>1. CASE other = url
    BY <1>5, <1>6, <1>7, <1>8, <2>1
  <2>2. CASE other # url
    <3>1. cache'[other] = cache[other] /\ told'[other] = told[other]
      BY <1>8, <2>2
    <3>2. cache[other].state # "None" =>
            /\ cache[other].update \in DOMAIN updates
            /\ updates[cache[other].update].url = other
      BY DEF SiteInv, ResultsInv
    <3>3. cache[other].state # "None" => cache[other].update # n
      BY <2>2, <3>2
    <3>4. cache[other].state # "None" => updates'[cache[other].update] = updates[cache[other].update]
      BY <1>7, <3>2, <3>3
    <3>5. QED
      BY <1>7, <3>1, <3>2, <3>4 DEF SiteInv, ResultsInv
  <2>3. QED
    BY <2>1, <2>2
<1>11. UpdatesInv'
  <2> SUFFICES ASSUME NEW m \in DOMAIN updates'
               PROVE  LET v == updates'[m] IN
                      /\ v.queue \subseteq v.fetched /\ v.received \subseteq v.fetched
                      /\ v.queue \intersect v.received = {}
                      /\ v.page <=> v.sourcesQueried = 1
                      /\ ~AllQueried(v) => cache'[v.url].update = m /\ cache'[v.url].state = "Updating"
    BY DEF UpdatesInv, AllQueried
  <2>1. CASE m = n
    <3>1. u.received \subseteq u.fetched
      BY DEF SiteInv, UpdatesInv
    <3>2. QED
      BY <1>5, <1>7, <1>8, <2>1, <3>1
  <2>2. CASE m # n
    <3>1. m \in DOMAIN updates /\ updates'[m] = updates[m] /\ updates[m] \in Update
      BY <1>1, <1>7, <2>2
    <3>2. ~AllQueried(updates[m]) => updates[m].url # url
      BY <1>2, <2>2, <3>1 DEF SiteInv, UpdatesInv
    <3>3. ~AllQueried(updates[m]) => cache'[updates[m].url] = cache[updates[m].url]
      BY <1>8, <3>1, <3>2 DEF Update
    <3>4. QED
      BY <3>1, <3>3 DEF SiteInv, UpdatesInv
  <2>3. QED
    BY <2>1, <2>2
<1>12. QED
  BY <1>9, <1>10, <1>11 DEF SiteInv

LEMMA RequestEndsStep ==
    ASSUME SiteInv, NEW n \in DOMAIN updates, RequestEnds(n) PROVE SiteInv'
<1>1. /\ updates[n] \in Update /\ updates[n].url \in Urls
      /\ updates[n].queue \subseteq updates[n].fetched /\ updates[n].received \subseteq updates[n].fetched
      /\ updates[n].queue \intersect updates[n].received = {}
      /\ updates[n].page <=> updates[n].sourcesQueried = 1
  <2>1. updates[n] \in Update
    BY DEF SiteInv, SiteTypeOK
  <2>2. QED
    BY <2>1 DEF SiteInv, UpdatesInv, Update
<1>2. ASSUME NEW icon \in updates[n].queue, NEW outcome \in Outcomes, IconFetched(n, icon, outcome)
      PROVE  SiteInv'
  <2> DEFINE icons == IF outcome = "icon" THEN <<icon>> ELSE <<>>
             u == [updates[n] EXCEPT !.queue = @ \ {icon}, !.received = @ \union Range(icons)]
  <2>1. icon \in Icons /\ ~AllQueried(updates[n]) /\ icon \in updates[n].fetched \ updates[n].received
    BY <1>1, <1>2 DEF Update, AllQueried
  <2>2. icons \in {<<>>} \union {<<i>> : i \in Icons} /\ Range(icons) \subseteq {icon}
    BY <2>1 DEF Range
  <2>3. /\ u.url = updates[n].url /\ u.fetched = updates[n].fetched /\ u.page = updates[n].page
        /\ u.queue = updates[n].queue \ {icon} /\ u.sourcesQueried = updates[n].sourcesQueried
        /\ u.received = updates[n].received \union Range(icons)
        /\ u \in Update
    BY <1>1, <2>1, <2>2 DEF Update
  <2>4. updates' = [updates EXCEPT ![n] = u] /\ Report(u, icons, outcome \in {"icon", "not an icon"})
    BY <1>2 DEF IconFetched
  <2> HIDE DEF icons, u
  <2>5. u.page <=> u.sourcesQueried = 1
    BY <1>1, <2>3
  <2>6. Range(icons) \subseteq updates[n].fetched \ updates[n].received
    BY <2>1, <2>2
  <2>7. u.queue \subseteq u.fetched /\ updates[n].fetched \subseteq u.fetched /\ u.queue \intersect u.received = {}
    BY <1>1, <2>2, <2>3
  <2>8. u \in Update /\ u.url = updates[n].url /\ u.received = updates[n].received \union Range(icons)
    BY <2>3
  <2>9. \E published \in BOOLEAN : Report(u, icons, published)
    BY <2>4 DEF Report
  <2>10. icons \in {<<>>} \union {<<i>> : i \in Icons}
    BY <2>2
  <2>11. QED
    BY <2>1, <2>4, <2>5, <2>6, <2>7, <2>8, <2>9, <2>10, ReportStep
<1>3. Range(<<>>) = {} /\ <<>> \in {<<>>} \union {<<icon>> : icon \in Icons}
      /\ Range(<<>>) \subseteq updates[n].fetched \ updates[n].received
  BY DEF Range
<1>4. CASE PageFails(n)
  <2> DEFINE u == PageAnswered(updates[n])
  <2>1. ~AllQueried(updates[n])
    BY <1>1, <1>4 DEF PageFails, AllQueried, SOURCE_COUNT
  <2>2. /\ u.url = updates[n].url /\ u.fetched = updates[n].fetched /\ u.page = FALSE
        /\ u.queue = updates[n].queue /\ u.sourcesQueried = 2 /\ u.received = updates[n].received
        /\ u \in Update
    BY <1>1, PageCounted
  <2>3. updates' = [updates EXCEPT ![n] = u] /\ updates'[n] = u
    BY <1>4 DEF PageFails
  <2>4. \E published \in BOOLEAN : Report(u, <<>>, published)
    BY <1>4, <2>3 DEF PageFails
  <2> HIDE DEF u
  <2>5. u.page <=> u.sourcesQueried = 1
    BY <2>2
  <2>6. u.queue \subseteq u.fetched /\ updates[n].fetched \subseteq u.fetched /\ u.queue \intersect u.received = {}
    BY <1>1, <2>2
  <2>7. u \in Update /\ u.url = updates[n].url /\ u.received = updates[n].received \union Range(<<>>)
    BY <1>3, <2>2
  <2>8. QED
    BY <1>3, <2>1, <2>3, <2>4, <2>5, <2>6, <2>7, ReportStep
<1>5. ASSUME NEW linked \in SUBSET LinkedIcons[updates[n].url], PageFetched(n, linked) PROVE SiteInv'
  <2> DEFINE u == PageAnswered(AddUrls(updates[n], linked))
  <2>1. ~AllQueried(updates[n]) /\ linked \subseteq Icons
    BY <1>1, <1>5, SiteInfoAssumption DEF PageFetched, AllQueried, SOURCE_COUNT
  <2>2. /\ u.url = updates[n].url /\ u.fetched = updates[n].fetched \union linked /\ u.page = FALSE
        /\ u.queue = updates[n].queue \union (linked \ updates[n].fetched)
        /\ u.sourcesQueried = 2 /\ u.received = updates[n].received
        /\ u \in Update
    <3> DEFINE v == AddUrls(updates[n], linked)
    <3>1. /\ v \in Update /\ v.url = updates[n].url /\ v.fetched = updates[n].fetched \union linked
          /\ v.queue = updates[n].queue \union (linked \ updates[n].fetched)
          /\ v.received = updates[n].received
      BY <1>1, <2>1, UrlsAdded
    <3> HIDE DEF v
    <3>2. u = PageAnswered(v)
      BY DEF v
    <3> HIDE DEF u
    <3>3. QED
      BY <3>1, <3>2, PageCounted
  <2>3. updates' = [updates EXCEPT ![n] = u] /\ \E published \in BOOLEAN : Report(u, <<>>, published)
    BY <1>5 DEF PageFetched
  <2> HIDE DEF u
  <2>4. u.page <=> u.sourcesQueried = 1
    BY <2>2
  <2>5. u.queue \subseteq u.fetched /\ updates[n].fetched \subseteq u.fetched /\ u.queue \intersect u.received = {}
    BY <1>1, <2>2
  <2>6. u \in Update /\ u.url = updates[n].url /\ u.received = updates[n].received \union Range(<<>>)
    BY <1>3, <2>2
  <2>7. QED
    BY <1>3, <2>1, <2>3, <2>4, <2>5, <2>6, ReportStep
<1>6. QED
  BY <1>2, <1>4, <1>5 DEF RequestEnds

(* If a URL is not forgotten while its icons are fetched, a result that is *)
(* ready is complete, in whatever order the requests end and whichever of  *)
(* them fail (service.ts 183-254 and 314-377).                             *)
THEOREM ReadyResultsAreComplete ==
    ASSUME ~ForgetsDuringUpdate PROVE SiteSpec => []ReadyIsComplete
<1>1. SiteInv /\ [SiteNext]_siteVars => SiteInv'
  <2> SUFFICES ASSUME SiteInv, [SiteNext]_siteVars PROVE SiteInv'
    OBVIOUS
  <2>1. CASE UNCHANGED siteVars
    BY <2>1 DEF siteVars, SiteInv, SiteTypeOK, ResultsInv, UpdatesInv, AllQueried
  <2>2. CASE SiteNext
    BY <2>2, LookupStep, ForgetStep, RequestEndsStep DEF SiteNext
  <2>3. QED
    BY <2>1, <2>2
<1>2. SiteInv => ReadyIsComplete
  BY DEF SiteInv, ResultsInv, ReadyIsComplete
<1>3. QED
  BY <1>1, <1>2, SiteStart, PTL DEF SiteSpec

-----------------------------------------------------------------------------
(* Event streams                                                           *)

LEMMA Smallest ==
    ASSUME NEW T \in SUBSET Nat, T # {} PROVE \E m \in T : \A k \in T : m <= k
<1>1. PICK m \in T : \A k \in T : ~(<<k, m>> \in OpToRel(<, Nat))
  BY NatLessThanWellFounded, WFMin
<1>2. \A k \in T : ~(k < m)
  BY <1>1 DEF OpToRel
<1>3. QED
  BY <1>2

(* How many positions are kept up to one.                                  *)
UpTo(kept, i) == {j \in kept : j <= i}

LEMMA UpToNext ==
    ASSUME NEW m \in Nat, NEW kept \in SUBSET (1 .. m), NEW i \in 0 .. m
    PROVE  /\ IsFiniteSet(UpTo(kept, i)) /\ Cardinality(UpTo(kept, i)) \in Nat
           /\ i > 0 => Cardinality(UpTo(kept, i)) =
                         IF i \in kept THEN Cardinality(UpTo(kept, i - 1)) + 1
                         ELSE Cardinality(UpTo(kept, i - 1))
<1>1. \A k \in 0 .. m : IsFiniteSet(UpTo(kept, k)) /\ Cardinality(UpTo(kept, k)) \in Nat
  <2>1. IsFiniteSet(1 .. m)
    BY FS_Interval
  <2>2. \A k \in 0 .. m : UpTo(kept, k) \in SUBSET (1 .. m)
    BY DEF UpTo
  <2>3. QED
    BY <2>1, <2>2, FS_Subset, FS_CardinalityType
<1>2. ASSUME i > 0, i \in kept
      PROVE  Cardinality(UpTo(kept, i)) = Cardinality(UpTo(kept, i - 1)) + 1
  <2>1. UpTo(kept, i) = UpTo(kept, i - 1) \union {i} /\ i \notin UpTo(kept, i - 1)
    <3>1. \A j \in kept : j <= i <=> j <= i - 1 \/ j = i
      OBVIOUS
    <3>2. ~(i <= i - 1)
      OBVIOUS
    <3>3. QED
      BY <1>2, <3>1, <3>2 DEF UpTo
  <2>2. IsFiniteSet(UpTo(kept, i - 1))
    BY <1>1, <1>2
  <2>3. QED
    BY <2>1, <2>2, FS_AddElement
<1>3. ASSUME i > 0, i \notin kept PROVE UpTo(kept, i) = UpTo(kept, i - 1)
  <2>1. \A j \in kept : j <= i <=> j <= i - 1
    BY <1>3
  <2>2. QED
    BY <2>1 DEF UpTo
<1>4. QED
  BY <1>1, <1>2, <1>3

(* There is a first, a second ... position, up to the last one.            *)
LEMMA NthExists ==
    ASSUME NEW m \in Nat, NEW kept \in SUBSET (1 .. m), NEW n \in 1 .. Cardinality(kept)
    PROVE  Nth(kept, n) \in kept /\ Cardinality(UpTo(kept, Nth(kept, n))) = n
<1> DEFINE T == {i \in 0 .. m : Cardinality(UpTo(kept, i)) >= n}
<1>1. Cardinality(UpTo(kept, m)) = Cardinality(kept) /\ Cardinality(UpTo(kept, 0)) = 0
  <2>1. \A j \in kept : j <= m /\ ~(j <= 0)
    OBVIOUS
  <2>2. UpTo(kept, m) = kept /\ UpTo(kept, 0) = {}
    BY <2>1 DEF UpTo
  <2>3. QED
    BY <2>2, FS_EmptySet
<1>2. n \in Nat /\ n > 0
  BY <1>1, UpToNext
<1>3. PICK i \in T : \A k \in T : i <= k
  <2>1. m \in T /\ T \in SUBSET Nat
    BY <1>1, <1>2
  <2>2. QED
    BY <2>1, Smallest
<1>4. i \in 1 .. m
  BY <1>1, <1>2, <1>3
<1>5. Cardinality(UpTo(kept, i - 1)) < n /\ Cardinality(UpTo(kept, i - 1)) \in Nat
  <2>1. i - 1 \in 0 .. m /\ i - 1 \notin T
    BY <1>3, <1>4
  <2>2. Cardinality(UpTo(kept, i - 1)) \in Nat
    BY <2>1, UpToNext
  <2>3. QED
    BY <1>2, <2>1, <2>2
<1>6. i \in kept /\ Cardinality(UpTo(kept, i)) = n
  <2>1. Cardinality(UpTo(kept, i)) = IF i \in kept THEN Cardinality(UpTo(kept, i - 1)) + 1
                                     ELSE Cardinality(UpTo(kept, i - 1))
    BY <1>4, UpToNext
  <2>2. QED
    BY <1>2, <1>3, <1>5, <2>1
<1>7. QED
  BY <1>6 DEF Nth, UpTo

(* A filtered array has some of the elements, in their order.              *)
LEMMA FilterKeepsOrder ==
    ASSUME NEW S, NEW array \in Seq(S), NEW kept \in SUBSET DOMAIN array
    PROVE  /\ Filtered(array, kept) \in Seq(S)
           /\ \A n \in DOMAIN Filtered(array, kept) :
                /\ Nth(kept, n) \in DOMAIN array
                /\ Filtered(array, kept)[n] = array[Nth(kept, n)]
           /\ \A k, n \in DOMAIN Filtered(array, kept) : k < n => Nth(kept, k) < Nth(kept, n)
<1> DEFINE m == Len(array)
<1>1. m \in Nat /\ kept \in SUBSET (1 .. m)
  OBVIOUS
<1>2. IsFiniteSet(kept) /\ Cardinality(kept) \in Nat
  <2>1. IsFiniteSet(1 .. m)
    BY <1>1, FS_Interval
  <2>2. QED
    BY <1>1, <2>1, FS_Subset, FS_CardinalityType
<1>3. \A n \in 1 .. Cardinality(kept) :
        Nth(kept, n) \in kept /\ Cardinality(UpTo(kept, Nth(kept, n))) = n
  BY <1>1, NthExists
<1>4. /\ DOMAIN Filtered(array, kept) = 1 .. Cardinality(kept)
      /\ \A n \in 1 .. Cardinality(kept) : Filtered(array, kept)[n] = array[Nth(kept, n)]
  BY DEF Filtered
<1>5. \A n \in 1 .. Cardinality(kept) : array[Nth(kept, n)] \in S
  BY <1>1, <1>3
<1>6. Filtered(array, kept) \in Seq(S)
  <2>1. Filtered(array, kept) \in [1 .. Cardinality(kept) -> S]
    BY <1>5 DEF Filtered
  <2>2. QED
    BY <1>2, <2>1
<1>7. ASSUME NEW k \in 1 .. Cardinality(kept), NEW n \in 1 .. Cardinality(kept), k < n
      PROVE  Nth(kept, k) < Nth(kept, n)
  <2> DEFINE i == Nth(kept, k)
             j == Nth(kept, n)
  <2>1. i \in 1 .. m /\ j \in 1 .. m
    BY <1>1, <1>3
  <2>2. ASSUME j <= i PROVE FALSE
    <3>1. UpTo(kept, j) \in SUBSET UpTo(kept, i)
      BY <1>1, <2>1, <2>2 DEF UpTo
    <3>2. IsFiniteSet(UpTo(kept, i))
      BY <1>1, <2>1, UpToNext
    <3>3. Cardinality(UpTo(kept, j)) <= Cardinality(UpTo(kept, i))
      BY <3>1, <3>2, FS_Subset
    <3>4. QED
      BY <1>2, <1>3, <1>7, <3>3
  <2>3. QED
    BY <2>1, <2>2
<1>8. QED
  BY <1>1, <1>3, <1>4, <1>6, <1>7

LEMMA FrontAndLast ==
    ASSUME NEW S, NEW s \in Seq(S), s # <<>>
    PROVE  /\ Len(s) \in Nat \ {0} /\ Last(s) = s[Len(s)] /\ Last(s) \in S
           /\ Front(s) \in Seq(S) /\ Len(Front(s)) = Len(s) - 1
           /\ \A i \in 1 .. Len(s) - 1 : Front(s)[i] = s[i]
<1>1. Len(s) \in Nat \ {0} /\ \A i \in 1 .. Len(s) : s[i] \in S
  OBVIOUS
<1>2. \A i \in 1 .. Len(s) - 1 : s[i] \in S
  BY <1>1
<1>3. /\ SubSeq(s, 1, Len(s) - 1) \in Seq(S) /\ Len(SubSeq(s, 1, Len(s) - 1)) = Len(s) - 1
      /\ \A i \in 1 .. Len(s) - 1 : SubSeq(s, 1, Len(s) - 1)[i] = s[i]
  <2> DEFINE n == Len(s) - 1
  <2>1. n \in Nat /\ 1 \in Int /\ n \in Int /\ \A i \in 1 .. n : s[i] \in S
    BY <1>1, <1>2
  <2>2. \A i \in 1 .. n : 1 + i - 1 = i
    OBVIOUS
  <2> HIDE DEF n
  <2>3. /\ SubSeq(s, 1, n) \in Seq(S) /\ Len(SubSeq(s, 1, n)) = (IF 1 <= n THEN n - 1 + 1 ELSE 0)
        /\ \A i \in 1 .. n - 1 + 1 : SubSeq(s, 1, n)[i] = s[1 + i - 1]
    BY <2>1, SubSeqProperties
  <2>4. n - 1 + 1 = n /\ (IF 1 <= n THEN n - 1 + 1 ELSE 0) = n
    BY <2>1
  <2>5. QED
    BY <2>2, <2>3, <2>4 DEF n
<1>4. QED
  BY <1>1, <1>3 DEF Front, Last

LEMMA AppendTo ==
    ASSUME NEW S, NEW s \in Seq(S), NEW x \in S, NEW t, t = Append(s, x)
    PROVE  /\ t \in Seq(S) /\ Len(s) \in Nat /\ Len(t) = Len(s) + 1 /\ t # <<>>
           /\ DOMAIN t = DOMAIN s \union {Len(s) + 1} /\ Len(s) + 1 \notin DOMAIN s
           /\ t[Len(s) + 1] = x /\ \A i \in DOMAIN s : t[i] = s[i]
  BY AppendProperties

(* An array of listeners is in the order in which they were registered.    *)
Ordered(array) == \A i, j \in DOMAIN array : i < j => array[i].id < array[j].id
StartsAs(array, start) == Len(start) <= Len(array) /\ \A i \in DOMAIN start : array[i] = start[i]

(* An array that a publish goes through only ever gets longer: it begins   *)
(* with the listeners there were.                                          *)
PublishOK(p) ==
    /\ p.array \in DOMAIN arrays /\ StartsAs(arrays[p.array], p.begun) /\ Ordered(p.begun)
    /\ p.length = Len(p.begun) /\ p.next \in 1 .. p.length + 1
    /\ Len(p.called) = p.next - 1 /\ \A i \in DOMAIN p.called : p.called[i] = p.begun[i]

PublishRecord == [array : Nat, length : Nat, next : Nat, begun : Seq(Listener), called : Seq(Listener)]

ArraysInv ==
    /\ arrays \in Seq(Seq(Listener)) /\ arrays # <<>> /\ registered \in 0 .. MaxListens
    /\ \A a \in DOMAIN arrays :
          Ordered(arrays[a]) /\ \A i \in DOMAIN arrays[a] : arrays[a][i].id <= registered
PublishesInv == publishes \in Seq(PublishRecord) /\ \A n \in DOMAIN publishes : PublishOK(publishes[n])

StreamInv == ArraysInv /\ PublishesInv

(* The publishes that run do not notice new arrays, nor listeners that are *)
(* added to one.                                                           *)
LEMMA ArraysGrow ==
    ASSUME StreamInv, ArraysInv', Len(arrays) <= Len(arrays'), publishes' = publishes,
           \A a \in DOMAIN arrays : StartsAs(arrays'[a], arrays[a])
    PROVE  StreamInv'
<1>1. arrays \in Seq(Seq(Listener)) /\ arrays' \in Seq(Seq(Listener)) /\ publishes \in Seq(PublishRecord)
  BY DEF StreamInv, ArraysInv, PublishesInv
<1>2. DOMAIN arrays \subseteq DOMAIN arrays'
  BY <1>1
<1>3. ASSUME NEW n \in DOMAIN publishes PROVE PublishOK(publishes[n])'
  <2> DEFINE p == publishes[n]
  <2>1. PublishOK(p) /\ p \in PublishRecord
    BY <1>1 DEF StreamInv, PublishesInv
  <2>2. p.array \in DOMAIN arrays' /\ p.begun \in Seq(Listener) /\ arrays[p.array] \in Seq(Listener)
        /\ arrays'[p.array] \in Seq(Listener)
    BY <1>1, <1>2, <2>1 DEF PublishOK, PublishRecord
  <2>3. StartsAs(arrays'[p.array], p.begun)
    <3>1. StartsAs(arrays[p.array], p.begun) /\ StartsAs(arrays'[p.array], arrays[p.array])
      BY <2>1 DEF PublishOK
    <3>2. QED
      BY <2>2, <3>1 DEF StartsAs
  <2>4. QED
    BY <2>1, <2>2, <2>3 DEF PublishOK
<1>4. QED
  BY <1>1, <1>3 DEF StreamInv, PublishesInv

(* ignore() makes a new array.                                             *)
LEMMA FilteredIsOrdered ==
    ASSUME NEW array \in Seq(Listener), NEW kept \in SUBSET DOMAIN array, Ordered(array),
           NEW last \in Nat, \A i \in DOMAIN array : array[i].id <= last
    PROVE  /\ Filtered(array, kept) \in Seq(Listener) /\ Ordered(Filtered(array, kept))
           /\ \A i \in DOMAIN Filtered(array, kept) : Filtered(array, kept)[i].id <= last
<1>1. /\ Filtered(array, kept) \in Seq(Listener)
      /\ \A n \in DOMAIN Filtered(array, kept) :
           /\ Nth(kept, n) \in DOMAIN array
           /\ Filtered(array, kept)[n] = array[Nth(kept, n)]
      /\ \A k, n \in DOMAIN Filtered(array, kept) : k < n => Nth(kept, k) < Nth(kept, n)
  BY FilterKeepsOrder
<1>2. QED
  BY <1>1 DEF Ordered

LEMMA NewArray ==
    ASSUME ArraysInv, NEW array \in Seq(Listener), Ordered(array),
           \A i \in DOMAIN array : array[i].id <= registered,
           arrays' = Append(arrays, array), registered' = registered
    PROVE  /\ ArraysInv' /\ Len(arrays) <= Len(arrays')
           /\ \A a \in DOMAIN arrays : StartsAs(arrays'[a], arrays[a])
<1>1. /\ arrays \in Seq(Seq(Listener)) /\ arrays' \in Seq(Seq(Listener)) /\ arrays' # <<>>
      /\ Len(arrays') = Len(arrays) + 1 /\ arrays'[Len(arrays) + 1] = array
      /\ DOMAIN arrays' = DOMAIN arrays \union {Len(arrays) + 1}
      /\ \A a \in DOMAIN arrays : arrays'[a] = arrays[a]
  <2>1. arrays \in Seq(Seq(Listener))
    BY DEF ArraysInv
  <2>2. QED
    BY <2>1, AppendTo
<1>2. ASSUME NEW a \in DOMAIN arrays'
      PROVE  Ordered(arrays'[a]) /\ \A i \in DOMAIN arrays'[a] : arrays'[a][i].id <= registered
  <2>1. CASE a \in DOMAIN arrays
    BY <1>1, <2>1 DEF ArraysInv
  <2>2. CASE a = Len(arrays) + 1
    BY <1>1, <2>2
  <2>3. QED
    BY <1>1, <2>1, <2>2
<1>3. \A a \in DOMAIN arrays : StartsAs(arrays[a], arrays[a])
  BY <1>1 DEF StartsAs
<1>4. QED
  BY <1>1, <1>2, <1>3 DEF ArraysInv, Ordered

(* What ignoring a callback or a context, and adding a listener for one,   *)
(* leave of the listeners.                                                 *)
LEMMA ListenersFiltered ==
    ASSUME ArraysInv, NEW kept \in SUBSET DOMAIN Last(arrays)
    PROVE  /\ Filtered(Last(arrays), kept) \in Seq(Listener)
           /\ Ordered(Filtered(Last(arrays), kept))
           /\ \A i \in DOMAIN Filtered(Last(arrays), kept) :
                 Filtered(Last(arrays), kept)[i].id <= registered
<1>1. /\ Last(arrays) \in Seq(Listener) /\ Last(arrays) = arrays[Len(arrays)]
      /\ Len(arrays) \in DOMAIN arrays /\ registered \in Nat
  BY FrontAndLast, EventStreamAssumption DEF ArraysInv
<1>2. Ordered(Last(arrays)) /\ \A i \in DOMAIN Last(arrays) : Last(arrays)[i].id <= registered
  BY <1>1 DEF ArraysInv
<1>3. QED
  BY <1>1, <1>2, FilteredIsOrdered

LEMMA IgnoreStep == ASSUME StreamInv, Ignore PROVE StreamInv'
<1>1. PICK kept \in SUBSET DOMAIN Last(arrays) : arrays' = Append(arrays, Filtered(Last(arrays), kept))
  BY DEF Ignore, WithoutCallback, WithoutContext
<1>2. ArraysInv /\ registered' = registered /\ publishes' = publishes
  BY DEF StreamInv, Ignore
<1>3. QED
  BY <1>1, <1>2, ListenersFiltered, NewArray, ArraysGrow

LEMMA ListenerIds ==
    ASSUME NEW array \in Seq(Listener), NEW i \in DOMAIN array
    PROVE  array[i] \in Listener /\ array[i].id \in Nat
<1>1. array[i] \in Listener
  OBVIOUS
<1>2. QED
  BY <1>1 DEF Listener

LEMMA ListenerAdded ==
    ASSUME NEW array \in Seq(Listener), Ordered(array), NEW last \in Nat,
           \A i \in DOMAIN array : array[i].id <= last,
           NEW listener \in Listener, listener.id = last + 1
    PROVE  /\ Append(array, listener) \in Seq(Listener) /\ Ordered(Append(array, listener))
           /\ \A i \in DOMAIN Append(array, listener) : Append(array, listener)[i].id <= last + 1
           /\ StartsAs(Append(array, listener), array)
<1>1. /\ Append(array, listener) \in Seq(Listener) /\ Len(Append(array, listener)) = Len(array) + 1
      /\ \A i \in DOMAIN array : Append(array, listener)[i] = array[i] /\ array[i].id \in Nat
      /\ Append(array, listener)[Len(array) + 1] = listener
  <2>1. \A i \in DOMAIN array : array[i].id \in Nat
    BY ListenerIds
  <2>2. QED
    BY <2>1, AppendTo
<1>2. \A i \in DOMAIN Append(array, listener) : i \in DOMAIN array \/ i = Len(array) + 1
  BY <1>1
<1>3. QED
  BY <1>1, <1>2 DEF Ordered, StartsAs

LEMMA ListenStep ==
    ASSUME StreamInv, NEW callback \in Callbacks, NEW context \in Contexts \union {NoContext},
           Listen(callback, context)
    PROVE  StreamInv'
<1> DEFINE listener == [id |-> registered + 1, callback |-> callback, context |-> context]
<1>1. /\ ArraysInv /\ registered \in Nat /\ registered' = registered + 1
      /\ registered' \in 0 .. MaxListens /\ publishes' = publishes
      /\ listener \in Listener /\ listener.id = registered + 1
  BY EventStreamAssumption DEF StreamInv, ArraysInv, Listen, Listener
<1>2. /\ arrays \in Seq(Seq(Listener)) /\ Len(arrays) \in Nat \ {0}
      /\ Last(arrays) = arrays[Len(arrays)] /\ Last(arrays) \in Seq(Listener)
      /\ Front(arrays) \in Seq(Seq(Listener)) /\ Len(Front(arrays)) = Len(arrays) - 1
      /\ \A i \in 1 .. Len(arrays) - 1 : Front(arrays)[i] = arrays[i]
  BY <1>1, FrontAndLast DEF ArraysInv
<1>3. /\ Ordered(Last(arrays)) /\ \A i \in DOMAIN Last(arrays) : Last(arrays)[i].id <= registered
  BY <1>2 DEF StreamInv, ArraysInv
<1> HIDE DEF listener
<1>4. ASSUME NEW old \in Seq(Listener), NEW n \in {Len(arrays), Len(arrays) + 1},
             Ordered(old), \A i \in DOMAIN old : old[i].id <= registered,
             arrays' \in Seq(Seq(Listener)), Len(arrays') = n, arrays'[n] = Append(old, listener),
             \A a \in DOMAIN arrays : a # n => arrays'[a] = arrays[a],
             n = Len(arrays) => old = arrays[n]
      PROVE  StreamInv'
  <2>1. /\ Ordered(arrays'[n]) /\ \A i \in DOMAIN arrays'[n] : arrays'[n][i].id <= registered'
        /\ StartsAs(arrays'[n], old)
    BY <1>1, <1>4, ListenerAdded
  <2>2. ASSUME NEW a \in DOMAIN arrays'
        PROVE  Ordered(arrays'[a]) /\ \A i \in DOMAIN arrays'[a] : arrays'[a][i].id <= registered'
    <3>1. CASE a = n
      BY <2>1, <3>1
    <3>2. CASE a # n
      <4>1. a \in DOMAIN arrays /\ arrays'[a] = arrays[a]
        BY <1>2, <1>4, <3>2
      <4>2. \A i \in DOMAIN arrays[a] : arrays[a][i].id <= registered /\ arrays[a][i].id \in Nat
        <5>1. arrays[a] \in Seq(Listener)
          BY <1>2, <4>1
        <5>2. QED
          BY <4>1, <5>1, ListenerIds DEF StreamInv, ArraysInv
      <4>3. QED
        BY <1>1, <4>1, <4>2 DEF ArraysInv
    <3>3. QED
      BY <3>1, <3>2
  <2>3. ArraysInv'
    BY <1>1, <1>2, <1>4, <2>2 DEF ArraysInv, Ordered
  <2>4. ASSUME NEW a \in DOMAIN arrays PROVE StartsAs(arrays'[a], arrays[a])
    <3>1. CASE a = n
      <4>1. n = Len(arrays)
        BY <1>2, <1>4, <3>1
      <4>2. QED
        BY <1>4, <2>1, <3>1, <4>1
    <3>2. CASE a # n
      <4>1. arrays'[a] = arrays[a] /\ arrays[a] \in Seq(Listener)
        BY <1>2, <1>4, <3>2
      <4>2. QED
        BY <4>1 DEF StartsAs
    <3>3. QED
      BY <3>1, <3>2
  <2>5. QED
    BY <1>1, <1>2, <1>4, <2>3, <2>4, ArraysGrow
<1>5. CASE context = NoContext
  <2>1. arrays' = Append(Front(arrays), Append(Last(arrays), listener))
    BY <1>5 DEF Listen, MadeWay, listener
  <2>2. Append(Last(arrays), listener) \in Seq(Listener)
    BY <1>1, <1>2
  <2>3. /\ arrays' \in Seq(Seq(Listener)) /\ Len(arrays') = Len(arrays)
        /\ arrays'[Len(arrays)] = Append(Last(arrays), listener)
        /\ \A a \in DOMAIN arrays : a # Len(arrays) => arrays'[a] = arrays[a]
    <3>1. /\ arrays' \in Seq(Seq(Listener)) /\ Len(arrays') = Len(Front(arrays)) + 1
          /\ arrays'[Len(Front(arrays)) + 1] = Append(Last(arrays), listener)
          /\ \A a \in DOMAIN Front(arrays) : arrays'[a] = Front(arrays)[a]
      BY <1>2, <2>1, <2>2, AppendTo
    <3>2. Len(Front(arrays)) + 1 = Len(arrays)
      BY <1>2
    <3>3. \A a \in DOMAIN arrays : a # Len(arrays) => a \in DOMAIN Front(arrays)
      BY <1>2
    <3>4. QED
      <4>1. Len(arrays') = Len(arrays) /\ arrays'[Len(arrays)] = Append(Last(arrays), listener)
        BY <3>1, <3>2
      <4>2. ASSUME NEW a \in DOMAIN arrays, a # Len(arrays) PROVE arrays'[a] = arrays[a]
        <5>1. a \in DOMAIN Front(arrays) /\ a \in 1 .. Len(arrays) - 1
          BY <1>2, <3>3, <4>2
        <5>2. QED
          BY <1>2, <3>1, <5>1
      <4>3. QED
        BY <3>1, <4>1, <4>2
  <2>4. QED
    BY <1>2, <1>3, <1>4, <2>3
<1>6. CASE context # NoContext
  <2>1. PICK kept \in SUBSET DOMAIN Last(arrays) :
          MadeWay(arrays, context) = Append(arrays, Filtered(Last(arrays), kept))
    BY <1>6 DEF MadeWay, WithoutContext
  <2> DEFINE old == Filtered(Last(arrays), kept)
             all == Append(arrays, old)
  <2>2. old \in Seq(Listener) /\ Ordered(old) /\ \A i \in DOMAIN old : old[i].id <= registered
    BY <1>1, ListenersFiltered
  <2>3. arrays' = Append(Front(all), Append(Last(all), listener))
    BY <2>1 DEF Listen, listener
  <2> HIDE DEF old
  <2>4. /\ all \in Seq(Seq(Listener)) /\ all # <<>> /\ Len(all) = Len(arrays) + 1
        /\ all[Len(arrays) + 1] = old /\ \A a \in DOMAIN arrays : all[a] = arrays[a]
    <3>1. arrays \in Seq(Seq(Listener)) /\ old \in Seq(Listener)
      BY <1>2, <2>2
    <3> HIDE DEF all
    <3>2. all = Append(arrays, old)
      BY DEF all
    <3>3. QED
      BY <3>1, <3>2, AppendTo
  <2> HIDE DEF all
  <2>5. /\ Last(all) = old /\ Front(all) \in Seq(Seq(Listener)) /\ Len(Front(all)) = Len(arrays)
        /\ \A a \in DOMAIN arrays : Front(all)[a] = arrays[a]
    <3>1. /\ Last(all) = all[Len(all)] /\ Front(all) \in Seq(Seq(Listener))
          /\ Len(Front(all)) = Len(all) - 1
          /\ \A i \in 1 .. Len(all) - 1 : Front(all)[i] = all[i]
      BY <2>4, FrontAndLast
    <3>2. Len(all) - 1 = Len(arrays) /\ DOMAIN arrays = 1 .. Len(arrays)
      BY <1>2, <2>4
    <3>3. QED
      BY <2>4, <3>1, <3>2
  <2>6. Append(old, listener) \in Seq(Listener)
    BY <1>1, <2>2
  <2>7. /\ arrays' \in Seq(Seq(Listener)) /\ Len(arrays') = Len(arrays) + 1
        /\ arrays'[Len(arrays) + 1] = Append(old, listener)
        /\ \A a \in DOMAIN arrays : arrays'[a] = arrays[a]
    <3>1. /\ arrays' \in Seq(Seq(Listener)) /\ Len(arrays') = Len(Front(all)) + 1
          /\ arrays'[Len(Front(all)) + 1] = Append(old, listener)
          /\ \A a \in DOMAIN Front(all) : arrays'[a] = Front(all)[a]
      BY <2>3, <2>5, <2>6, AppendTo
    <3>2. DOMAIN Front(all) = DOMAIN arrays
      BY <1>2, <2>5
    <3>3. QED
      BY <2>5, <3>1, <3>2
  <2>8. Len(arrays) + 1 # Len(arrays) /\ Len(arrays) + 1 \notin DOMAIN arrays
    BY <1>2
  <2>9. QED
    BY <1>4, <2>2, <2>7, <2>8
<1>7. QED
  BY <1>5, <1>6

(* The publishes go on with the arrays as they are.                        *)
LEMMA ArraysSame ==
    ASSUME StreamInv, UNCHANGED <<arrays, registered>>, publishes' \in Seq(PublishRecord),
           \A n \in DOMAIN publishes' :
                PublishOK(publishes'[n]) \/ (n \in DOMAIN publishes /\ publishes'[n] = publishes[n])
    PROVE  StreamInv'
<1>1. ArraysInv'
  BY DEF StreamInv, ArraysInv, Ordered
<1>2. ASSUME NEW p, PublishOK(p) PROVE PublishOK(p)'
  BY <1>2 DEF PublishOK
<1>3. QED
  BY <1>1, <1>2 DEF StreamInv, PublishesInv

(* A publish begins.                                                       *)
LEMMA PublishStep == ASSUME StreamInv, Publish PROVE StreamInv'
<1> DEFINE p == [array |-> Len(arrays), length |-> Len(listeners), next |-> 1,
                 begun |-> listeners, called |-> <<>>]
<1>1. /\ arrays \in Seq(Seq(Listener)) /\ Len(arrays) \in DOMAIN arrays
      /\ listeners = arrays[Len(arrays)] /\ listeners \in Seq(Listener)
  BY FrontAndLast DEF StreamInv, ArraysInv, listeners
<1>2. /\ publishes' = Append(publishes, p) /\ UNCHANGED <<arrays, registered>>
      /\ publishes \in Seq(PublishRecord)
  BY DEF Publish, StreamInv, PublishesInv
<1>3. /\ p \in PublishRecord /\ p.array = Len(arrays) /\ p.length = Len(listeners) /\ p.next = 1
      /\ p.begun = listeners /\ p.called = <<>>
  BY <1>1 DEF PublishRecord
<1> HIDE DEF p
<1>4. PublishOK(p)
  BY <1>1, <1>3 DEF PublishOK, StartsAs, StreamInv, ArraysInv
<1>5. /\ publishes' \in Seq(PublishRecord)
      /\ \A n \in DOMAIN publishes' :
           publishes'[n] = p \/ (n \in DOMAIN publishes /\ publishes'[n] = publishes[n])
  BY <1>2, <1>3, AppendTo
<1>6. QED
  BY <1>2, <1>4, <1>5, ArraysSame

(* It calls the next listener, which is one there was when it began.       *)
LEMMA CallStep == ASSUME StreamInv, CallListener PROVE StreamInv'
<1> DEFINE p == Last(publishes)
           array == arrays[p.array]
           q == [p EXCEPT !.next = @ + 1, !.called = Append(@, array[p.next])]
<1>1. /\ UNCHANGED <<arrays, registered>> /\ publishes \in Seq(PublishRecord) /\ publishes # <<>>
      /\ Len(publishes) \in DOMAIN publishes
      /\ p = publishes[Len(publishes)] /\ p \in PublishRecord
      /\ Front(publishes) \in Seq(PublishRecord) /\ Len(Front(publishes)) = Len(publishes) - 1
      /\ \A i \in 1 .. Len(publishes) - 1 : Front(publishes)[i] = publishes[i]
  BY FrontAndLast DEF CallListener, StreamInv, PublishesInv
<1>2. PublishOK(p) /\ p.next <= p.length /\ arrays \in Seq(Seq(Listener))
  BY <1>1 DEF CallListener, StreamInv, PublishesInv, ArraysInv
<1>3. /\ array \in Seq(Listener) /\ p.begun \in Seq(Listener) /\ p.called \in Seq(Listener)
      /\ p.next \in Nat /\ p.length \in Nat
  BY <1>1, <1>2 DEF PublishOK, PublishRecord
<1>4. p.next \in DOMAIN p.begun /\ p.next \in DOMAIN array /\ array[p.next] = p.begun[p.next]
  BY <1>2, <1>3 DEF PublishOK, StartsAs
<1>5. publishes' = Append(Front(publishes), q)
  BY <1>4 DEF CallListener
<1>6. /\ q \in PublishRecord /\ q.array = p.array /\ q.length = p.length /\ q.begun = p.begun
      /\ q.next = p.next + 1 /\ q.called = Append(p.called, p.begun[p.next])
  <2>1. Append(p.called, array[p.next]) \in Seq(Listener) /\ p.next + 1 \in Nat
    BY <1>3, <1>4
  <2>2. QED
    BY <1>1, <1>4, <2>1 DEF PublishRecord
<1> HIDE DEF p, array, q
<1>7. PublishOK(q)
  <2>1. /\ Len(q.called) = q.next - 1
        /\ \A i \in DOMAIN q.called : q.called[i] = q.begun[i]
    <3>1. /\ Len(q.called) = Len(p.called) + 1 /\ q.called[Len(p.called) + 1] = p.begun[p.next]
          /\ DOMAIN q.called = DOMAIN p.called \union {Len(p.called) + 1}
          /\ \A i \in DOMAIN p.called : q.called[i] = p.called[i]
      <4>1. p.begun[p.next] \in Listener
        BY <1>3, <1>4
      <4>2. QED
        BY <1>3, <1>6, <4>1, AppendTo
    <3>2. Len(p.called) + 1 = p.next
      BY <1>2, <1>3 DEF PublishOK
    <3>3. q.next - 1 = p.next
      BY <1>3, <1>6
    <3>4. QED
      BY <1>2, <1>6, <3>1, <3>2, <3>3 DEF PublishOK
  <2>2. QED
    <3>1. q.next \in 1 .. q.length + 1
      BY <1>2, <1>3, <1>6
    <3>2. QED
      BY <1>2, <1>6, <2>1, <3>1 DEF PublishOK
<1>8. /\ publishes' \in Seq(PublishRecord)
      /\ \A n \in DOMAIN publishes' :
           publishes'[n] = q \/ (n \in DOMAIN publishes /\ publishes'[n] = publishes[n])
  <2>1. /\ publishes' \in Seq(PublishRecord)
        /\ DOMAIN publishes' = DOMAIN Front(publishes) \union {Len(Front(publishes)) + 1}
        /\ publishes'[Len(Front(publishes)) + 1] = q
        /\ \A n \in DOMAIN Front(publishes) : publishes'[n] = Front(publishes)[n]
    BY <1>1, <1>5, <1>6, AppendTo
  <2>2. \A n \in DOMAIN Front(publishes) : n \in DOMAIN publishes /\ Front(publishes)[n] = publishes[n]
    BY <1>1
  <2>3. QED
    BY <2>1, <2>2
<1>9. QED
  BY <1>1, <1>7, <1>8, ArraysSame

LEMMA EndStep == ASSUME StreamInv, PublishEnds \/ ListenerThrows PROVE StreamInv'
<1>1. /\ UNCHANGED <<arrays, registered>> /\ publishes' = Front(publishes)
      /\ publishes \in Seq(PublishRecord) /\ publishes # <<>>
  BY DEF PublishEnds, ListenerThrows, StreamInv, PublishesInv
<1>2. /\ publishes' \in Seq(PublishRecord)
      /\ \A n \in DOMAIN publishes' : n \in DOMAIN publishes /\ publishes'[n] = publishes[n]
  BY <1>1, FrontAndLast
<1>3. QED
  BY <1>1, <1>2, ArraysSame

LEMMA CalledIsStart ==
    ASSUME NEW p \in PublishRecord, PublishOK(p)
    PROVE  /\ p.called = SubSeq(p.begun, 1, p.next - 1)
           /\ \A i, j \in DOMAIN p.called : i < j => p.called[i].id < p.called[j].id
<1>1. p.begun \in Seq(Listener) /\ p.called \in Seq(Listener) /\ p.next \in Nat
  BY DEF PublishRecord
<1>2. p.next - 1 \in 0 .. Len(p.begun)
  BY <1>1 DEF PublishOK
<1>3. \A i \in 1 .. p.next - 1 : p.begun[i] \in Listener
  BY <1>1, <1>2
<1>4. /\ SubSeq(p.begun, 1, p.next - 1) \in Seq(Listener)
      /\ Len(SubSeq(p.begun, 1, p.next - 1)) = p.next - 1
      /\ \A i \in 1 .. p.next - 1 : SubSeq(p.begun, 1, p.next - 1)[i] = p.begun[i]
  BY <1>2, <1>3, SubSeqProperties
<1>5. p.called = SubSeq(p.begun, 1, p.next - 1)
  BY <1>1, <1>4, SeqEqual DEF PublishOK
<1>6. DOMAIN p.called \subseteq DOMAIN p.begun
  BY <1>1, <1>2 DEF PublishOK
<1>7. QED
  BY <1>5, <1>6 DEF PublishOK, Ordered

(* A publish calls the listeners there were when it began, each once and   *)
(* in order, for any callbacks and contexts, however they change the list  *)
(* and however deep publishes are within each other (event_stream.ts 34-80).*)
THEOREM PublishesReachAll == StreamSpec => []PublishReachesAll
<1>1. StreamInit => StreamInv
  <2> SUFFICES ASSUME StreamInit PROVE StreamInv
    OBVIOUS
  <2>1. /\ arrays = <<<<>>>> /\ registered = 0 /\ publishes = <<>> /\ registered \in 0 .. MaxListens
    BY EventStreamAssumption DEF StreamInit
  <2>2. <<>> \in Seq(Listener)
    OBVIOUS
  <2>3. ArraysInv
    BY <2>1, <2>2 DEF ArraysInv, Ordered
  <2>4. QED
    BY <2>1, <2>3 DEF StreamInv, PublishesInv
<1>2. StreamInv /\ [StreamNext]_streamVars => StreamInv'
  <2> SUFFICES ASSUME StreamInv, [StreamNext]_streamVars PROVE StreamInv'
    OBVIOUS
  <2>1. CASE UNCHANGED streamVars
    BY <2>1 DEF streamVars, StreamInv, ArraysInv, PublishesInv, PublishOK
  <2>2. CASE StreamNext
    BY <2>2, ListenStep, IgnoreStep, PublishStep, CallStep, EndStep DEF StreamNext
  <2>3. QED
    BY <2>1, <2>2
<1>3. StreamInv => PublishReachesAll
  BY CalledIsStart DEF StreamInv, PublishesInv, PublishReachesAll
<1>4. QED
  BY <1>1, <1>2, <1>3, PTL DEF StreamSpec
=============================================================================
