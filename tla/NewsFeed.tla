------------------------------- MODULE NewsFeed ------------------------------
(***************************************************************************)
(* News: POST /market/news/fetch, and the periodic update that fetches the *)
(* news of every asset and deletes what has expired (modules/market,       *)
(* infrastructure/tasks).                                                  *)
(*                                                                         *)
(* The provider is asked for the stories of the last days.  Each is looked *)
(* up by its address, and by its asset, title and day, and inserted when   *)
(* neither is found; the stories of one asset are one transaction.  The    *)
(* address is unique in the table.                                         *)
(***************************************************************************)
EXTENDS Integers, SequencesExt, MarketAssets

CONSTANTS
  NewsSessions,    \* API threads and worker processes
  Stories,         \* what the provider publishes
  Lists,           \* Lists[a]: the stories it lists under asset a
  ProviderDays,    \* how many days back the provider is asked for
  ExpirationDays,  \* news_expiration_days
  MaxAnswer,       \* bound on the stories of an answer
  MaxDay,          \* bound on the days
  MaxAsked         \* bound on the fetches and updates begun

ASSUME NewsAssumption ==
  /\ Lists \in [Assets -> SUBSET Stories]
  /\ \A story \in Stories :
       {"url", "title", "day", "fits"} = DOMAIN story /\ story.day \in Nat /\ story.fits \in BOOLEAN
  /\ ProviderDays \in Nat
  /\ ExpirationDays \in Nat
  /\ MaxAnswer \in Nat
  /\ MaxDay \in Nat
  /\ MaxAsked \in Nat

VARIABLES
  day,       \* today
  news,      \* the committed news table: of each row its asset, url, title and day
  nsession,  \* nsession[s]: what session s is doing
  asked,     \* fetches and updates begun
  swept,     \* history: the cutoff of the last update that returned
  stored,    \* history: the addresses committed so far
  again,     \* history: those committed more than once
  cut        \* history: the updates cut short: did they overlap another request, was
             \* there a story that did not fit

newsVars == <<day, news, nsession, asked, swept, stored, again, cut>>
newsHistories == <<swept, stored, again, cut>>

NewsIdle == [pc |-> "idle"]

NewsInit ==
  /\ day = 0
  /\ news = {}
  /\ nsession = [s \in NewsSessions |-> NewsIdle]
  /\ asked = 0
  /\ swept = 0
  /\ stored = {}
  /\ again = {}
  /\ cut = {}

-----------------------------------------------------------------------------
NewsAt(s, pc) == nsession[s].pc = pc

Working == {s \in NewsSessions : nsession[s] # NewsIdle}

NewsEnd(s) == nsession' = [nsession EXCEPT ![s] = NewsIdle]

\* A fetch of asset a; the assets in todo are left to update.
Fetch(a, update, todo, since, overlaps) ==
  [pc |-> "ask", update |-> update, asset |-> a, todo |-> todo, queue |-> <<>>, mine |-> {},
   since |-> since, overlaps |-> overlaps]

\* Request work of s begins; those in progress now overlap another.
NewsBegin(s, work) ==
  nsession' = [r \in NewsSessions |->
    IF r = s THEN work
    ELSE IF r \in Working THEN [nsession[r] EXCEPT !.overlaps = TRUE]
    ELSE NewsIdle]

\* An INSERT that failed ends an update too: to log the symbol of the asset, the handler
\* reads it before it rolls back, and raises from the loop.
NewsFails(s, misfit) ==
  /\ NewsEnd(s)
  /\ cut' = IF nsession[s].update
            THEN cut \cup {[overlaps |-> nsession[s].overlaps, misfit |-> misfit]}
            ELSE cut
  /\ UNCHANGED <<active, day, news, asked, swept, stored, again>>

Row(a, story) == [asset |-> a, url |-> story.url, title |-> story.title, day |-> story.day]

SameStory(row, other) ==
  \/ row.url = other.url
  \/ row.asset = other.asset /\ row.title = other.title /\ row.day = other.day

Addresses(rows) == {row.url : row \in rows}
-----------------------------------------------------------------------------
(***************************************************************************)
(* Fetching the news of one asset, and of all of them                      *)
(***************************************************************************)
MayAsk(s) == NewsAt(s, "idle") /\ asked < MaxAsked

\* The asset must be active.
BeginFetchNews(s) ==
  \E a \in Assets :
    /\ MayAsk(s)
    /\ asked' = asked + 1
    /\ IF a \in active THEN NewsBegin(s, Fetch(a, FALSE, {}, day, Working # {}))
       ELSE UNCHANGED nsession
    /\ UNCHANGED <<active, day, news, newsHistories>>

\* update_news_feed lists the active assets, and finds the first still loaded; when none is
\* active it comes straight to the DELETE.
BeginUpdateNews(s) ==
  /\ MayAsk(s)
  /\ asked' = asked + 1
  /\ \/ \E a \in active :
          NewsBegin(s, Fetch(a, TRUE, active \ {a}, day, Working # {}))
     \/ /\ active = {}
        /\ \E any \in Assets :
             NewsBegin(s, [Fetch(any, TRUE, {}, day, Working # {}) EXCEPT !.pc = "next-asset"])
  /\ UNCHANGED <<active, day, news, newsHistories>>

\* The other assets are read again in their turn: one switched off meanwhile is counted
\* as failed.
NextAsset(s) ==
  /\ NewsAt(s, "next-asset")
  /\ \E a \in nsession[s].todo :
       nsession' = [nsession EXCEPT
         ![s].pc = IF a \in active THEN "ask" ELSE "next-asset",
         ![s].asset = a, ![s].todo = @ \ {a}]
  /\ UNCHANGED <<active, day, news, asked, newsHistories>>

\* The stories of the last days, in any order, the same one more than once; none when
\* the provider fails or has no news for the type of the asset.
AskNews(s) ==
  LET recent == {story \in Lists[nsession[s].asset] : story.day \in day - ProviderDays .. day}
  IN  /\ NewsAt(s, "ask")
      /\ \E answer \in SeqOf(recent, MaxAnswer) :
           nsession' = [nsession EXCEPT ![s].pc = "next-story", ![s].queue = answer]
      /\ UNCHANGED <<active, day, news, asked, newsHistories>>

\* A slip: what the session itself has inserted is not looked at.
CheckCommitted(s) ==
  LET me == nsession[s] IN
  /\ NewsAt(s, "next-story")
  /\ me.queue # <<>>
  /\ IF \E row \in news : SameStory(row, Row(me.asset, Head(me.queue)))
     THEN nsession' = [nsession EXCEPT ![s].queue = Tail(@)]
     ELSE nsession' = [nsession EXCEPT ![s].pc = "insert-story"]
  /\ UNCHANGED <<active, day, news, asked, newsHistories>>

\* A story that is there, committed or inserted by this session, is skipped.
CheckStory(s) ==
  LET me == nsession[s] IN
  /\ NewsAt(s, "next-story")
  /\ me.queue # <<>>
  /\ IF \E row \in news \cup me.mine : SameStory(row, Row(me.asset, Head(me.queue)))
     THEN nsession' = [nsession EXCEPT ![s].queue = Tail(@)]
     ELSE nsession' = [nsession EXCEPT ![s].pc = "insert-story"]
  /\ UNCHANGED <<active, day, news, asked, newsHistories>>

\* Session s is about to insert an address that r inserted and has not committed.
WaitsFor(s, r) ==
  /\ s # r
  /\ NewsAt(s, "insert-story")
  /\ r \in Working
  /\ Head(nsession[s].queue).url \in Addresses(nsession[r].mine)

InsertStory(s) ==
  LET me    == nsession[s]
      story == Head(me.queue)
  IN  /\ NewsAt(s, "insert-story")
      /\ \A r \in NewsSessions : ~ WaitsFor(s, r)
      /\ IF story.fits /\ story.url \notin Addresses(news \cup me.mine)
         THEN /\ nsession' = [nsession EXCEPT ![s].pc = "next-story", ![s].queue = Tail(@),
                                              ![s].mine = @ \cup {Row(me.asset, story)}]
              /\ UNCHANGED <<active, day, news, asked, newsHistories>>
         ELSE NewsFails(s, ~ story.fits)

\* PostgreSQL finds sessions that wait for each other, and fails one of them.
BreakDeadlock(s) ==
  /\ \E waiting \in SUBSET NewsSessions :
       s \in waiting /\ \A r \in waiting : \E q \in waiting : WaitsFor(r, q)
  /\ NewsFails(s, FALSE)

CommitNews(s) ==
  LET me == nsession[s] IN
  /\ NewsAt(s, "next-story")
  /\ me.queue = <<>>
  /\ news' = news \cup me.mine
  /\ stored' = stored \cup Addresses(me.mine)
  /\ again' = again \cup (Addresses(me.mine) \cap stored)
  /\ IF me.update
     THEN nsession' = [nsession EXCEPT ![s].pc = "next-asset", ![s].mine = {}]
     ELSE NewsEnd(s)
  /\ UNCHANGED <<active, day, asked, swept, cut>>

-----------------------------------------------------------------------------
(***************************************************************************)
(* Deleting what has expired                                               *)
(***************************************************************************)
\* A slip: news are kept for as long as the provider is asked for.
CutoffEarly == day - ProviderDays

Cutoff == day - ExpirationDays

\* The DELETE after the last asset, of the rows it finds committed.
DeleteExpired(s) ==
  /\ NewsAt(s, "next-asset")
  /\ nsession[s].todo = {}
  /\ nsession' = [nsession EXCEPT ![s] =
       [pc |-> "commit-delete", cutoff |-> Cutoff, mine |-> {}, since |-> @.since,
        overlaps |-> @.overlaps, doomed |-> {row \in news : row.day < Cutoff}]]
  /\ UNCHANGED <<active, day, news, asked, newsHistories>>

\* A slip: the session is closed without a commit.
CommitDeleteNever(s) ==
  /\ NewsAt(s, "commit-delete")
  /\ swept' = IF nsession[s].cutoff > swept THEN nsession[s].cutoff ELSE swept
  /\ NewsEnd(s)
  /\ UNCHANGED <<active, day, news, asked, stored, again, cut>>

CommitDelete(s) ==
  /\ NewsAt(s, "commit-delete")
  /\ news' = news \ nsession[s].doomed
  /\ swept' = IF nsession[s].cutoff > swept THEN nsession[s].cutoff ELSE swept
  /\ NewsEnd(s)
  /\ UNCHANGED <<active, day, asked, stored, again, cut>>

-----------------------------------------------------------------------------
\* The process of a session dies; what it had not committed is gone.
NewsSessionDies(s) ==
  /\ s \in Working
  /\ NewsEnd(s)
  /\ UNCHANGED <<active, day, news, asked, newsHistories>>

\* Midnight.  A request sees at most one.
NextDay ==
  /\ day < MaxDay
  /\ \A s \in Working : nsession[s].since = day
  /\ day' = day + 1
  /\ UNCHANGED <<active, news, nsession, asked, newsHistories>>

NewsNext ==
  \/ \E s \in NewsSessions :
       \/ BeginFetchNews(s) \/ BeginUpdateNews(s)
       \/ NextAsset(s) \/ AskNews(s) \/ CheckStory(s) \/ InsertStory(s) \/ BreakDeadlock(s)
       \/ CommitNews(s) \/ DeleteExpired(s) \/ CommitDelete(s)
       \/ NewsSessionDies(s)
  \/ NextDay

NewsSpec ==
  /\ AssetsInit /\ NewsInit
  /\ [][NewsNext \/ (UpdateAsset /\ UNCHANGED newsVars)]_<<active, newsVars>>

-----------------------------------------------------------------------------
\* The provider is asked for less than the table keeps: 7 days (finnhub/client.py:60) of
\* 30.  NEWS_EXPIRATION_DAYS is any integer (settings.py:51): with 7 or less what is
\* deleted is fetched again, and the next two properties are lost.
KeepsLonger == ProviderDays < ExpirationDays

\* No story is stored a second time, not even after it was deleted as expired: what is
\* looked up, the unique address, and a provider that is asked for less than the table
\* keeps (finnhub/client.py:60) see to it together.
StoriesAreStoredOnce == KeepsLonger => again = {}

\* Once an update has returned, nothing older than its cutoff is in the table again
\* (market_service.py:142), whatever fetches were in flight over midnight.
SweptStaysClean == KeepsLonger => \A row \in news : row.day >= swept

\* An update of the news is cut short, with the assets after the failing one not asked
\* and nothing deleted, only when it overlaps another fetch or update, or a story does
\* not fit its column: an answer with a story twice does not do it
\* (market_service.py:87).
OnlyOverlapCutsShort == \A c \in cut : c.overlaps \/ c.misfit
=============================================================================
