------------------------------ MODULE HomePage ------------------------------
(***************************************************************************)
(* The auctions of the homepage (AuctionsSectionComponent): the feed is    *)
(* two queries of the platform that run side by side, and what the grid    *)
(* shows is sorted and filtered from their answer by the page itself.      *)
(***************************************************************************)
EXTENDS AuctionLedger, FiniteSets, SequencesExt

CONSTANTS
  Cutoff,       \* two weeks ago
  EndDates,     \* a bound: the end dates there are
  Selects,      \* the filters of the page: year bucket, transmission, body style
  OptionOf,     \* the option of each filter an auction's car falls under, or NoOption
  Rank,         \* where an auction stands by start date and by mileage, ties included
  NoOption      \* no option filters

ASSUME HomeAssumption ==
  /\ IsFiniteSet(Auctions) /\ "unread" \notin Auctions
  /\ Cutoff \in Nat /\ EndDates \subseteq Nat
  /\ Rank \in [{"newly-listed", "lowest-mileage"} -> [Auctions -> Nat]]
  /\ \A a \in Auctions : DOMAIN OptionOf[a] = Selects

VARIABLES
  endDate,      \* of each auction
  cancelled,    \* the auctions closed without a sale by their seller
  feed,         \* the request of the page and what it has read
  activeSort, filters,
  between,      \* the auctions that closed between the two queries (history)
  due           \* those live or recently finished at the second (history)

homeVars == <<endDate, cancelled, feed, activeSort, filters, between, due>>

SortTabs == {"ending-soon", "newly-listed", "no-reserve", "lowest-mileage", "closest-to-me"}

Unread == <<"unread">>

HomeStarts(dates) ==
  /\ endDate = dates /\ cancelled = {}
  /\ feed = [answered |-> FALSE, live |-> Unread, finished |-> Unread]
  /\ activeSort = "ending-soon"
  /\ filters = [s \in Selects |-> NoOption]
  /\ between = {} /\ due = {}

HomeInit == \E dates \in [Auctions -> EndDates] : HomeStarts(dates)

-----------------------------------------------------------------------------
(* The platform                                                             *)

Live == {a \in Auctions : phase[a] = "open"}

\* A bug: the state of the auction is not asked for.
EndedSince == {a \in Auctions : endDate[a] >= Cutoff}

FinishedSince == {a \in Auctions : phase[a] = "closed" /\ a \notin cancelled /\ endDate[a] >= Cutoff}

\* Closed by the cron, its seller or a purchase: SOLD, EXPIRED or CANCELLED; the
\* prices are left out.
AuctionCloses ==
  \E a \in Auctions :
    /\ Close(a) /\ cancelled' \in {cancelled, cancelled \union {a}}
    /\ between' = IF (feed.live = Unread) # (feed.finished = Unread) THEN between \union {a} ELSE between
    /\ UNCHANGED <<endDate, feed, activeSort, filters, due>>

\* ORDER BY: the rows in S, in any order where they tie.
OrderedBy(S, key) ==
  {rows \in [1 .. Cardinality(S) -> S] :
     IsInjective(rows) /\ \A i, j \in DOMAIN rows : i < j => key[rows[i]] <= key[rows[j]]}

NewestFirst == [a \in Auctions |-> -endDate[a]]

\* listFeed: Promise.all of two queries, on two connections.
ReadFeed(query) ==
  /\ feed[query] = Unread
  /\ \E rows \in IF query = "live" THEN OrderedBy(Live, endDate) ELSE OrderedBy(FinishedSince, NewestFirst) :
       feed' = [feed EXCEPT ![query] = rows]
  /\ due' = {a \in Auctions : phase[a] = "open" \/ (endDate[a] >= Cutoff /\ a \notin cancelled)}
  /\ UNCHANGED <<ledgerVars, endDate, cancelled, activeSort, filters, between>>

-----------------------------------------------------------------------------
(* The page                                                                 *)

\* ngOnInit asks once; an answer that fails leaves the grid empty.
FeedAnswered ==
  /\ ~feed.answered /\ feed.live # Unread /\ feed.finished # Unread
  /\ feed' = [feed EXCEPT !.answered = TRUE]
  /\ UNCHANGED <<ledgerVars, endDate, cancelled, activeSort, filters, between, due>>

SelectSort(key) ==
  /\ activeSort' = key
  /\ UNCHANGED <<ledgerVars, endDate, cancelled, feed, filters, between, due>>

Options(s) == {OptionOf[a][s] : a \in Auctions} \union {NoOption}

SelectOption(s) ==
  /\ \E option \in Options(s) : filters' = [filters EXCEPT ![s] = option]
  /\ UNCHANGED <<ledgerVars, endDate, cancelled, feed, activeSort, between, due>>

MatchesFilters(a) == \A s \in Selects : filters[s] \in {NoOption, OptionOf[a][s]}

\* The cards in s that match, sorted by key; sort() leaves those that tie as
\* they are in the feed.
Cards(s, key) ==
  LET matching == {i \in DOMAIN s : MatchesFilters(s[i])}
      Before(i, j) == key[s[i]] < key[s[j]] \/ (key[s[i]] = key[s[j]] /\ i < j)
      Place(i) == Cardinality({j \in matching : Before(j, i)}) + 1
  IN [n \in 1 .. Cardinality(matching) |-> s[CHOOSE i \in matching : Place(i) = n]]

\* What the live auctions are sorted by; "closest-to-me" leaves the order of the feed.
TabKey ==
  CASE activeSort = "ending-soon" -> endDate
    [] activeSort = "closest-to-me" -> [a \in Auctions |-> 0]
    [] OTHER -> Rank[activeSort]

\* auctions(): the live ones as the tab sorts them, then the finished ones.
\* toAuctionCardData gives no card the badge that "no-reserve" looks for.
Grid ==
  IF ~feed.answered \/ activeSort = "no-reserve" THEN <<>>
  ELSE Cards(feed.live, TabKey) \o Cards(feed.finished, NewestFirst)

HomeNext ==
  \/ AuctionCloses
  \/ \E query \in {"live", "finished"} : ReadFeed(query)
  \/ FeedAnswered
  \/ \E key \in SortTabs \ {activeSort} : SelectSort(key)
  \/ \E s \in Selects : SelectOption(s)

-----------------------------------------------------------------------------

\* On every tab but "no-reserve", the grid shows each auction that fits the
\* filters and was live, or recently sold or expired, when the feed was read
\* once, and no other; only one that closed between the two queries of listFeed
\* may be shown twice, live and finished, or not at all.
FeedIsWhole ==
  feed.answered /\ activeSort # "no-reserve" =>
    \A a \in Auctions \ between :
      Cardinality({i \in DOMAIN Grid : Grid[i] = a}) =
        IF a \in due /\ MatchesFilters(a) THEN 1 ELSE 0
=============================================================================
