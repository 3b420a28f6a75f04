# Verifying EuroCars

EuroCars is a used-car auction platform of three programs: `euro-auth` (accounts
and tokens), `euro-platform-api` (ads, auctions, bids; NestJS, TypeORM,
PostgreSQL, socket.io) and `euro-platform-front` (Angular). This directory holds
TLA+ models of its behaviour, the TLC configurations that check them and the
TLAPS proofs of the properties that matter most. Paths are relative to
`src/euro-platform-api/src/` unless they start otherwise.

## 1. The system

| Component | State | Operations | Talks to |
|---|---|---|---|
| Bidding (`auction/bid.service.ts`) | tables `auctions`, `bids` | `placeBid`, `buyNow`, `listBids` | PostgreSQL (SERIALIZABLE), notifications, gateway, euro-auth for names |
| Auction lifecycle (`auction/auction.service.ts`, `scheduler/`) | table `auctions` | `launch`, `endManually`, `closeExpired` every minute; feed and search | PostgreSQL (no transaction), notifications, gateway |
| Auction entity (`auction/entities/auction.entity.ts`) | one loaded row | `registerBid`, `sell`, `expire`, `cancel`, `finalize` | called by the two services |
| Gateway (`auction/auction.gateway.ts`) | socket rooms | join, leave, `bidPlaced`, `auctionClosed` | browsers |
| Notifications (`notification/`) | none (a log) | outbid, closed, ad validated | called by the services |
| Ads (`ad/ad.service.ts`, `ad.entity.ts`) | tables `ads`, `ad_photos`, `ad_messages` | create, update, updateContent, submit, validate, reject, photos, messages | vehicle factory, storage, notifications |
| Storage (`storage/`) | the GCS bucket | signed upload URLs, deletion | ads, browsers |
| Vehicle catalog (`vehicle/`) | makes, models, trims, their engines, vehicles | find-or-create, catalog queries, factory | called by ads |
| Catalog seeds (`vehicle/seed/`) | the same tables | three scripts, run by hand, again and again | PostgreSQL (no transaction), Wikidata |
| Migrations (`migrations/`) | the schema and its rows | up at boot, down by an operator | PostgreSQL (one transaction) |
| Commission (`auction/commission.service.ts` and its copy in the front) | none | `calculate` | bids, launch page |
| Platform auth (`auth/`) | none | guards, validation of each request | euro-auth over HTTP |
| euro-auth | table `users` | register, login, validate, token version | platform API |
| Front session (`src/euro-platform-front/src/app/core/auth`) | `localStorage`; user, dialogs, timer of each tab | login, logout, reload, expiry warning, 401 interceptor | platform API, euro-auth |
| Auction page and bid panel (`auction-detail/` of the front) | detail, room, bid | load, join, events, bid, buy now, announcement | platform API, socket |
| Home and browse pages (`home/`, `auctions-list/`) | feed; filters, options, results | load, sort, filter; search | platform API |
| Create-ad page (`ad/create-ad/`) | form, lists, photo rows, saves | cascade, VIN, load, uploads, six save buttons | platform API, bucket |
| Back office (`admin/`) | lists, reject form, threads | validate, reject, reply | platform API |

The handlers of one Node.js process interleave at every `await`; several
browsers, the cron and restarts of the process act at the same time. What is
hard about the code is therefore

* **interleaving**: a decision taken on a loaded row, saved after other handlers
  changed it (`endManually`, `closeExpired`, `updateAd`); overlapping cron ticks;
* **transactions and retries**: `runSerializable` repeats a callback whose
  variables outlive the attempt;
* **partial failure and restart**: work after a commit (count, notification,
  event) that never happens; a tick that stops half way through its list;
* **ordering**: events computed after the commit, answers of a browser's requests
  that arrive late or overtake each other, lists that fit an earlier choice;
* **state kept twice**: a token in `localStorage` and a user in each tab, a timer
  and the session it belongs to, lists loaded once and patched afterwards;
* **repetition**: scripts and migrations run again over what they left behind.

What makes each part correct: the bids of an auction are those of one atomic
auctioneer; an auction opens once and closes once; a sale is paid for; people
displaced are told, and only they; every expired auction closes and its room
hears of it (auctions). An ad's approved content is the content reviewed; at most
five active ads per seller; a photo row refers to its own object (ads). One
account per email; a session ends for a reason and is warned of its end (auth and
session). What a page shows once nothing is under way is what the server has, or
answers the last question; what is saved is what was chosen (front). The catalog
holds what the seeds promise and a car says what its seller said (operations).

`PROJECT.json` lists every component with its status and every hazard at its line.

## 2. Modules

```
AuctionRules          decisions of the Auction entity (pure)
  AuctionStore        tables, notifications, events: the state the services share
    BidService        placeBid / buyNow / runSerializable, step by step
    AuctionService    launch / endManually / closeExpired / save(), step by step
      AuctionHouse    both services, clock, crashes: the composed specification
        MCAuctionHouse        finite instances for TLC
        AuctionHouseProofs    types, inductive invariant, refinement; the premium
          AuctionCloseProofs    launches, closes, sales; notices and events; when a
                                closed state is final
AuctionLedger         what the services promise: the abstract specification

AdStore               ads, ad_photos, ad_messages; the Ad entity; what save() writes
  AdService           the calls on an ad and its thread, step by step
  AdPhotos            upload and deletion of a photo, step by step
    AdModeration      the composed specification
      MCAdModeration        finite instances for TLC
      AdModerationProofs    type correctness, the cap
        AdSafetyProofs      messages; uploads and refinement, where no two things
                            happen to one ad at once
AdLifecycle           what the Ad entity promises: the abstract specification

Commission            the premium (pure); uses AuctionRules

Accounts              euro-auth, its table and tokens, and the platform's guards
  Session             tabs: dialogs, timers, interceptor, over one localStorage
    MCSession             finite instance for TLC
    SessionProofs         inductive invariant and all five properties

AuctionLedger
  AuctionPage         the auction page, its socket and panel, over the ledger
  HomePage            the feed of the homepage, over the ledger
SearchPage            the browse page
AdForm                the vehicle part of the create-ad page
AdSaving              its save buttons and uploads
  FrontPages          the routes: one page per behaviour
    MCPages               finite instance for TLC
    FrontPagesProofs      browse page, create-ad page, homepage
    AuctionPageProofs     the auction page

AdLifecycle
  BackOffice          the back office, other admins and the seller
VehicleCatalog        find-or-create by several writers
  CatalogSeeds        the three scripts next to sellers
Migrations            the migrations that move rows
  Operations          one of the three per behaviour
    MCOperations          finite instance for TLC
    OperationsProofs      an inductive invariant for each of the three
```

The pages are modelled over the *abstract* specifications: `AuctionPage` and
`HomePage` act on `AuctionLedger`, `BackOffice` on `AdLifecycle`. `AuctionHouse` is
proved to implement the first, and calls that do not save one ad at the same time are
proved to implement the second, so what a page sees of the server is what the services do, with the
transactions and saves inside them abstracted to one step each. What the refinements
leave out is in section 5: a stale save that reopens nothing but changes how an
auction closed, and overlapping calls on one ad.

`launch` reads whether an ad is `VALIDATED`; `AuctionService` takes that as given.
`FrontPages` and `Operations` put parts that do not read each other's state under
one specification; a behaviour chooses one part when it starts. They share runs,
not state.

### From code to state

* `row[a]` is the `auctions` row of ad `a`: the three columns that change (`state`,
  `current_highest_bid`, `closed_at`) and a version. An ad has at most one auction
  (`UNIQUE ("adId")`), so an auction is named by its ad and an uninserted row is
  `ABSENT`. `terms[a]` holds the reserve and buy-now prices.
* `version` is not a column. It is PostgreSQL's row version, needed to say when a
  SERIALIZABLE transaction must fail: its snapshot's version of the row it updates
  is gone.
* `bids[a]` is the table `bids` in insertion order. The stored commission is a
  function of the amount and left out. `ended` is the set of auctions whose
  `end_date` is past: the code never asks more of a date than that.
* `notices` is what `NotificationService` was told; `feed[a]` what was emitted to
  the room of `a`, in order.
* `ads[a]` is a row of `ads` with the columns a handler may change, in three
  groups: `status`; `core`, the fundamentals (title, condition, location,
  vehicle); `content`, the rest of the text; and `reason`, `rejection_message`.
  What a group says is a member of `Texts`, since only who changes it and when
  matters.
* `photo[p]` is the `ad_photos` row of file `p`, with the object key its URL
  names; `bucket[k]` is the file stored under key `k`; `thread[a]` the table
  `ad_messages` by ad. `told` is what `notifyAdValidated` was called with;
  `rejected` is a history variable and `faults` counts failures.
* `req[r]` is one `placeBid` or `buyNow` call between two awaits: its arguments,
  the snapshot of its transaction, `previousBidderId`, the attempt, the count.
  `task[w]` is one launch, manual end or cron tick: the loaded entity, the columns
  `save` will write, and the rest of the tick's list. In the ad modules `task[h]`
  is one `AdService` call, with its entity and the photos loaded along with it, and
  `job[p]` is where file `p` is on its way into the bucket and onto an ad.

* Accounts and tabs: `version[e]` is the row of an email with its token version, a
  token is a record of its payload; `stored` is the key in `localStorage`, and
  `user`, `shown`, `notice`, `timers` are the signals and pending timeouts of each
  tab. `signin`, `signup` and `call` are what a tab has under way. `warned`, `writer`,
  `welcomed` and `outages` are history.
* Auction page: `owed` are the events a handler has still to emit after its commit,
  `room`, `up` and `down` the socket, `load[n]` the n-th reload with the two reads it
  consists of, `detail` what is shown, `bid` the panel's call, `excuse` the first thing
  that went wrong on the way.
* Browse page: `selected` and `offered` are the filters and the lists, `requests` those
  under way. A search is known by its filters: `results` is the filters it answers.
* Create-ad page: `form` holds the vehicle controls and their lists, with one figure for
  the seven mechanical ones and `prefill`, what the form last wrote there; `asks` the lists
  and VIN lookups under way, `loadingAd` the await `loadForEdit` is at. `form.origin`, who
  wrote the figure, and `misled`, that something was picked from the list of another choice
  or a load was cut short, are history. In `AdSaving` a file is the number of its pick,
  `rows` the photo rows, `save[b]` what button `b` is doing, `ads` the seller's ads with
  their photos: the file, the mark as cover and the place (`sortOrder`) sent with it.
  `Galleries` are the orders in which the pages may show them.
* Back office: `pendingAds` and `validatedAds` are the lists of the page, `calls` what it has
  under way, each with the server's answer once it is given; `decided`, `corrected` and
  `relisted` are history of what others did to an ad since a list was read.
* Catalog: a row of any of the four tables is the sequence of names from its make to
  itself; the unique indexes make it one. `job[w]` is what is left of a writer's walk
  down the path, each stage with the way it looks names up (exactly, or with `ILike`).
* Migrations: `applied` is the last migration, `vehicle`, `trimRow`, `powertrain` the rows
  it moves values between, `told` what each seller said. `fiscal` is the column
  `fiscal_power`, `extras` stands for `number_of_seats` and `crit_air`, which the migrations
  treat alike. `overwritten` is history: the fields of cars a migration had nowhere to keep.

### From code to actions

A `placeBid` call is `PlaceBid` (the request arrives), `PlaceBidReads` (the
queries and checks of the transaction, all on one snapshot), `PlaceBidCommits`
or `SerializationFailure`, `NotifyOutbid`, `CountBids`, `EmitBidPlaced`. A
`buyNow` has the same shape and ends with `EmitSold`. The reads are one step
because the snapshot makes them one. Update, insert and commit are one step
because the row lock the update takes is held until the commit: a writer that
comes second waits, and then fails. A serialization failure is always possible:
PostgreSQL also aborts transactions that would have been harmless.

`endManually` and a tick load entities (`EndManually`, `CloseExpired`,
`NextExpired`), and `save()` is two steps, as TypeORM performs it outside a
transaction: `SaveSelects` compares the entity with the row of that moment and
`SaveUpdates` writes the columns that differed, whatever the row has become.
`Announce` is the notification and the event. `LaunchChecks` and `LaunchInserts`
are the two halves of `launch`. `Crash` ends all calls; `CountFails` and
`SaveFails` are a rejected query.

The calls of `AdService` arrive (`CreateAd`, `UpdateAd`, `UpdateContent`,
`SubmitAd`, `ValidateAd`, `RejectAd`, `AddMessage`): the load and the guards are
one step, since nothing awaits between them. `createAd` and `updateAd` await the
vehicle factory before they save; the others save at once, which is an await too.
`SaveSelects` and `SaveUpdates` are the two halves of `save()`, as above; as the ad
is loaded with its photos, `save()` also takes the foreign key from photos the
loaded array does not hold and gives it back to those it holds (`Reattached`).
`NotifyValidated` and `SaveMessage` follow. A photo goes through
`RequestUploadUrl`, `CountPhotos`, `PutObject`, `AddPhoto`, `InsertPhoto`, and
`DeletePhoto`, `FindPhoto`, `RemovePhoto`, `DeleteObject`.

A handler of the front is one step up to each `await`, and the rest of it another, with
whatever else happened in between: `LoadAuction`, `ReadRow`, `ReadBids`, `LoadAnswered`,
`LiveAnswered` are one `loadAuction`; `SendCall`, `CallServed`, `CallRefused` one call
through the interceptor; `Click`, `Persists`, `TakesFile`, `Registers`, `Ends` one save,
with `UploadFails` and `SaveFails` for every call that is refused, fails, or succeeds
with its answer lost. Angular's `valueChanges` listeners run inside the assignment that
sets them off, so `MakeSet`, `ModelSet`, `FuelSet` and `TrimSet` are functions applied
within one step, including the events that `enable()` and `disable()` emit.
A seed script or a seller walks the catalog by `FindsRow`, `FindsNothing` and
`Inserts`; `StageFails` is the unique index or the connection. `Upgrade` applies all
pending migrations at once, because TypeORM wraps them in one transaction; `Revert`
takes back one.

`OneClient = TRUE` restricts the calls to those of one client that awaits every
answer before it goes on, as `uploadPendingPhotos` and the save of the create-ad
page do. Whoever calls the API from two tabs is outside it: then two uploads get
the same key without any deletion, and saves are stale.

## 3. What is checked

Amounts are chosen around the code's own constants: 400 is below the smallest
opening bid of 500; 600 is the reserve. `seller` owns every ad, `b1` and `b2` bid (the
seller tries to, too). Bidders, requests and managers are symmetric in runs without
liveness. All constants of a run are in its `.cfg`.

| Run | Instance | Properties | What it shows |
|---|---|---|---|
| `bidding` | 1 auction, 2 racing requests, 1 manager | `TypeOK`, `HighestIsLastBid`, `RoomHasEveryBid`, `ImplementsLedger` | every interleaving of two transactions with three attempts each |
| `outbidding` | 2 requests, 3 amounts, no buy-now | `OutbidNoticesAreRight`, `OutbidBiddersAreTold` | `previousBidderId` never comes from an aborted attempt |
| `closing` | 1 request, 2 managers, 1 tick, two kinds of terms | `SoldIsBacked`, `AnnouncedCloseEndsBidding`, `NeverRelaunched`, `ImplementsLedger` | launches and stale saves against bids and purchases |
| `cron` | 2 auctions, 2 overlapping ticks, 1 fault | `ExpiredAuctionsClose` | a tick that fails half way is made up for |
| `progress` | 1 request, 1 manager, 1 tick, 1 fault | `RequestsComplete`, `ClosesAreAnnounced` | nothing hangs |
| `moderation` | 1 ad, 2 overlapping calls, seller and admin | `TypeOK`, `ReasonIsInThread`, `ValidationIsTold` | stale saves never separate a decision from what tells the seller of it |
| `oneclient` | 1 ad, 3 photos, 2 texts, one client, 1 fault | `RowsShowTheirFiles`, `ImplementsLifecycle` | without overlap the calls implement the atomic lifecycle, and uploads do not collide |
| `adcap` | 3 ads, cap 1, 2 overlapping calls | `CapOvershootIsBounded` | how far racing `createAd` calls can pass the cap |
| `session` | 2 tabs, 1 email, clock to 3 | `OneAccountPerEmail`, `WarningIsArmed`, `LastWriterShowsStored`, `WarningsComeInTime`, `SessionsEndForAReason` | registrations race, timers outlive nothing, no 401 ends a session that deserved none |
| `pages` | 5 routes, see below | `QuietPageIsCurrent`, `RefusalsMeanStalePages`, `AnnouncedWinnerWon`, `FeedIsWhole`, `ResultsAnswerTheLastSearch`, `OptionsFitTheSelection`, `CascadeFits`, `FiguresFitTheFinition`, `LoadShowsTheAd`, `PhotosAsChosen` | what pages show and save while answers, events and clicks cross |
| `operations` | 3 parts, see below | `OwnStepsShowOnce`, `ValidatedAsSeen`, `TwinsComeFromRaces`, `SeedsFillGaps`, `RerunAddsNothing`, `CarsShowWhatWasTold` | the back office, the seeds and the migrations |
| `final` | violation | `ClosedStateIsFinal` | a purchase is overwritten by a stale save |

**Why the bounds are enough.** Every conflict in the code is between two
transactions, or between a transaction and one save, or two saves, on one row;
one auction with two requests, or one request with a manager and a tick, contains
each of them. Two auctions matter only where a list is processed (`cron`). Three
attempts are the code's own bound. The state space is finite without further
bounds: bids increase until the amounts run out, and an auction goes LIVE once.
`MaxFaults` bounds crashes and failed queries; the
safety runs of the auctions have none, since a crash or a failure there only drops a
call and frees its handler (the theorems below hold for any number of them).

In the ad runs, two calls and one ad contain every conflict of a load with a save;
the cap needs one ad more than cap plus calls allow (three, so that an overshoot by
two would show). Three photos are the least for a key to be given twice: two rows,
a deletion, and a third upload. Two texts tell an old reason or content from a new
one. `IdsLeft` keeps inserts within the ids of `Ads`. The deadlock check is on:
every state of an ad allows a message or another call.

In `session`, two tabs contain every conflict over the one `localStorage`; the lengths
keep the order of the code's own (lead < short life < long life, and one chunk of the
timeout less than the long life), so that a timer is re-armed, outlived and replaced.
`RegistrationOpen`, `NoneUnderWay` and `FaultsLeft` keep registrations before sessions,
one login and one call at a time, and an outage or a revocation but not both.

In `pages`, the auction page has one busy auction and one to navigate to, two amounts
(so a bid can be overtaken and a price be too low) and three reloads: the first, one for
an event and one that overtakes it. The homepage has two auctions with end dates before,
at and after the cutoff, equal ones included. The browse page has two makes, a model each and four requests:
two searches that cross and two lists that cross. The form has two makes with a model each, one of
them with two finitions, of one engine and of two; three lists or VINs asked for
and two loads, of an ad whose figure is not the one of its finition in the catalog. So a list
can fit an earlier make, and a figure an earlier finition. Saving has two files, two clicks,
one failure, and ads that have a photo from an earlier visit, marked as the cover or not;
photos are changed until the last of the two saves begins. `AuctionPageNext` and
`SearchNext` stop at the first thing that goes wrong (`excuse`, `mishap`), since their
properties say nothing after it; so `pages` has no deadlock check.

In `operations`, two ads and two calls of the page let two of them cross. The ads start
in any status; one of them is worked on by others (`Contested`), for two steps: a revision
between the two lists, a correction under review, a rejection and an edit. (The longer
stories are beyond this run's time, not its properties: with three such steps TLC finds no error
either, in 3.4 million states, and the theorems have no bound.) The catalog has names that differ by case at
three levels, three script runs, one failing query and one seller. Two upgrades with
reverts in between take data down and up again; of the four cars, an old and a new one
share a finition and an old and a new one have none, and the papers of the new ones differ in
whether their fiscal power is the one the migration would estimate. The bounds on runs and
upgrades end behaviours, so the deadlock check is off.

**Fairness** (`FairSpec`): weak fairness of each request's and task's own steps,
since the event loop resumes a handler whose query returned; and of `CloseExpired`,
since the cron fires every minute. There is none on arrivals, on the clock, on
faults, or on a transaction succeeding: `RequestsComplete` holds because the third
serialization failure ends the request. `cron` switches the deadlock check off:
with no bidders the system rests when every auction is closed.

There is no fairness on the pages, the session or the operations: nobody need click,
and answers may be lost; what they promise is what holds once nothing is under way.

**Disagreements found.** `ClosedStateIsFinal` states what `auction.entity.ts:20` says
("State transitions are guarded here"); the run `final` shows `endManually` or
`closeExpired` turning a SOLD auction into CANCELLED or EXPIRED and clearing its
`closed_at`, because they save an entity loaded before the purchase. The models contain
the following as well, each as the code has it; properties next to them state the
exception.

* `buyNow` never compares its price with the current bid; `auction.mappers.ts:111` of the
  front reads "each bid must exceed the previous (server-enforced)".
* The cap of active ads (`ad/ad.service.ts:22`) is passed by submitting a rejected ad
  again, and by two calls at once (`CapOvershootIsBounded` says how far).
* An upload after a deletion gets the object key of another photo of the ad and
  overwrites its file, although `ad.service.ts:246` calls the row the source of truth.
* Overlapping calls take an ad along transitions the entity forbids; photo changes do
  not send a VALIDATED ad to review; a manually ended auction has an `endDate` in the
  future and no `closed_at`.
* Auction page: nothing joins the room again after a reconnection; events between the
  load and the join are missed; an older reload may overwrite a newer one; after a
  change of auction and back, a reload may announce the winner of one while the page shows
  the other; the panel's minimum for a first bid is a step above the reserve.
* Home page: an auction that closes between the two queries of the feed is shown twice
  or not at all; a CANCELLED one is never shown; the tab "no-reserve" is always empty, as
  `toAuctionCardData` sets no badge.
* Browse page: the last *answer* is shown, not the answer to the last search; a model
  can be chosen from the list of the previous make.
* Create-ad page: a typed value that equals the last prefill is replaced by the next one,
  against the comment at `create-ad.component.ts:392-394`, while a figure that was loaded
  with an ad, or typed beside another finition, stays when the finition changes; a VIN
  recognized for a VALIDATED ad enables the control of the model again; loading a VALIDATED ad runs
  the very listeners its comment (523-525) says it avoids, as `disable()` emits, and empties
  the vehicle controls; a save that fails after it created the ad creates it again when
  repeated; two save buttons can work at once; validating from the page while an admin's
  corrections are being saved loses them.
* Photos: each visit sends their places counted from 0 (`create-ad.component.ts:702`), so the
  auction page shows those added to an ad between its earlier ones; an earlier cover stays one
  when another is chosen, and which of the two comes first is up to the database.
* Back office: confirming a rejection closes the form of whatever ad it is open for by
  then; a reply sent while the thread is loading is shown twice or not at all; an ad that
  was rejected elsewhere, edited and submitted again is validated unseen; so is the
  correction another admin makes to an ad under review (`AdService.updateAd`); an ad its seller sends back
  to review between the reading of the two lists is in both, and shown as validated twice
  once it is validated.
* Migrations: reverting the second loses the fiscal power, the seats and the vignette a seller
  gave, and upgrading again invents a fiscal power; it may take the doors of a finition from
  any of its cars, those included that an edited ad has left behind.
* Seeds: names are compared exactly, where sellers and `seed:powertrains` ignore case, so
  "fill gaps rather than duplicating" (the repository's `README.md:171-172`) holds but for
  spellings.
* `createVehicle` does not check that a model belongs to its make or a trim to its model.

## 4. What is proved

Each theorem holds for every value of the constants that satisfies the assumptions of
its modules: any number of auctions, users, ads, photos, calls, ticks, tabs, reloads,
names, scripts and cars, and any bound on faults. A theorem with a property in the
second column states, for every instance, what a run checks on a small one.

| Theorem | Property |
|---|---|
| *AuctionHouseProofs, AuctionCloseProofs* | |
| `TypeCorrect`, `HighestBidCorrect` | `TypeOK`, `HighestIsLastBid` |
| `LedgerImplemented` | `ImplementsLedger`: the service refines the atomic ledger |
| `LaunchedOnce`, `CloseEndsBidding` | `NeverRelaunched`, `AnnouncedCloseEndsBidding` |
| `SalesAreBacked` | `SoldIsBacked` |
| `OutbidNoticesCorrect`, `OutbidBiddersCorrect` | `OutbidNoticesAreRight`, `OutbidBiddersAreTold` |
| `RoomHearsOfBids` | `RoomHasEveryBid` |
| `ClosedStateIsFinalApart`, under `OneCloserAnAuction` | `ClosedStateIsFinal`, which without it is false |
| `PremiumIsBounded`, `HigherBidCostsMore`, `FirstBidClearsThePremium` | facts about the premium, of no run |
| *AdModerationProofs, AdSafetyProofs* | |
| `AdTypesCorrect` | `TypeOK` (ads) |
| `CapOvershootBounded`, `ReasonReachesThread` | `CapOvershootIsBounded`, `ReasonIsInThread` |
| `CapHolds`, under `Creators(n)` | the cap, overshot by less than n; of no run |
| `ValidationsAreTold` | `ValidationIsTold` |
| `UploadsKeepApartPerAd`, under `OneThingAnAd` | `RowsShowTheirFiles` |
| `PhotosKeepTheirAds`, under `OneThingAnAd` | no save moves a photo; of no run |
| `LifecyclePerAd`, under `OneSaveAnAd` | `ImplementsLifecycle`: the handlers refine the lifecycle of an ad |
| `UploadsKeepApart`, `LifecycleIsImplemented`, under `OneClient` | the same for one client |
| *SessionProofs* | |
| `SessionTypesCorrect`, `AccountsAreUnique` | types, of no run; `OneAccountPerEmail` |
| `WarningAlwaysArmed`, `WarningsNeverEarly` | `WarningIsArmed`, `WarningsComeInTime` |
| `LastWriterCorrect`, `SessionsEndFounded` | `LastWriterShowsStored`, `SessionsEndForAReason` |
| *FrontPagesProofs, AuctionPageProofs* | |
| `ResultsCorrect`, `OptionsCorrect` | `ResultsAnswerTheLastSearch`, `OptionsFitTheSelection` |
| `CascadeCorrect`, `LoadCorrect`, `FiguresCorrect` | `CascadeFits`, `LoadShowsTheAd`, `FiguresFitTheFinition` |
| `PhotosSaved` | `PhotosAsChosen` |
| `FeedCorrect`; `GridSorted` | `FeedIsWhole`; the order of the grid, of no run |
| `PageCorrect`, `RefusalsCorrect`, `AnnouncementCorrect` | `QuietPageIsCurrent`, `RefusalsMeanStalePages`, `AnnouncedWinnerWon` |
| *OperationsProofs* | |
| `OwnStepsCorrect`, `ValidationsCorrect` | `OwnStepsShowOnce`, `ValidatedAsSeen` |
| `TwinsCorrect`, `SeedsCorrect`, `RerunsCorrect` | `TwinsComeFromRaces`, `SeedsFillGaps`, `RerunAddsNothing` |
| `MigrationsCorrect` | `CarsShowWhatWasTold` |

Five hypotheses restrict behaviours, each by a predicate on states that the code leaves
to its callers:

* `OneClient`, which the run `oneclient` makes too: no call starts before the one before
  it was answered.
* `OneSaveAnAd`: no two calls are between the load and the save of the same ad.
  `OneThingAnAd`: nor does a photo of it move meanwhile, or two photos at once. Other ads
  do not matter, nor does who calls; one client is proved to be such a case
  (`OneClientKeepsApart`), a thousand sellers each on their own ad are another.
* `Creators(n)`: at most n calls create ads of one seller at the same time. With n = 1 the
  cap holds; `CapOvershootBounded` is the case where n is the number of all calls.
* `OneCloserAnAuction`: while a manual end or a tick holds an auction it has loaded, no
  other does and nobody is buying it.

Without them the properties are false (section 3), so they also say how much a fix, a row
lock or one transaction per save, would have to exclude.

The assumptions on constants say that sets of different things are disjoint, that null is
none of the values, that bounds are natural numbers, that administrators are users. Those
that say more: amounts are positive and the sellers users (`StoreAssumption`); ads,
photos and calls are finite and the cap is positive (the ad side counts them); the panel's
first minimum is no larger than its step, both are 500 in the code (`PageAssumption`); the
homepage's auctions are finite (`HomeAssumption`: a query answers with finitely many rows); the
scripts' entries have the shape the data files have, trims not empty (`SeedsAssumption`,
`Entry`); the first release knows some condition and paint (`MigrationsAssumption`).

Most of the properties are not inductive. TLC checked each strengthening below on the
runs' instances before it was proved.

**Auctions.** A stale entity or snapshot may be written back later. `IndInv` adds what is
known of the writers. A request past its reads holds a snapshot that is the current row or
has an older version, in which the auction was LIVE and its checks passed; so if the
version test succeeds, the checks hold of the current row. A task about to save has a
terminal state in its entity; if its select found no difference in `state`, the row was
already closed. So a save never leaves an auction LIVE with a wrong `highest`. `Evolves`
says how one row may change; every step is shown to be such a change and a step of the
ledger (`TablesNext`), which gives the refinement as well. `CloseInv` adds that whoever
will announce a close has left a closed row behind; closed rows stay closed and only a
LIVE row takes bids. `BackedInv` adds that a task that carries SOLD in its entity has a
bid to show, which stays in the table since bids are only appended (`BidsGrow`). `HoldInv`, where one actor at a time closes an auction, says
that whoever holds an auction holds it once, in the tick's list or at hand (`LoopOnce`), and
that it is still LIVE; so no save finds it closed.

`NoticeInv` follows the bidder to be told: a request remembers the top bidder of its
snapshot, which is the last bidder of the table as long as its version is the row's, so
the bid it then places follows that bidder's; a request about to tell has placed its bid,
and only purchases tie with the bid before them. `ToldInv` and `RoomInv` say of every bid
in the table that it has its notice, or its event with a sufficient count, or a request
that still has that step ahead of it. A request hands over from one to the other in the step that
sends; only a fault can lose it, which is why both speak of executions without one.

**Ads.** `TypeInv` adds to `TypeOK` that a loaded ad exists, that an absent one is blank
and that rows come from uploads. `CapInv` bounds the ads of a seller that were never
rejected, plus the inserts under way for that seller, by the cap and the calls that create
ads of that seller at once: when `createAd` counts, no ad outside DRAFT, REVIEW and VALIDATED has escaped `rejected`,
and every other call is at most one insert. `ReasonInv` says the same of the reasons
entities carry as `ReasonIsInThread` says of rows: an entity on its way to `save()` has a
reason already explained by the thread, or is that of a rejection whose message follows.
`ValidationInv` adds that only a `validate` call carries VALIDATED towards a save that
changes the status, and that such a call has its message still to send.

`FilesInv` says that the entity about to be saved has the photos its ad still has, and that
the key an upload took is the number of rows it counted (`KeyIsNext`); keys of rows are
no larger than their number until a photo is deleted (`KeyWasCounted`), so the file goes to a
free key. A step on one ad leaves the count, the rows and the entities of every other as
they are (`AdStays`), which is why only what happens to the same ad must not overlap. As a save
finds the photos it was loaded with, it moves none (`CallKeepsPhotos`). `LifecycleInv` adds
that the entity of a call is the row the lifecycle has next, and that the fields its save
will write are those in which the two differ; each step then is one step of `AdLifecycle`
or none.

**Session.** `IInv` adds two things to the invariants. `TabsRight`: a tab's timers belong
to the session it shows, are due no earlier than its warning unless they re-arm, and there
are none without a session; that is why a cleared timer never warns. `TokensIssued` and
`RefusalsFounded`: every token in the system names a row and a version the row has
reached; versions and the clock only grow, so a token once refused stays invalid while its
401 travels. `ScheduledRight` is the lemma about `scheduleExpiryWarning` both rest on.

**Browse page.** `SearchInv` says what is on its way. `LastSearchCounts`: either the last
search is under way, later than any other search and than what is shown, or it was
answered last and everything still under way is older, so that an older answer would be
noticed as overtaking. `OptionsOnTheirWay`: the list on offer fits the selection or a
request for the one that does is under way.

**Create-ad page.** `FormInv` says nothing of the lists of models and trims, which may be of
any earlier choice. Unless something was picked from such a list (`misled`), what was picked
fits (`PicksFit`), since every listener clears what is below it, and a load in progress has
set the fields above the list it waits for (`LoadGoesOn`). The finitions on offer have an engine
for the fuel whatever model they are of (`OffersFit`). A figure of the form's own still
passes for one, so that the next finition replaces it (`FiguresRight`). The listeners and
`loadForEdit` are followed field by field. `SavingInv`: undisturbed, one save is at work
(`OnlySave`) and what it has written so far is the part of the chosen photos it has come to
(`AsChosen`); the new ones among the chosen have the places of their rows (`ChosenRight`), from
which `GalleriesRight` gets the order in which any page shows them.

**Homepage.** `FeedInv` says of each query's answer that it holds what the query asked for,
each auction once: what was live, or finished, at the moment of the query, as far as no
auction closed since the first of the two (`between`). Once both are there, an auction that
did not close in between is in exactly one answer if it is due and in none otherwise. That
the page's filtering and sorting lose and double nothing is a fact about `Cards` for lists of any
length. It needs no induction: among finitely many numbered things that are totally ordered,
counting those before each gives every place to exactly one of them (`OnePerPlace`), so the
cards are the matching rows, rearranged (`CardsOnce`), in order (`CardsInOrder`).

**Auction page.** `PageInv`: reloads are numbered in the order they start and the answers
they hold are of moments in that order, unless one overtook another (`InOrder`); the
auction has not changed since the last reload's reads, or an event or a reload is on its
way (`Follows`); what a reload read is a state the auction had, from which bids only grow
(`WinnerInv`, `PanelInv`). The first version of `AnnouncedWinnerWon` did not survive this:
a reload started before the page went to another auction and back may find the page
on either, and TLC, given one reload more, showed a winner announced for an auction no longer
on the page. The property now speaks of the auction still shown.

**Back office.** `OfficeInv`: at most one call of a kind is under way for an ad
(`OfficeCalls`); an ad nobody has decided on since it was read is still under review if the
page shows it as pending, with the content shown unless another admin corrected it, and is
not among the validated ads unless it was sent back to review between the two lists
(`UntouchedInv`). Before the pending ads are there nothing is done (`FirstInv`); what is validated
before the list is there may be shown twice (`ListInv`); any other ad validated here is in the
list once, or will be with the answer (`OnceInv`). The admin's messages are those the page knows, but for
a reply whose answer is still to come (`ThreadInv`).

**Catalog.** `RowsInv` and `TwinInv`: each row has the row above it, and of two rows that
differ in case one was looked up exactly, or while the other was being inserted, or under
such a pair. `FillInv` and `AgainInv` follow a script through its entries: the ones behind it are
in the catalog with their figures, and on a second run nothing was added for them.

**Migrations.** `MigrationInv` adds to the property what the tables hold at each version:
before the last migration a car of a finition has no engine of its own (`DatabaseOK`). Each
migration is shown, field by field and in both directions (`UpOne` to `UpFive`, `DownOne` to
`DownFive`), to leave what a car shows as it was but for the fields the model notes in
`overwritten`: those for which `KeptByUpgrade` or `KeptByRevert` fails, conditions on the rows before
the step that never mention what is shown. `KeptIsTold` turns that into the property.

**Premium.** It needs no state: `HigherBidCostsMore` says the clamp turns no order of bids
around, and `FirstBidClearsThePremium` that `registerBid` takes a first bid exactly when
the premium is at most half of it, in exact arithmetic.

**Only checked by TLC.** `ExpiredAuctionsClose`, `RequestsComplete` and
`ClosesAreAnnounced`, as fairness and ENABLED are out of TLAPS's reach. `ClosedStateIsFinal`
is false of the code as it is; what is proved is when it holds. Every other property of a
run is stated by a theorem.

## 5. Not modelled, and the plan

Not modelled, and why:

* markup, styles, translations, configuration, deployment, CI: no behaviour of their own;
* the data of the seeds (two of the longest files), the mapping of Wikidata's answers, the
  chunks of bulk inserts: only which rows exist matters to `CatalogSeeds`;
* migrations that create, rename or index tables, and those that only add a column;
* the car API client, which `vehicle/vehicle.module.ts:12` calls dormant; the model year of
  a VIN, a table lookup;
* display names of bidders and sellers; the wildcards `ILike` gives `%` and `_` in a name;
* fields of the create-ad form nothing depends on, typing before the makes arrive, a
  finition picked without a fuel type, and the saves of a seller on an ad
  under review, which are all refused;
* the strip of other auctions on the auction page, the hero of the homepage, countdowns,
  the launch page but for its previews, the list of a seller's ads on the profile page;
* the expiry of signed URLs; floating-point rounding of the premium.

Next:

1. `BackOffice` and `AdSaving` over `AdModeration` itself, so that pages meet
   overlapping calls with their stale saves.
2. Ads composed with auctions: an auction on an ad that is back in REVIEW.
3. Proofs: the lifecycle under overlapping saves of one ad, against an abstract ad that
   admits the stale ones.
4. The order of search results and the model year of a VIN, each against a reference
   definition.
