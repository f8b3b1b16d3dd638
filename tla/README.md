# Verification of zoom-sdk-golang

TLA+ models of the Go SDK for the Zoom API and of the pipeline that releases it,
TLC runs on small instances, and theorems checked by TLAPS for every instance.

    tlc -config MCTokenManager.cfg MCTokenManager.tla     # a run
    tlapm TokenManagerProofs.tla                          # the proofs

## The system

| Part | State | Operations | Works with |
| --- | --- | --- | --- |
| Token manager (`auth.go`) | one cached token, its local expiry, a mutex | `GetAccessToken` | the provider's token endpoint; called by every request |
| Request execution (`client.go`) | per call: attempt counter, timer, headers built once | `Request`, `RequestRawBody` | token manager, schema registry, the provider's API |
| Pagination (`sdk.go`), Phone directory (`phone_directory.go`) | per walk: the current query, the pages collected | `Paginate`, `IterAll`, `Users`, `AllUsers`, ... | `Request`, page after page |
| Schema validation (`schema.go`) | none besides the call's | `ValidatePayload` | called by `Request`, by `Call` and by `ValidateWebhook` |
| Schema and webhook registries (`schema.go`) | operations loaded once and sorted | `FindOperation`, `ValidateResponse`, `ValidateWebhook`, `BaseURLForRequest` | the embedded specifications |
| SDK surface (`sdk.go`) | operations, namespaces and aliases, built once | `Call`, `Operation`, `Inventory`, ... | the golden inventory, the registries |
| Settings (`config.go`) | none | `LoadSettingsFromEnvironment`, `Validate` | environment, `.env`, defaults |
| Promotion and release (`.github/workflows`, `scripts/release_tools.go`) | branches, pull requests and labels, checks, tags | the jobs of each push | GitHub |
| Parity tool (`scripts/parity`) | the vendored schema trees and the golden inventory | `sync`, `sync --check`, `verify` | the file system |
| Errors, logging, embedding | the log writer | | |

What is hard in it:

- **Concurrency.** One `Client`, its token cache and its mutex serve every goroutine. The
  workflow jobs have no concurrency group and overlap; each works on what it read before.
- **Failure and time.** An attempt that timed out may still be executed. The provider counts
  a token's life from its issue, the client from the end of the exchange. Retries and the
  sleeps between them age a token that was taken once. The attempt's context is cancelled
  before the body is read.
- **Ordering.** Pages follow from each other's tokens; the collection of a page is chosen by
  name; payload normalization drops members by one branch's rules before another branch
  looks at them. The operations of a schema file come out of Go's maps in any order, and the
  first that matches a path is taken.
- **Staleness.** An operation is described when the SDK is built, by looking its template up as if
  it were a path; the server, and the schema of the answer, are looked up again by the rendered path.
- **Crashes.** The parity tool removes a tree before it copies it and truncates a file before it
  writes it; whatever stops it in between leaves half a state, which the next run starts from.

What makes each part correct: one token request at a time, and none for nothing; a
margin on what is handed out; calls that return; no POST executed twice, and outcomes that tell
the truth about the provider's side; all pages or none, each item once; nothing but blank optional
enum members forgiven; an operation described, addressed and judged by one schema, its own; a
`main` that loses no work, unique and rising versions; a sync that leaves both sides equal, and
a check that passes exactly then.

`PROJECT.json` lists the hazards one by one, at the line where each bites.

## Modules

| Module | Models | State and actions |
| --- | --- | --- |
| `TokenSource` | what a token source promises: an atomic register with an expiry | `Serve`, `Renew`, `Refuse` take effect between start and return of a call |
| `TokenManager` | `auth.go` | `pc` is the place in `GetAccessToken`: `fast` (in `cachedToken`), `slow` (before the mutex), `fetching`, `replied`, `decoded` (in `fetchToken`); `mu` is held from `StartFetch` to `Store`, `TooSoon` or `FetchFails` |
| `TokenManagerProofs` | | theorems about `TokenManager` |
| `RemoteCall` | what a call promises about the provider's side | `Open`, `Execute`, `Close` |
| `Request` | `Request` and `RequestRawBody` of `client.go` | `pc` follows the function: `preparing`, `headers`, then the loop `ready`, `waiting`, `replied`, `sleeping`; `wire` holds attempts that may still be executed |
| `RequestProofs` | | theorems about `Request` |
| `ZoomClient` | several calls of one client | instances of `TokenManager` and `Request` on one clock; a goroutine carries the name of the call it makes |
| `ZoomClientProofs` | | theorems about `ZoomClient` |
| `Pagination` | `Paginate`, `IterAll`, the Phone directory readers | `call` is what the caller gives (path arguments, headers, query); `query` is `currentQuery`; `Ask` is the call of `Raw`, `asked` the whole questions the provider has seen; `Turn` is the end of the loop body |
| `PaginationProofs` | | theorems about `Pagination` |
| `SchemaValidation` | `ValidatePayload` and all it calls | `Prepare`, `Normalize`, `Validate`; the recursions of `schema.go` are recursive functions on the schemas and payloads in use (`Schemata`, `Payloads`), with what each does in one schema an operator (`ErrorsOf`, `Adjusted`) |
| `SchemaValidationProofs` | | theorems about `SchemaValidation` |
| `Promotion` | `promotion.yml`, `release-prep.yml`, `release.yml`, `release_tools.go` | a job per staging tip (`job`), a release per commit of main (`rel`), an action per API call that changes or reads shared state: `RemoveLabel` takes one label off, or fails and is passed over; `CreatePR` opens a pull request without a label, which `AddLabel` then sets |
| `PromotionProofs` | | theorems about `Promotion` |
| `SchemaRegistry` | the registries of `schema.go` | `next` is the file the walk is at, `registry` and `hooks` what has been appended; `Load` is one file (`LoadFile`, `Vanished`, `BadFile`), `Loaded` the sort and the end of `NewSchemaRegistry`; `FindOperation` and `ValidateWebhook` are operators on what is loaded |
| `Surface` | `config.go`, `NewClient`, `NewSDK` and `Call` of `sdk.go`, addressing and judgement in `client.go`; extends `SchemaRegistry` | `phase` goes through `Configure` or `LoadSettings`, `NewClient`, `LoadSchemas`, `SchemasLoaded`, `NewSDK`; then `Refuse`, or `Send` and `Answer`, for each call |
| `SurfaceProofs` | | lemmas about `SchemaRegistry` (the registry is what the files hold, in order, and lookups choose among it), theorems about `Surface` |
| `ParitySync` | `scripts/parity` | `pc` is the place in `syncParityAssets`; `Remove`, `MakeDir`, `CopyDir`, `CreateFile`, `WriteFile`, `Truncate`, `WriteGolden` are its writes, `Compare`, `FamilyCompared`, `Report` the check; `Abort` is an error or the end of the process between any two |
| `ParitySyncProofs` | | theorems about `ParitySync` |

`MC*` modules give the constants of the runs.

Where the models draw a line: redirects, and what `net/http` retries by itself, count as part of
an attempt; header, URL and log wording is left out. In `Request` what a provider may do is free:
any status, any body, executed or not before a 5xx, late or never. In `Surface` a path is a sequence of
segments, and segments and names are numbers in the order of their bytes; what is sent between `Send`
and `Answer`, and how often, is the business of `Request`; whether a payload conforms to a schema is that of
`SchemaValidation`. In `ParitySync` a tree is a function from paths to "absent", "dir" or a content,
and a file that was being written when the process ended is "torn".

**Time.** The clock is an integer. The client's own steps take no time: `Tick` waits until no
goroutine can run. `TokenManager` alone lets the clock move between the two readings at the end of
`fetchToken`, since the code reads it twice. The clock stops at a deadline until the wait it
limits has ended: `http.Client.Timeout` and `context.WithTimeout` are taken to be punctual.

## Runs

Every passing run checks the type invariant of its module as well.

| Run | Instance | Shows |
| --- | --- | --- |
| `token` | two goroutines, lifetimes 0 and 3, skew 1, timeout 2, clock to 4 | `SingleFlight`, `FetchOnlyWhenStale`, `MarginAtHandOut`, `EveryCallReturns`, and `AtomicSource`: `TokenManager` implements `TokenSource` |
| `request` | one call, GET or POST, two retries, one status of each class | `CallTakesAtMost`, `RetryOnlyTransient`, and `RemotePromise`: `Request` implements `RemoteCall` |
| `client` | two calls, one retry, lifetime 2, clock to 3 | `BearerMargin`: what life the token on the wire has left |
| `pages` | up to three pages, either token field, cycles, a page without items; a path argument, a header and two filters, each given or not | `SameQuestion`, `AllPagesOrNone`, `EveryItemOnce`, `WalkEnds` |
| `validator` | pairs of object schemas under every keyword, arrays, objects in objects, references; payloads with two members | `OnlyBlanksForgiven`, `BlanksForgiven` |
| `surface` | three schema trees of three files: overlapping templates, one operation in two families, templates that differ in a parameter's name, one event in three webhook files, two of them under one title and id, and another under two methods of one file, a malformed file; five environments, three given settings, ten calls | `LookupStable`, `WebhookDecided`, `OwnDescribed`, `JudgedAsDescribed`, `BaseURLHonored`, `ArgumentsArrive`, `BodyFits`, `EmptyNeverAccepted` |
| `sync` | two families of three paths, five states of the checkout, any state of the target | `SyncedMeansEqual`, `CheckIsExact`, `BrokenInOnePlace`, `CommandEnds` |
| `promotion` | three works, three pushes to main, an unlabelled and an ambiguous one | `PromotionsAdvance`, `VersionsUnique`, `HighestImpact`, `VersionsRise` |
| `cut` | one raw call | **violated** `SoundBodyReturned`: a whole body is refused |
| `stale` | the default settings in half seconds, a token of one hour | **violated** `LiveOnTheWire`: a late retry carries an expired token |
| `mixed` | two pages with one or two arrays | **violated** `OneCollection`: the first array of one page is joined to the second of the other |
| `race` | two promotions | **violated** `EveryMergeReleased`: the second one gets no release |

The last four are disagreements between the code and what its comments and documents say;
`PROJECT.json` quotes both sides under `findings`.

**Bounds, and why they are enough.** `MaxTime` ends new calls once tokens have been issued, have expired and
been renewed; the clock runs on until the exchanges under way have ended. `Jumps = {1}` visits every instant;
only `stale` jumps, because its instants are thousands of half seconds apart, and its constraint
`SecondCallLate` picks the schedule it looks for, which can hide a violation but make none. Two goroutines are
enough to contend for a mutex with two looks (the theorems hold for any number). Calls of `Request` share
nothing, so one is enough; two retries make a first, a middle and a last attempt. `MaxPages` exceeds the
longest listing that ends. A schema tree of three files lets a template meet one that precedes it, one that
follows it, and its equal in another file; every order of the maps is taken. Three paths allow a name that is
a file on one side and a directory on the other, and a file below it; two families a boundary between two
walks. The schemas and payloads of the run `validator` are closed, as `SchemaAssumption` asks: `MCSchemaValidation`
computes what is inside the schemas of the calls, what preparing and merging make of them, and what is left of
a payload without some of its members. Three works and three pushes allow two promotions and a repair between them, and a job that overtakes
another. Every deadlock check that is off is off because the instance ends: calls are made once, pushes run
out, or a start has failed.

**Symmetry** is used in the runs of `ZoomClient` only, which check no liveness.

**Fairness.** A goroutine that can run does; time passes; `sync.Mutex` starves no waiter (its starvation
mode), hence strong fairness of `Lock`. Nothing is assumed of the network or of the provider: the only thing
certain to end a wait is its timeout, which is what `TimesOut` is weakly fair about. A command of the parity
tool that can go on does, and one that cannot returns its error: without the latter half a failed system call
would be a command that hangs. `Pagination` assumes that every request returns, which `RemotePromise` shows.
Liveness is checked on the components and not on `ZoomClient`, whose state space is too large for it.

**`HighestImpact` and `VersionsRise` hold on calm days only**, when a push waits for the jobs
under way: `calm` is chosen in `Init` and never changes. A job that breaks off takes no more steps and never
ends, so that calm days are also days on which jobs end. `HighestImpact` is `LabelsHighest` on such days, and
does examine the edit of the labels there: a job that removes them one by one, with any removal
failing, can leave two labels on the pull request, and it is release-prep that then keeps the head from getting
green. On other days `LabelsHighest` fails: a job has labelled the pull request as a patch; a second one brings a major
change and pushes its head, but has not come to the labels; the first one's checks find one label and
an up-to-date head, report it green, and the major change is merged as a patch. There, too, release
jobs finish in any order; `PromotionsAdvance` and `VersionsUnique` hold always.

**`WebhookDecided` says what decides a webhook**: the first file, in the order of the walk, that has a match for the
event and every hint given; within it the operation id, which tells the webhooks of one event in a file apart
(`WebhookAssumption`). With a title alone a file that declares an event under two methods leaves the choice to
the order of a Go map, and the property asks no more than that it be one of the two; no bundled event is declared
twice.

**Not caught.** `AllPagesOrNone` takes `NextToken` as the contract, so an empty token field that hides the other one
ends a walk without a word. `LookupStable` counts the files that were read, `JudgedAsDescribed` takes whichever
JSON-like media type was picked, `CheckIsExact` a missing directory as an empty one, and the properties of the
surface the settings as they come out of their layers. Nothing in the repository says what else these should
be; `PROJECT.json` lists each as a hazard without a property.

**`BlanksForgiven` says which blanks**: `Pardoned` is the payload without the blank members that the schema has
an optional enum for, `Fits` what conforming means when a branch of a choice may pardon more. It is stated for
regular schemas: a keyword stands alone, but for a type that its branches state too, and no part lets be
dropped what another part at the same place requires. Of the 9723 request and answer schemas that are bundled, 9710
are regular; the others have a type beside an `anyOf` of untyped branches (ten) or something else beside an `allOf`
(three). Elsewhere normalization can spoil a payload: with `oneOf [A, B]` beside properties,
where `A` declares an optional enum and admits no other member, and `B` requires the same member as a
plain string, a blank one is dropped on `A`'s behalf, and then neither branch accepts what is left.

**`OwnDescribed` is stated for `Regular` schema trees**: where one path may match two operations, their
templates do not part ways at a place where both have a parameter. 129 pairs among the 2480 bundled
operations overlap like that, and 64 of those cross (each is literal where the other is not), so which one
is meant does depend on the order; in all 129 the first difference is a literal against a parameter. (18 more
pairs of one method first differ in a parameter's name, but part at a literal later and no path matches both.)
Eleven operations are in both `endpoints` and `master_accounts`. `SurfaceAssumption` says besides that no
operation has two query parameters spelt alike, as none of the bundled ones has.
73 operations of the golden inventory have no schema of their own: the SDK offers them, and refuses their
answers unless another template happens to match.

**`JudgedAsDescribed`, `BodyFits` and the second half of `BaseURLHonored` are stated for `Plain` arguments**,
none of them empty and none a literal segment of some template: `/users/{userId}` called with `me` is
another operation where the schemas have `/users/me`, and is judged by that one's schema.

## Theorems

Each holds for every value of the constants that satisfies the assumptions of its module. Those on
settings are what `Settings.Validate` enforces (`ConstantsAssumption`, `RequestAssumption`,
`ClientAssumption`); those on data say what the data are made of (`PaginationAssumption`,
`RegistryAssumption`, `WebhookAssumption`, `SurfaceAssumption`, `ParityAssumption`, `PromotionAssumption`, `SchemaAssumption`).

- `TokenManagerProofs`: `TypeCorrect`, `MutexCorrect` (`SingleFlight`), `NoNeedlessExchange`
  (`FetchOnlyWhenStale`), `MarginCorrect` (`MarginAtHandOut`), and `RefinesSource`, the safety part of
  `AtomicSource`. The inductive invariant joins the types, mutual exclusion, and for each token
  the relation between its expiry, its issue and the time its exchange took: a token handed out
  later is only as good as the exchange that brought it, so the margin cannot be proved
  from the step that hands it out alone.
- `RequestProofs`: `TypeCorrect`, `CallTimeCorrect` (`CallTakesAtMost`), `RetryCorrect`
  (`RetryOnlyTransient`), and `KeepsRemotePromise`, the safety part of `RemotePromise`. The inductive
  invariant has four parts: `TypeOK`; `Timely`, which bounds the time spent by the attempt the call is at,
  since the bound on the whole call says nothing about how much of it is used up; `Transient`; and
  `Effects`, which ties the attempts on the wire and the executions to the place in the loop.
- `ZoomClientProofs`: a step of the client is a step of each component or leaves it alone (`ComponentSteps`), so
  the invariants of both carry over: the module takes in `TokenManagerProofs` and `RequestProofs` with
  INSTANCE and cites their lemmas. Only `Tick` differs, whose bound on the clock is the client's own; that is why
  the components' lemmas are stated for `Unbounded`, which is `Next` with `Elapse` for `Tick`. This gives
  `TypeCorrect`, `OneExchange` (`SingleFlight` and `FetchOnlyWhenStale` in the client), `CallsKeepBounds`
  (`CallTakesAtMost` and `RetryOnlyTransient`), `TokensFromSource` and `CallsKeepRemotePromise` (the safety of
  both abstract specifications). What neither component can show alone is `BearerCorrect` (`BearerMargin`):
  `Exchanged` and `Stored` follow from the token manager's invariant; then `Carried` says for each
  place of the retry loop how much of a token's margin the attempts and sleeps up to there may have used. `Asking`
  ties the two program counters of a call together; that a call takes no time between the hand-out and its first
  attempt is what lets the margin pass from one to the other.
- `PaginationProofs`: `QuestionCorrect` (`SameQuestion`), `PagesCorrect` (`AllPagesOrNone`), `ItemsCorrect`
  (`EveryItemOnce`) and `TypeCorrect`. `SameRest` says that every question has the caller's path arguments, headers
  and filters, `Chained` that each query has the token of the page before it, `Placed`
  what is known at each place of the walk. That no page occurs twice follows from the end: if two pages
  had one token, so would their successors, and the listing would go on for ever (`EachOnce`, by a least
  counterexample). `FlattenSeq` is a recursive function: that there is one (`FlatteningExists`) and that it has all
  items of its parts, each once if the parts have (`FlattenFacts`), is shown by induction over the parts, for which
  `Induction` takes a set of numbers in place of a formula. `EveryItemOnce` needs the items of different
  pages to be different ones, as `PaginationAssumption` says: items stand for the places they are listed at.
- `SurfaceProofs`: a theorem for each property of the run `surface`. Lemmas about the registry carry them:
  loading keeps the registry sorted by file and complete (`RegistryInv`), the order of templates is
  total and transitive, and so `FindOperation` chooses the same operation whatever the maps did
  (`FirstCandidate`), and that a webhook is found in the first file that has one (`WebhookFacts`). `Described` and `Called` say that what the SDK remembers, and what was sent, are still
  what the registry says.
- `SchemaValidationProofs`: `TypeCorrect`, `BlanksCorrect` (`OnlyBlanksForgiven`) and `ForgivenCorrect`
  (`BlanksForgiven`), for any schemas and payloads.
  `SchemaAssumption` asks that references lead to something smaller and types be spelt in a known way, and that
  the sets of schemas and payloads be closed under what the code makes of them. Much of it is recursion:
  `Recursion` shows once and for all that a definition by recursion over a rank has a solution (what it
  builds at an argument may depend on lower ranks only), and each recursion is shown to be of that kind, the fold
  over the branches of `allOf` and the sums of errors included; `Reworking` does the same for `ResolveSchema` and
  `NormalizeSchema`, whose values are in no set that could be named beforehand. `Dropped` is what dropping blank members leaves;
  that it can be repeated (`DroppedTwice`) is what lets one branch adjust what another has adjusted, and that
  a merged branch excuses no name its surroundings do not (`ExcusableMerge`) is what keeps the names within those
  of the schema. `NormalizePayloadDrops` and `ValidConforms` (there is no error against the prepared schema just when
  the payload conforms to the schema as it was written) then meet in the invariant `CallInv`. The other direction,
  that what fits is not rejected, turns on the order of the changes: one part of a schema may drop what another
  needs. `Keeps` says that a change loses nothing a schema requires, at any depth; it is the largest such
  relation, so it is shown by naming a set of changes that is closed (`KeepsAll`). Changes that keep what a schema
  requires follow one another (`KeepsLater`, `KeepsChain`); adjusting to one part of a regular schema keeps what the others require
  (`AdjustKeeps`), drops all that is pardoned (`AdjustPardons`), and a payload that conforms still does
  (`ConformsKept`). `FittingConforms` is then an induction on the schema: the branches of `allOf` one after the
  other, for a choice the fitting branch, which has no error, so that the best has none either (in a
  regular schema merging gives the branch itself, `MergeAlone`), members and items part by part.
- `ParitySyncProofs`: `TypeCorrect`, `SyncCorrect` (`SyncedMeansEqual`), `CheckCorrect` (`CheckIsExact`) and
  `BrokenCorrect` (`BrokenInOnePlace`), for any number of families and depth of trees. `Whole` and `Walked`
  say what the copy has got done, `Compared` what the comparison knows so far. A walk visits a path only when its
  parent has been visited; that it leaves none out is an argument over a path of least length.
- `PromotionProofs`: a theorem for each property of the run `promotion`. `HeadsAdvance` holds a head to the main it
  was made from, which is why a stale one cannot be merged; `JobFits` and `Labelled` follow a label from
  the job that computes it to the pull request. The label may stand there beside one that could not be removed:
  `Settled` says that it is the only one once the head is green. That needs a head not to be green before its label is
  set, hence `Pushed`: a head is pushed once, so no earlier check can have been about it. `VersionsAhead` a version from the tag it was read from to the
  release; `OneAtATime` is what a calm day is.

Only model-checked: liveness under fairness (`EveryCallReturns`, `WalkEnds`, `CommandEnds`, the
fairness of `AtomicSource` and `RemotePromise`), which is out of TLAPS' reach as ENABLED is. Every
invariant that a passing run checks is stated by a theorem.

## Not modelled

- **Settings**: the text of `.env` files and URLs, and the conversion of seconds to durations; a value is well
  formed and in range, or it is not.
- **SDK surface**: the discovery functions (`Namespaces`, `Inventory`, `Metadata`, ...), which only read
  what `NewSDK` built.
- **Parity tool**: two commands at once, and a checkout that changes during a sync; nothing in the code
  guards against either.
- **Promotion**: the dev to staging job sets a label that nothing reads, since the range resolver goes back to
  the source pull requests.
- **Validation**: cyclic references, which no bundled schema has and on which `ResolveSchema` does not return.
- `errors.go` and `logging.go` hold no state but the log writer, `parity.go` the embedded files;
  `quality.yml` runs independent checks, whose outcome is a free choice in `Promotion`.

Left to do: the conversion of settings, so that what `Validate` accepts is shown to satisfy `RequestAssumption`;
a resource with a state behind `RemoteCall`, to say what a late `PUT` can overwrite.
