# redact-gateway: a TLA+ model

redact-gateway is an HTTP proxy that takes uploads, masks or strips the images in
them, and forwards the result to one origin. This directory holds TLA+ modules
translated from its Go source, the TLC configurations that check them on small
instances, and proofs for TLAPS. Paths below are relative to the repository.

    tlc -workers 2 -config pool.cfg Pool        one model-checking run
    tlapm PoolProofs.tla                        the proofs of one component

`PROJECT.json` lists the runs, which lines each definition models, and the mutants:
for every property, an operator (marked FAULT in its module) which, put in the
place of the definition below it, makes TLC report that property violated.

## Inventory

| component | code | state it keeps | operations |
|---|---|---|---|
| job pool | `internal/pool/pool.go` | the semaphore channel, `closed`, `inflight`, `maxSeen`, the channel `done` | Acquire, release, Drain |
| proxy handler | `internal/proxy/handler.go` | per request: parts, outputs, errors by index | ServeHTTP, process(Multipart, Raw), sanitizeItem, forward, writeError |
| sanitizer | `internal/proxy/sanitize.go` | none of its own; the counters and the audit log | SanitizeImage, handlePass, handleMask, runDetectors, audited, failClosed |
| process lifecycle | `cmd/redact-gateway/main.go` | listeners, the drain context, the open log | run, serve, openAudit, buildPolicy |
| audit logger | `internal/audit/audit.go` | `seq`, the mutex, the file | Record (nextLabel, write) |
| metrics | `internal/metrics/metrics.go` | atomic counters | Inc…, Add…, samples/WriteProm |
| policy | `internal/policy/policy.go` | sorted routes, the default | New, Match |
| metadata stripper | `internal/exif/strip.go`, `png.go` | position and output of the loop | Strip, StripPNG |
| interception | `internal/intercept` | the parts of one body | ParseMultipart, Serialize, ReadRawBody |
| image processing | `internal/imageproc` | the pixels of one image | SniffFormat, Decode, Mask, Encode |
| detectors | `internal/detect` | the union-find of one Detect | Detect of region-marker, regex-pii, full-image; LuhnValid, IBANValid |
| configuration | `internal/config/config.go` | the Config | Load, applyDefaults, Validate |

How they interact. `main` builds everything, listens and waits for a signal. For a
request the handler asks the policy for a route, reads the whole body through
`intercept`, and starts one goroutine per part. A goroutine whose part is an image
on a masking route acquires a pool slot, which it holds while `SanitizeImage`
decodes, detects, masks, encodes, writes the audit entry and counts; an image on a
pass route is stripped and audited without a slot. When all goroutines have ended
the request either writes one error or sends the rebuilt body to the origin and
relays the answer. On a signal `main` drains the pool, shuts the proxy server down,
then the admin server, under one deadline; the audit log is closed last.

What is hard in it: parts of one upload, and uploads, compete for slots and run in
any order; a client may go away at any point; every stage may fail, and a route may
be fail-open; the pool may be closed while somebody is acquiring; uploads go on
during a shutdown whose order matters; the audit log is shared, appended to by
concurrent writers, and may be torn; counters are read while they move. And there is
arithmetic at its limits: two checks work with integers that may wrap around, a third
guards against a wrap, and the detectors index a flat array of pixels.

What makes each component correct:

- pool: slots are neither leaked nor doubled; at most N jobs; a drain that returns
  nil means quiet for ever; everybody who waits is answered.
- handler and sanitizer: the origin sees nothing of an upload unless every part was
  sanitized as its route demands, and audited before; slots are held exactly while
  images are worked on; the log, the counters and the answer agree.
- interception: a body is read whole or refused; what is forwarded has every part in
  its place; the schedule does not decide what the client is told.
- lifecycle: a graceful stop loses nothing and closes nothing under a job; a signal
  ends the process.
- audit: acknowledged lines are whole, labels unique over all processes, Record returns.
- metrics: counters agree with each other, and scrapes with the counters, as far as
  separate atomics allow.
- configuration and policy: the memory ceiling is exact; a request is handled under
  the settings written for its route; the longest segment prefix wins, whatever the
  order of the file.
- image processing and detectors: the pixel cap is exact; boxes are those of the
  connected components; what is in a region is hidden and nothing else changes; the
  checksums catch the slips they are made for.
- stripper: no recognized metadata in what was parsed, all pixels, whole images.

## Modules

`SlotPool` is the abstract promise of the pool: a set of holders that grows only
while the pool is open and not full, and a flag `drained` that says closed and
empty. `Pool` is the code; `Gateway` and `Serve` use `SlotPool` in its place. That
is justified by the refinement `Pool => SlotPool`, checked by TLC and proved.
`Config` extends `Policy`: it loads a file, builds the policy from it and sends a
request through it. `Config`, `Intercept` and `Imaging` extend `Words`, the integers
of the program at any width; `Imaging` extends `Checksum`, which reads a number with
`Filter`, as `Strip` does a file.

| module | models | state and actions |
|---|---|---|
| `Pool` | `pool.go` | `sem`, `closed`, `inflight`, `maxSeen`, `done` are the fields; `pc` is where a goroutine stands. One action per critical section and per channel operation: `AcquireCheck`, `SelectSlot`, `SelectCanceled`, `SelectTimeout`, `Commit`, `GiveBack`; `ReleaseCount`, `ReleaseSlot`; `DrainCall`, `DrainReturn`, `DrainExpire`. |
| `Gateway` | `handler.go`, `sanitize.go` | Per request its phase, route, parts, what the origin got and what the client was told; per item its content kind, its stage and what `sanitizeItem` returned; the pool, the counters, the complete audit lines. `Accept`/`Refuse`, `Cancel`, then per item `Classify`, `Acquire`/`AcquireRefused`, `Enter` (SanitizeImage up to the decoded or stripped image), `Detect`, `Seal` (encode, audit, count), `Release`; then `Join`, `Send`, `Relay`, `SendFails`. |
| `Intercept` | `body.go`, `multipart.go`, `processMultipart`, `processRaw` | One body. `ReadPart` is a turn of ParseMultipart's loop with `readLimited` in it, `ReadEnd` its last turn, `ReadRaw` the other shape; `Finish(k)` a goroutine storing its result at its index, in any order; `Join` the first error by index, or the substitution and `Serialize`. |
| `Serve` | `main.go` | `phase` is the line at which run and serve stand; the uploads are one item each. `Signal`, `ListenError`, `AdminListenError`, `Expire`, `DrainReturns`, `ShutdownReturns`, `AdminShutdown`, `CloseAudit`, `Exit`, interleaved with the steps of the uploads. |
| `Audit` | `audit.go`, `openAudit` | `seq`, the clock's readings, the lock, the file as a sequence of line heads and tails. `NextLabel`, `ReadClock`, `Lock`, `WriteHead`, `WriteTail`, `WriteError`, `Restart`. |
| `Metrics` | `metrics.go` | the counters, each addition an action; `LoadNext` takes one sample of a scrape, `Serve` ends it. |
| `Config` | `config.go`, `buildPolicy` | the file and the environment, the Config, the result. `Load` is ApplyEnv, ApplyDefaults and Validate in their order, `BuildPolicy` calls `New`, `Request` calls `Match`. |
| `Policy` | `policy.go` | `New` and `Match`, the sort, the default and the comparison of prefixes, on sequences of characters. |
| `Imaging` | `decode.go`, `mask.go`, `internal/detect`, the part of `sanitize.go` that calls them | One image: `Decode`, `Detect` (all detectors of the route, clipped and sorted), `Mask`. The loops of the code (`find`, the pixels, the regions) are recursive functions, so that a proof can follow them turn by turn. A pixel is a point; of a color only matters whether it is the marker's, and of the masked image which pixels of the original each pixel depends on. |
| `Checksum` | `luhn.go`, `iban.go` | `LuhnValid` and `IBANValid` on characters. |
| `Filter` | loops that skip what they do not want | `Keep`, the members of a sequence that are in a set, by recursion over its places. |
| `Words` | Go's `int` and `int64` | `Wrap`, what an exact result leaves behind, and `Quot`, the division that truncates. |
| `Strip` | `exif` | the input as a sequence of pieces, the position, the output; one turn of a loop is an action. |

`MCConfig`, `MCGateway`, `MCImaging` and `MCMetrics` add the constants and symmetries
that a configuration file cannot express; the other modules are checked as they are.
The modules named `...Proofs` hold the theorems, and `Lemmas` what several of them
need: `ConfigProofs` is about `Config` and `Policy`, `ImageProofs` about `Imaging` and
`Strip`, `ObservabilityProofs` about `Audit` and `Metrics`, and the others about the
module they are named after.

Abstractions worth knowing:

- An item of `Gateway` is one of six contents: text, a good JPEG, a good PNG, a GIF
  (an image that can be neither decoded nor stripped), a corrupt JPEG, and a PNG
  over the pixel cap. They reach every error path of SanitizeImage. Detection is a
  number of regions, an error, or the context's error; `Imaging` has what it finds.
- The slot a cancelled request waits for, the acquire timer and the drain are
  choices that may fire whenever the code lets them.
- An audit entry in `Gateway` is written or fails in one step; `Audit` has the
  pieces. Counter additions of one item are one step there; `Metrics` has them apart.
- A body of `Gateway` has been read; `Intercept` has the reading. In `Intercept` what
  sanitizeItem returns for a part is a choice, an output of any size or an error;
  `Gateway` has how it comes about.
- A label of `Audit` is named by its process and its number; what is written of it, its
  `Text`, is the number and what the clock read. While a process runs its clock may
  stand still or step back, but not before the start of the process, and a process
  starts later than everything the ones before it have read. The code relies on that
  without checking it: two processes whose clocks read the same would write the same
  label.
- `outcome.cause` in `Gateway` also remembers why a fail-open route let an item
  through, which the code forgets: a history variable that only properties read.
  So are `before` in `Audit` and `unwritten` in `Serve`.
- `Serve` stops every upload at the exit, and what a write to a closed log does to
  an upload is modelled; a log on stdout is not closed. An admin server may be
  absent, and one whose listener failed is as good as absent.
  When the listener fails, connections that are kept alive still bring requests, so
  `listening` stays true until `Shutdown` or the exit.
- In `Intercept` a stream may break off behind the last part or within its bytes. A
  `LimitReader` that has nothing left to give hides what comes behind its limit, and
  the model says so: whether a break or the cap is reported depends on which is first.
- In `Config` a field that may be omitted (a pointer or a slice in the code) is a set
  of at most one value. One request is sent through each policy: Match keeps nothing.
- In `Imaging` what OCR reads and what a regular expression matches are inputs: a text
  is a list of tokens, each of which has the shape of one pattern or of none. What a
  header of a JPEG or PNG can declare multiplies without a wrap, and TLC tries such
  headers only; `ImagingPixelCapExact` holds for any header, so that the guard behind the
  multiplication is right although no image that can be read needs it.
- A file of `Strip` is at most five pieces. Behind the first SOS nothing is parsed,
  so a payload, the header of an SOS or a cut one at the end of the file may or may not
  end in the two bytes of an EOI, and both are tried.

## Runs

| run | instance | shows |
|---|---|---|
| `pool` | 3 callers, 2 slots, 2 drains, timers | slot accounting, the bound (of the tests' `MaxInFlight` too), nil means quiet, a closed pool admits nobody, the refinement of `SlotPool`; every waiter and every Drain is answered |
| `gateway_data` | 1 upload of 0 to 2 parts, all contents, 7 routes, all failures, 1 slot | the fail-closed, audit and accounting properties, slots are jobs; every upload ends |
| `intercept` | bodies of up to 3 parts of up to 3 bytes, caps of 1 and 2, whole or broken off, all outcomes in all orders | whole or refused, parts in place, the answer is the first failure by index |
| `serve` | 3 uploads, 1 slot | graceful stop, admin server, open log; a signal ends the process, every upload is answered |
| `audit` | 2 writers, 2 labels a process, 1 restart, 3 readings of the clock, failing and torn writes | labels that no two lines share, in whichever processes; lines in one piece, and fragments continued only where somebody failed or died; order of Records that do not overlap; Record returns |
| `metrics_scrape` | 2 goroutines, 3 items, 2 scrapes, 2 reasons | how far total and breakdown may be apart, in memory and in a scrape |
| `config` | 4-bit integers; every pool, max_bytes and ceiling; two nested or equal routes with every combination of flags or of limits; up to 2 routes with any prefixes and all clean paths up to 4 characters | the exact ceiling, settings that follow the route, longest segment prefix, independence of the order |
| `imaging` | 5-bit integers; every header up to a side of 15 whose product is a word, decoded as declared or not; every set of marked pixels on grids up to 4 × 3; texts in boxes inside, across and outside; every card number up to 3 digits and IBANs of 6 characters | the exact cap, boxes against connected components, what Mask hides and leaves, checksums against single slips and swaps and a wrong alignment |
| `strip_safety` | all files of up to 5 pieces | clean header, pixels kept, whole images |
| `gateway_peak_buffers`, `intercept_cap`, `strip_all_metadata` | as above, or smaller | one documented sentence each that TLC refutes, see below |

Bounds, and why they are enough. The properties of the pool need one racer for the
slot, one holder and one drain; three callers over two slots give every overlap of
two Acquires with a release and leave one waiting, and a second Drain shows that it
is idempotent. In `Gateway` items meet only in the pool, the counters, and the join
of their own upload, so two parts show every order of a failure and a success, and
two parts over one slot would show siblings that wait for each other; uploads that
compete with each other are covered by the theorems, which bound neither. Routes
cover each action, both failure modes, stripping on and off, and an allow list.
Three parts in `Intercept` tell an order from its reverse and from a swap, and sizes
of 0 to 3 under caps of 1 and 2 lie below, at, one above and two above the cap. In
`Serve` two uploads that differ in their stage show whatever the shutdown can do to
them; the third lets one arrive late. Two writers of the audit log are enough because
a torn line involves the one that tore it and the next; two labels tell a Record from one
behind it, and with three readings a clock can step back and a process still start
later. Two routes are enough for the
policy because the choice between any two matching routes is made by comparing those
two; prefixes of up to four characters over four characters (one sorting before the
slash) contain all relations of a prefix, a trimmed prefix and a path. Four
bits are enough for products to wrap around to a small positive, a negative and a
zero value; the proofs hold for every width. Grids up to 4 × 3 contain rings, spirals
of one turn, components that meet late in scan order and both ends of a row. Card
numbers are two or three digits long instead of 13 to 19, and an IBAN six characters
instead of 15 to 34: the sums work digit by digit, so a slip that is missed at one
place is missed at any. Since slips and swaps are caught whichever of the two halves of
the digits is doubled, `ChecksumCatchesSlips` also trades: one more at a place that
counts twice for two less at the next one must give a card again, which fixes the
places that are doubled, from the last but one to the left, for every length. Five pieces hold a start, metadata, a scan, metadata after it,
and an end. `MaxSeq`, `MaxRuns`, `MaxClock`, `MaxItems`, `MaxScrapes`, `MaxPieces`, `MaxParts`,
`MaxRegions`, `CardDigits` and `IbanLengths` are bounds or sizes of the model.

Symmetry is used in `metrics_scrape` only, which checks no liveness, over a set of
interchangeable goroutines. Deadlock is not checked where the system stops or the
bound is reached: `Serve` (the process exits), `Audit` and `Metrics` (bounds),
`Config`, `Imaging`, `Intercept` and `Strip` (the work on the one input is done).

Fairness. A goroutine that can run runs (weak fairness of each step that waits for
nothing). A blocked sender of a Go channel is queued first in, first out, and Go's
mutex does not starve: a step that is possible again and again is taken (strong
fairness of `SelectSlot`, `Acquire`, `GetSlot`, `Lock`). Nothing is assumed of
clients. What the code relies on beyond that stands in the property, because it
promises an answer in more than one world: a waiter and a Drain of `Pool` are
answered if the jobs end, without any timer, and if the timers fire, while jobs hang
(`JobsFinish \/ TimersFire => ...`); a signal ends the process of `Serve` if the
deadline comes, while uploads hang, and if the uploads end, however far the deadline
(`DeadlineComes \/ UploadsEnd => ...`). Only `RequestsEnd` and `UploadAnswered` need
that the origin answers or the connection fails: the default client has no timeout.
`Serve`'s uploads are finitely many, so arrivals during the drain cease.

## What the code does not do as documented

Each of these runs checks one sentence of a document or a comment, and TLC shows how
the code departs from it.

| run | sentence | what happens | what holds instead |
|---|---|---|---|
| `gateway_peak_buffers` | pool.go, README: peak buffers bounded by N × max_bytes | bodies are buffered before a slot is acquired | `JobsWithinBound` |
| `intercept_cap` | body.go: more than max bytes are ErrTooLarge | with the largest integer as a route's max_bytes, `max + 1` wraps around and every part is read as empty, without an error | `WholeOrRefused` for every smaller cap |
| `strip_all_metadata` | strip.go: all APP1, APP13 and COM segments are removed | nothing is parsed behind the first SOS | `HeaderClean` |

The models show further behaviour that a reader of the documents may not expect. It
has no run of its own; what may be relied on is named with it.

- `policy.go` promises the longest segment prefix and drops a trailing slash, but the
  sort looks at the untrimmed length: `/api///` goes before `/api/v` and wins.
  `TidyLongestSegmentWins` is for prefixes without a doubled slash.
- `main.go` says that no job is left mid-forward, but a slot is given back before the
  upload is forwarded, so Drain may return nil while uploads are mid-forward; that they
  are still waited for is what `GracefulStop` says.
- `memory_ceiling` is compared with pool × the global `max_bytes`. A route may set a
  larger one of its own, which nothing compares (`CeilingExact` is about the global).
- `fake` passes Validate but is not in the registry: a route that names it blocks every
  image, or, if it is fail-open, forwards every original.
- RegexPIIDetector looks at the first match of each pattern only. If that one fails its
  checksum, a valid number behind it in the same box is not seen.
- A route may list a detector twice, which then reports every region twice
  (`BoxesAreComponents` is for routes that list the marker detector once).
- A blur of a region of one pixel changes nothing: the average of one pixel is itself.
- The body is streamed under the request's context, so a client that goes away leaves
  a prefix of the sanitized body at the origin (`OriginSeesOnlySanitized`).
- Drop is decided per part: a multipart upload without parts is forwarded on a drop
  route (`OriginSeesOnlySanitized` speaks of the parts there are).
- The label of an audit line is taken before the lock, so lines need not be in label
  order; they are in the order of Records that do not overlap (`RealTimeOrder`).
- A write that fails halfway leaves a fragment, and the next entry continues its line, so
  that a reader of lines loses both; a Record that returned nil still has its own bytes
  in one piece, and only what is left of a Record that returned an error, or died with
  its process, is continued (`AckedInOnePiece`).
- A scrape loads the counters one by one, so its breakdown may lag behind, or be
  ahead of, the total (`ScrapeLagBounded`).

## Proofs

The theorems hold for all values of the constants that satisfy the named
assumptions: a finite set of callers and a positive pool size (`Pool`); any set of
requests, a positive bound on parts, any nonempty set of routes (`Gateway`); any set
of uploads (`Serve`); any set of writers, any numbers of labels, runs and readings
(`Audit`); a
finite set of goroutines, any numbers of items and scrapes (`Metrics`); files of any
length (`Strip`); any width of the integers (`Words` and what extends it), any headers,
sizes and caps that fit into it. `FamiliesAssumption` of `Config` is what json.Decode and
strconv can leave in a file and an environment, and `PathsAssumption` of `Policy` what
path.Clean can leave of a path: a slash in front and no two in a row. That of `Imaging`
also says of the numbers in a text what the patterns in front of the checksums match,
of the settings and boxes that their numbers are words and their lists are lists, and of
the marked pixels of an image that decodes as declared that they are in it;
`LengthsAssumption` says that no account is longer than 34. Each proof shows an inductive
invariant: `Init` implies it, every action preserves it, and it implies the property; the
temporal step is one use of PTL.

Induction over data. The theorems of the library that do it take an operator, which
the provers cannot be given. `Lemmas` has it in a form without one: a set of numbers has
a least element (`LeastNat`), and a set of subsets of a finite set one that contains no
other (`SmallestSet`), so a set of counterexamples is empty if none can be the first.
With these it shows that a recursion has a solution (`RecursionExists`), what the folds
that sum over a set compute (`SummingChange`, `SummingRemove`, `SummingMatched`), that
a finite ordered set can be listed in its order (`ListedInOrder`), and what is in a
filtered or a joined list (`KeepSays`, `KeptDistinct`, `FlattenSays`, `FlattenKeeps`).

- `PoolProofs`. `IInv` is `TypeOK`, `SlotAccounting`, `maxSeen <= Size`, `DoneExact`
  and that a Drain returned nil only after `done`. `SlotAccounting` is what makes it
  inductive: the send to `sem` is guarded by its length only, so that length must be
  tied to the goroutines that own a token before a bound on jobs follows. The
  theorems give all safety properties of `pool`, the action property
  `ClosedAdmitsNoJob`, and the refinement of `SlotPool`.
- `GatewayProofs`. `IInv` has one part per actor: `ItemInv` says what the stage of an
  item implies of its output, its slot and its outcome; `ReqInv` that a request that
  sends has only ended items without error; `LogInv` that a line stands for an ended
  item; `PoolInv` ties holders to stages. Lemmas say once what the shared endings
  (`Finish`, `FailClosed`, `Answer`) preserve, and one lemma per action uses them.
  `GatewayJobsWithinBound` and `GatewayDrainedMeansNoJob` are about any number of
  uploads at once. `CountInv` adds that an item has no outcome before it returns, so
  that each one enters the set of blocked items, and is counted, once. `BoxInv` adds
  that an item has at most one line in the log, with the boxes it was masked with:
  only then is the sum over the items of an upload, which the header is, the sum over
  the lines of the log, which the property is about.
- `InterceptProofs`. `IInv` says that every part that was read carries its own index,
  and that the goroutines that have ended have stored their own results at it (`InPlace`,
  `Stored`); so the join finds the parts in place in whatever order they ended.
  `WInv` adds that what has been read is whole and within the cap, which needs that no
  cap is the largest integer: then, by `WrapKeepsWords`, `max + 1` is exact, and one byte
  more than the cap tells a body at the cap from one over it. The run `intercept_cap`
  shows that the assumption cannot be dropped.
- `ServeProofs`. `PhaseInv` lists what each phase of the shutdown has already
  promised, `PoolInv` what a drained pool means for the uploads. `GracefulStop` is
  inductive together with them because no upload starts once the listener is closed.
- `ObservabilityProofs`. Of `Audit`: `LockInv` ties the lock to who is writing, `LineInv`
  says that a torn line is the last thing in the file, `FreshInv` that labels not given
  out yet left no trace, `BeforeInv` that only acknowledged Records precede a label. So
  the tail of a line lands right behind its head, and a head behind all that was
  acknowledged. `EndInv` says that a fragment of this process at the end of the file is
  being completed or has been given up, so whoever has the lock continues only the
  latter; `ClockInv` that the readings of one process come before those of the next,
  which makes two texts differ where the numbers agree. Of `Metrics`: `MemoryInv` says that in memory the total is ahead of its
  breakdown by exactly the goroutines between the two additions. `ScrapeInv` is
  about a scrape under way, and its `Snapshot`: what it has loaded of the breakdown, and
  what it would load now of the rest. A total that has been loaded is ahead of that by
  no more than there are goroutines, since it was when it was loaded, and every addition
  and every load afterwards only helps.
- `ConfigProofs`. The ceiling: the product of two positive words that may have wrapped
  around, divided by one of them, gives the other exactly if it did not wrap
  (`QuotientTellsOverflow`): a shift by the number of words does not fit between the
  product and a multiple of the divisor less than the divisor away. The routes: `RInv`
  says that the policy is the one of the file and that a match is what `FirstMatch`
  computes. What New sorts by is an order of any list of routes (`SortIsOrder`), so the
  sorted list exists, and what a path gets is the route that comes before all others
  that compete for it (`MatchWins`): it does not matter where in the file it stands
  (`BackwardsMatch`), and of equal prefixes it is the first (`RInvSettings`). A trimmed
  prefix matches exactly if its segments begin the path's (`MatchBySegments`): a segment
  that has begun can only grow at its end (`BegunStays`), and not at all once a slash
  has followed it (`ClosedStays`), so where two strings part, so do their segments.
  Of two that match, the one that is not shorter has no fewer segments (`LongerHasMore`),
  though it may be longer by a slash only; and this is where prefixes with a doubled
  slash would break it.
- `ImageProofs`. The pixel cap of `Imaging` follows as the ceiling does. Of `Strip`:
  `RunInv` says that while a loop runs its output is what filtering leaves of the pieces
  it has consumed, and that these are of the kinds the loop goes on after; the
  properties then are facts about filtering a prefix of the file. The checksums: a slip
  changes a Luhn sum by what one place adds (`LuhnSlip`, from the lemma about a sum of
  which one summand changes), and doubling a digit permutes the digits (`WeightsApart`),
  all but 0 and 9 in another way than leaving it. The remainder of an account is
  followed from left to right: once two texts differ in it, equal characters never bring
  it back together (`RemaindersFollow`, since 10 and 100 are invertible modulo 97), one
  character (`OneTold`) or two neighbours (`TwoTold`) of a sort do tell. The case that
  needs more is the swap of the fourth character with the fifth, which the
  rearrangement sends to the two ends (`EndsTold`): the remainders then differ by a
  small multiple of a power of ten minus one, and none of the first 66 powers leaves 1
  (`PowersOfTen`), while the 32 characters between the ends of the longest account
  stand for at most 64 digits. A trade moves two from one place to the next
  (`WeightsTrade`), which leaves the sum as it is only if the first one is doubled.
- `ImageProofs`, the detectors and the mask. `Rooted` is the invariant of the
  union-find: every pixel's path leads over ever greater ranks to the root of its
  class. With every turn fewer pixels are ranked above (`AboveShrinks`), so `find`
  ends before it has taken as many turns as there are pixels, and halving a path
  changes no class (`FindEnds`). After the loop over the pixels, neighbours are in one
  class (`ComponentsJoined`); and since every union joins two neighbours, no class is
  wider than any grouping that keeps neighbours together (`Within`). A blob is the
  least set that holds its pixel and is closed under neighbours (`BlobIsLeast`), which
  makes it such a grouping: classes and blobs are the same (`RootsTellBlobs`), and the
  box of a class is the hull of a blob (`BoxIsHull`). That a blob is reported once
  needs that no two blobs have the same box (`BoxesApart`): one would contain a path
  from the left side to the right, the other one from the top to the bottom, and such
  paths meet. The proof counts how often the first path passes above a pixel that is
  not on it: an even number of times at the top (`TopNever`), an odd one at the bottom
  (`BottomOnce`), and neighbours off the path have the same parity (`RowAlike`,
  `ColumnAlike`). `MaskInv` then says that the regions cover the zones, and what the
  output depends on after any number of regions (`Redacts`, `Smears`), whichever of
  them overlap or repeat. Since blobs are least sets in every state, they change with
  the upload only (`BlobsStay`).

Only model-checked: liveness, since fairness and ENABLED are outside what TLAPS proves
(`AcquireReturns`, `DrainReturns`, `RequestsEnd`, `SignalStops`, `UploadAnswered`,
`RecordReturns`). Every invariant and action property of the passing runs is proved. TLC
also checks the refinement that is proved.

## Not modelled, and why

- The text formats (JSON files, Prometheus, HTTP headers, content types and form
  names), the parsing of numbers and durations, URL joining, hop-by-hop headers,
  hashing: no property is about them.
- Color values and the image codecs, Encode among them: the libraries' work. `Gateway`
  has which formats they take and that they may fail.
- The JPEG quality, the read and acquire timeouts as numbers, and the audit path, on
  which no branch of the configuration depends. A negative acquire timeout is the
  same as none, which `Pool` has as `HasTimeout`.
- `internal/detect/ml` is a stub behind a build tag; `internal/testutil` is fixtures;
  `fake.go` is a detector of the tests.
- Redirects that the HTTP client follows on its own.

## Plan

Done, in this order because the first carries the rest: `SlotPool` and `Pool`;
`Gateway` over them; `Serve`; `Audit`; `Metrics`; `Policy`; `Strip`; the proofs of the
first three; `Intercept`; `Config` over `Policy`; `Imaging` and `Checksum`; the proofs of
`Words`, `Config`, `Imaging`, `Intercept` and `Audit`; those of `Metrics`, `Strip` and
`Policy`, of the sums in `Gateway` and of the checksums; those of the union-find, the
boxes and the masks. What is left: the refinement of `Gateway`'s one-step reading and
joining by `Intercept`.
