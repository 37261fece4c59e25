# Verification of the TessariDB Go SDK

TLA+ models of the client in `src/`, the TLC runs that check them, and theorems
about them with proofs for TLAPS. Line numbers are of the sources at the commit
beside this directory; `PROJECT.json` has the line range of every definition.

    tlc -config MCFollow.cfg MCFollow.tla       # one run
    tlapm FollowProofs.tla                      # one module of proofs

## The system

The SDK is one Go package with no state on disk. It talks to a node over two
transports and builds everything else on them.

| component | source | state | operations | what makes it correct |
|---|---|---|---|---|
| native connection | `conn.go`, `frame.go` | a socket, the peer's minor, `spent`, `subscribed`, a mutex | `Dial`, `Execute`, `Close` | answers match calls, the credential goes out once, every call returns |
| change feeds | `conn.go`, `narrowed.go` | a goroutine, two channels | `Changes`, `ChangesAt`, `ChangesWhere`, `ChangesWhereAt` | nothing is skipped or doubled, the end is told truly, the connection is consumed |
| vault frame | `vault_frame.go` | the connection's | `vaultFrame` | no node is sent a frame it cannot read |
| redirects | `follow.go` | the connection, the hop's connection, the path so far | `follow`, `arrive`, `context`, `selection` | one execution, at the node named, in the caller's session; no loop, no leak |
| HTTP session | `http.go` | the token, under a mutex held for single reads and writes | `OpenSession`, `CloseSession`, `send` | one retry and only after a 401; lapsed tokens stay invisible |
| HTTP calls | `http.go`, `httpfiles.go`, `httpseries.go`, `httphealth.go` | none of their own | `Script`, `Backup`, files, series, `Health` | built on `send`; reading of answers |
| cache lock | `cache.go` | a key of the store, `Lease` values | `Lock`, `LeaseOf`, `Extend`, `Release` | a lease that is extended was never lost; nobody frees another's |
| cache values | `cache.go` | a key of the store | `Get`, `Set`, `Incr`, `GetOrSet`, ... | racing loaders agree, nothing is replaced |
| queue worker | `queue.go` | a batch of claimed jobs | `Claim`, `Done`, `Release`, `RunAuto`, `RunManual` | work is done at least once, a stop hands the rest back |
| topic consumer | `consumer.go` | a batch of messages in flight | `Ack`, `Nack`, `RunAuto`, `RunManual` | nothing is lost, a delivery is handled once |
| wire codec | `bytes.go`, `tags.go`, `encode.go`, `decode.go` | none | `Encode`, `Decode` | decoding inverts encoding, what is cut is refused, bytes sort as values do |
| outcomes | `outcome.go` | none | `readAnswer` | any node's build is understood, nothing unsaid is claimed |
| scripts over HTTP, JSON values | `script*.go`, `json*.go`, `geojson.go`, `kind.go` | none | `ScriptResults`, `ReadOutcome`, `Interpret` | the same answer as on the wire |
| query builder | `query.go`, `select.go`, `write.go`, `filter.go`, `statement.go` | a statement under construction | the calls that gather it, `Render` | every value bound, every name checked, the text is what was asked |
| cache containers, vault, TLS trust | `cache_containers.go`, `vault.go`, `tls.go` | none | one statement, frame or comparison each | see *Not modelled* |

How they interact: `Cache`, `Queue`, `Consumer` and `Vault` call `Execute` (or
the vault frame) on a `Conn`; `Execute` calls `ask` under the mutex and, when the
node answers with a redirect, `follow`, which dials connections of its own and
may replace the socket inside the `Conn`. A subscription hands the reading side
of the socket to a goroutine for good. `HTTPClient` shares nothing with `Conn`;
what is read off either is the same statement's outcome. The builder's text and
parameters are what `Execute` sends, through the codec.

What is hard here: goroutines on one connection without request numbers; a
subscription that takes a connection over; calls that fail after part of their
effect (the credential, the tenancy, a hop's socket); answers lost after the
node acted; a token read, used and compared in three separate critical sections;
leases, holds, deadlines and tokens that end while their owner is not looking;
processes that stop or die in the middle of a batch; formats without lengths or
versions, grown by fields at the end; the edges of fixed-width numbers.
`PROJECT.json` lists each hazard at the line where it bites with the properties
aimed at it, and why where none is.

## The modules

Each component has a module, an `MC` module with a `.cfg` that makes an instance
of it, and proofs in one of eight `Proofs` modules.

### Conn: one connection and the node at its end

`Conn.tla` has one action per place where a goroutine of the client can be
between two others: `Begin` (the call), `Lock` (`c.mu`), the body of the method
(`ask`, `vaultFrame`, `subscribe`, `narrowed`: the checks, the credential, the
encoding, the ceiling, the write), `ReadReply` (`readFrame` and what the method
makes of the frame), and for the goroutine of `deliver` `DeliverReads` and
`Receive`. `Dial` reads the greeting; `Close` takes no lock, as in the code.
The node takes frames in order, answers, feeds, hangs up, dies between or inside
frames, sends kinds nobody knows and bodies that do not decode.
`link` is the socket, `toNode`/`toClient` the frames under way, `sent` the
history of what was written.

### Follow, Exchange and Tenancies: redirects

`Follow.tla` is `Execute` whole: the first `ask` on the caller's connection, and
`follow` from `context` to the last return, one action per `ask`, dial or
decision (`AskAnswered`, `AskUnsent`, `AskRedirected`, `ReadContext`, `StopFollowing`,
`DialHop`, `Arrive`, `SelectThere`, `SendAnswered`, `SendRedirected` and the ways
each fails). An `ask` is one step here and is taken apart in `Conn`. Nodes are
free: any address may be answered by any node, any node may redirect anywhere
under any epoch, and any connection may be lost before or after a script was
carried out. A script is what it selects before it works: nothing, a name or both,
as every statement of the cache, the queue and the consumer does
(`cache_statements.go:28`, `queue_statements.go:39`, `consumer_statements.go:50`);
cut off, it may have selected a part. A connection has the parts that `Conn` keeps
of it (the node its reader reads from, the peer's minor, `spent`) beside what is
true of its session (the node, the tenancy, whether the credential was shown).
`Tenancies.tla` is what `USE` does to a session, which is the node's (external).

`Exchange.tla` is what the caller of `Execute` is promised, with no word of
redirects: a script is carried out at most once, or the call fails, and the errors
of following (`Unrun`) mean that nothing came of it. It is carried out from the
caller's tenancy on, or from none if the node would not select. What an answered script selects is
selected afterwards, or not: over a transient redirect it was selected on a
connection that is closed. `Follow` implements it (`KeepsItsPromise`), by the mapping
`busy <- at # "idle"`, `tenancy <- conn.tenancy`, `selects <- script`, `ran <-` the
tenancies of `runs`.

### HttpSession: the token

`HttpSession.tla` has one action per critical section or request of `send`,
`attempt`, `OpenSession` and `CloseSession`, so that goroutines interleave
exactly where the code lets go of the mutex. The node cuts, accepts and forgets
tokens, verifies passwords, and may lose an answer after acting.
`TokensLapse` and `UserChanges` are the ways a token ends that the comment in
`send` lists.

### Lease and Cache: one key of the store

`Lease.tla` is one key under clients with connections of their own. Each
conditional write is one step, as it is one statement (`lock`, `extend`,
`release` name the three statements), and its answer may be lost. A client may
crash and come back with `LeaseOf`. `kept` and `lost` are history: has nobody
else taken the lock since, and has the client been told it lost. The names of its
specification (`LeaseInit`, `LeaseNext`, `lockKey`, ...) differ from those of `Cache`,
since one module holds the proofs of both.

`Cache.tla` is one key as a value: `GetOrSet` in its four places (`Get`, `Load`,
`SetIfAbsent`, `GetAgain`), raced by other callers of it and by every other
statement (`Set`, `SetIfPresent`, `CompareAndSet`, `Delete`, `Incr`, `Persist`,
...) and by expiry. `seen`, `gone` and `steady` are history: what the key held
since the call began, whether it lost a value, and whether anybody but
`GetOrSet` touched it.

### Queue: the worker's loop

`Queue.tla` is `run` and `next` under several processes that may share a worker
name, over a store that counts attempts, lets holds lapse and keeps dead
letters. `Claim`, `Wait`, `Handle`, `Settled`, `HandBack`, ... are the places of
the loop; every statement may be refused or its answer lost. A `Release` not
before an instant is a release: the next claim may be as late as it likes.
`Gone` is the deleted records; with them for what is settled the queue implements
`AtLeastOnce` (`NothingLost`).

### Consumer and AtLeastOnce: the member's loop

`Consumer.tla` is the same loop over a group's deliveries, with the two
differences that matter: a settlement names positions and no member, so that one
that comes late settles somebody else's delivery, and a stop leaves the rest of
the batch in flight until the group's deadline. A handler acknowledges, refuses,
delays, or leaves a message to be acknowledged later (`Ack`). The group counts
deliveries, and lets deadlines pass under a batch (bounded by `MaxSlow`).

`AtLeastOnce.tla` is what handing out work promises: an item is settled only
after some handler finished it, and for good. `Consumer` implements it with
`settled <-` the acknowledged positions, and so does `Queue` with the records that
are gone: `NothingLost` in both, the same words for two stores that settle alike and
hand out work by different rules.

### Wire, Values and Codec: the encoding

`Wire.tla` is `bytes.go`: cells, lengths, escaped byte strings, signed numbers
with their top bit inverted. `Values.tla` is `encode.go` and `decode.go`, type by
type: the set of a type's values, its writer and its reader. Values and shapes nest,
so these are functions of a depth: `Value[d]`, `readValues[d]` and `writeValues[d]`
go one level down to those of `d - 1`, as `decode.go` and `encode.go` call
themselves, and `Encode` and `Decode` are those of depth `Nesting`. An object is the
set of its `<<name, value>>` fields, written in the order of the names and read in
any. `Codec.tla` writes a value, then cuts, grows or alters its bytes, and
reads. What a failing connection or another build makes of the bytes is in
`Transit.tla` (external), which `Outcomes` uses too. A byte is a cell of `Width` values, an i64 one cell, so that every edge
(the smallest and largest number, a zero to be escaped, a count one too large)
is in a small instance.

### Outcomes, Json and Scripts: the answer, on either transport

`Outcomes.tla` is `readAnswer`: records grew by notes, `only`, exactness and
suggestions, and `build` is how many of these a node writes, up to one this
client does not know. The writer is external. Its state is an answer on its way:
the node sends it (`Send`), its bytes may end early or differ in a cell, and the
client reads it (`ReadAnswer`). `Answers` is what nodes may have to say, any sequences
of outcomes that can be written (`AnswersAssumption`): as everywhere in this format, a
count or a length must fit the cell that holds it.

`Json.tla` is `Interpret` and all it calls. A JSON string is a sequence of cells:
the digits, and a mark for each other character that a spelling gives a meaning
(minus, colon, dot, brackets, units). `Scripts.tla` is `ReadOutcome` with
`scriptRecords`, `scriptPlan`, `scriptNotes` and `scriptSuggestion`. It puts the
two transports side by side: a state of it is an answer on its way over the wire
(the steps of `Outcomes`) or over HTTP, and what a client makes of one is compared
with what it makes of the other. `OnHttp` is what the other transport tells: an
access path and an unknown kind are numbers on the wire and words here, so it puts
the node's word for the number (`PathWord`), and the unknown kind's body has no
place; `Kept` is what JSON keeps of a value. Three things it does not keep, and
`TransportsAgree` says what the code makes of each: a datetime outside the years
0000 to 9999, which RFC 3339 cannot spell and `time.Parse` refuses
(`jsonscalar.go:179`), is an error; a coordinate that is not finite is a NaN
(`jsonscalar.go:66-69`); and a zero has no sign (`kind.go:17-20`).

### Builder: statements

`Builder.tla` has an action for each call that gathers a statement and `Render`. What
the code writes into its buffer is a sequence of pieces (`pieces`): words, names,
numbers and spans, which are tokens of the text as they stand, values, which are bound
and leave a reference (`bind`), and refusals, at which writing ends (`write`). There is
one definition for each clause, in the order the code writes them. A string is a
number, positive if it is a name, so that names have an order; filters nest up to
`Nesting`, where the code has no bound but its stack.

`Meant` is what was asked for, taken from the calls and not from the statement they
gathered. `ReadByNode` (external) is what a node makes of the text: clause by clause
from left to right, each in its one place, items by their commas, filters by their
parentheses. `RendersWhatWasAsked` compares the two.

## The runs

Ten runs pass, safety and liveness of a component together. Two end in a
violation, each of a statement of the documentation that the code does not keep.

| run | instance | shows |
|---|---|---|
| `conn` | 2 goroutines, 2 calls of any method and body, feeds of 2 frames, 4 greetings (a stranger, another major, minors 3 and 6) | answers match calls (`AnswerMatches`), a subscription takes the connection over (`SubscriptionConsumes`) and skips nothing (`FeedIsWhole`), the credential goes out once (`CredentialPresentedOnce`), calls return and feeds end (`CallsReturn`, `FeedEnds`) |
| `follow` | 2 nodes of two minors, 2 epochs, a plain name and one that is not, scripts that select nothing, one name or both, 3 calls | a script runs in the caller's session (`RunsInTheSession`) at the node named (`RunsWhereNamed`), the connection moves whole and only when it should (`ConnectionStaysOrMoves`), no socket leaks (`NoSocketLeaks`), `ExecuteReturns`, and `Follow` implements `Exchange` (`KeepsItsPromise`) |
| `http` | 2 goroutines, 4 calls, 2 lapses | no request is carried out twice (`CarriedOutOnce`), a token given back is never presented again (`GivenBackStaysGivenBack`), a call beside no other recovers from lapsed tokens (`RecoversAlone`), `CallsReturn` |
| `lease` | 3 clients, 6 calls | `Extend` tells the truth (`ExtendMeansNeverLost`), nobody frees another's lock (`ReleaseFreesOnlyOwn`), it comes free (`ComesFree`) |
| `cache` | 3 racing callers with different values, 2 statements of others, 1 expiry | racing loaders agree while nobody else touches the key (`AnswersAgree`), every answer was there or is the caller's own (`AnswerWasThere`), `GetOrSet` never replaces (`OnlyFillsGaps`) |
| `queue` | 2 processes of one name, 2 jobs, 2 attempts, 1 refused claim | a record is deleted only once a handler finished it, and stays deleted: `Queue` implements `AtLeastOnce` (`NothingLost`); `DifferentRecords`, `StopHandsBack`, `StopEnds`, `EveryJobEnds` |
| `consumer` | 2 members, 2 messages, batches of 2, 1 message returned, 1 deadline under a batch | no message is lost (`NothingLost`), a delivery is handled once (`OneCallPerDelivery`) and settled by its member (`OneMemberAtATime`), a stop settles what is in hand (`StopSettles`), every message is acknowledged in the end (`EveryMessageAcked`) |
| `codec` | every type at its edges, each composite around others; any cut, any cell appended, any cell altered | what is written reads back and what is accepted can be written (`ReadsBack`), nothing cut or grown is a value (`NoPrefixIsAValue`), bytes sort as values do (`OrderKept`) |
| `outcomes` | every outcome alone and next to another, six builds of node, any cut, any cell altered; over HTTP also values of every type, at their edges and beyond what JSON spells, three plans, a named table and one without a name | `AnyBuildIsUnderstood`, `CutAnswerIsRefused`, `OutcomesStandApart`, and that the transports agree but for what JSON does not keep (`TransportsAgree`) |
| `builder` | 4 calls over strings that are names and that are not, filters of up to three comparisons, eight spans | the first refusal comes out, or a text that a node reads as what was asked for (`RendersWhatWasAsked`) |

| run | the documentation | the code |
|---|---|---|
| `conn_signed` | the first request carries the credential (`conn.go:16-18`) | it is marked spent before the parameters encode; if they do not, the next request goes out unsigned |
| `http_seen` | a token that stops working is never seen by the caller (`src/README.md:348-350`) | two goroutines: the one that finds the token already discarded returns the 401 |

Why the bounds are enough to be interesting. Two goroutines suffice for every
race over a mutex or a token, since each property is about one call against
another; three racing loaders let two lose to a third, and to each other. Two calls
on a connection let one fail and the other meet what it left behind; minors 3 and
6 lie on either side of what `declare` and a condition need. Two nodes can send a
request round and answer at each other's address, and their minors tell whose greeting a
connection remembers; two epochs let one lie before the other; a path of `mostHops`
(3, the code's own constant) fits in one call, and three calls let one find the
tenancy that a second left on a connection that moved or did not. The name that is
not plain can be selected by a script and not on a hop. Four calls of an HTTP client let a token be
opened, lapse, be replaced and be given back. Six calls let one client take a lock,
lose it to a second, and both extend and release. Two jobs or messages make a
batch with one in hand and one unseen, or give each process one. In the codec,
`Half` (the largest signed number plus one) leaves every tag, mark and length a
cell of its own; a second has 15 nanoseconds there, fewer than a cell holds, so
that a count outside the second can be written. `Nesting` (10 for `codec`, 4 for
`outcomes`) is more than the deepest sample needs, and leaves room for what altered
bytes are read as; the code has no bound but its stack, and the proofs hold for every
`Nesting`. The filters of `builder` nest to 2, which puts a parenthesis into another on
either side; four calls let a name be set twice with another between, a clause be
replaced and a refusal come second; the spans have units that begin alike. Over HTTP a second has 12, an hour
6 seconds and a minute 2, and the years of four digits end two seconds short of the
last of the 16 on one side of the epoch and four short on the other, so that each unit of a duration occurs, alone and with
others, on both sides of zero; `Half = 16` leaves a cell above the digits for each of
the fifteen marks.

Bounds are constants (`MaxCalls`, `MaxFrames`, `MaxLapses`, `MaxRefusals`,
`MaxWrites`, `MaxReturns`, `MaxSlow`, `MaxValue`) that only guard the start of new
calls or faults; a call that began always finishes. `MaxAttempts` and `mostHops`
are the system's own.

Deadlock is not checked: every system here rests once its bounded calls are made.

`TypeOK` of each module is proved (below) where a `Proofs` module exists and is
not a property of a run.

## Fairness

The violation runs and the safety properties need none. Liveness assumes, in each
module's `FairSpec` (`LeaseFairSpec` in `Lease`):

- `Conn`: goroutines run, Go's mutex starves nobody, the receiver drains a feed's
  channel as `Changes` asks, and a live node answers a statement it took. The
  last is a real assumption: the code sets no deadline after the greeting.
  Nobody has to call, close or hang up.
- `Follow`: each `ask` or dial under way ends, by an answer or by a failure.
- `HttpSession`: each step of a call under way is taken.
- `Lease`: ttls pass. No client has to do anything.
- `Queue`: the loop's own steps are taken (handlers return, statements end, the
  timer fires) and holds lapse. Nobody has to cancel.
- `Consumer`: the loop's own steps are taken, and deadlines pass and delays end.
  Nobody has to cancel, or to acknowledge what a handler left.

All of it is weak fairness: every such step stays possible until it is taken.

## The proofs

Eight modules of proofs, each for every value of the constants, from the one named
assumption of the module it is about. Each theorem on a property is `Spec => []Inv`,
`Spec => [][A]_vars` or `Spec => Abstract!Spec` (`AnswerSpec` for `Outcomes`), and
rests on an inductive
invariant that is stronger than the property; what it adds is the argument.

**`ConnProofs`** (types, `AnswerMatches`, `SubscriptionConsumes`,
`CredentialPresentedOnce`, `FeedIsWhole`).
- `Turns` carries the turn-taking. `Holds`: who is in a method holds the mutex.
  `Quiet`: before a subscription at most one frame is under way, in one direction,
  and the call that waits for it is its own. `Consumed`: after one nobody reads a
  reply, and the subscription is the last frame written. `AnswerMatches` alone
  says nothing of the frames under way, so it is not inductive.
- `Written` adds `Unsigned`: a connection whose credential is not spent has written
  nothing but subscriptions, from which the credential follows to be presented at
  most once.
- `Whole` adds `Fed`: what was handed over, what is in the goroutine's hand and what
  is still on the socket are the node's changes in their order, each once; a feed
  that ended without an error has handed over all of them.

**`FollowProofs`** (types, `NoSocketLeaks`, `CredentialPresentedOnce`, the path, one
execution, the session, `RunsWhereNamed`, `ConnectionStaysOrMoves`,
`KeepsItsPromise`).
- `Typed` is the type invariant with two facts it needs to be inductive: the
  count of sockets, without which closing one could go below zero, and that a
  redirect exists whenever one is followed.
- `Sessions` says that a connection whose flag `spent` is unset was shown no
  credential, and any other at most one. `CredentialPresentedOnce` alone is not
  inductive: a connection shown the credential with its flag unset satisfies it.
- `Path` says that the redirect under way is the last, those before it were
  followed, and `floor` is at least each of their epochs.
- `UnderWay` says that until a call ends nothing was carried out and the caller's
  connection is as it was found, and what each stage of a hop has established:
  the node checked from `selecting` on, the caller's tenancy selected from
  `sending` on. With `Ended` (the properties themselves) it is inductive.
- `RunsInTheSession` is proved with its two exceptions: a node that redirects the
  `USE` of a hop (`bare`) runs the script where nothing is selected, and a connection
  whose first request was never written (`Unshown`) runs it unsigned. The second is
  what the run `conn_signed` shows, seen from `Execute`; it ends when a redirect
  moves the connection.
- `FollowKeepsItsPromise`: initial states map to initial states, and under
  `Typed` and `UnderWay` each step is `Start`, `Answer`, `FailUndone`, `Fail` or a
  stutter of `Exchange`; only the first and the last step of a call are no stutter.
  The steps of scripts that select need that what a node selected of one that was
  cut off is a part of it (`Partly`).

**`HttpSessionProofs`** (types, `CarriedOutOnce`, `GivenBackStaysGivenBack`,
`RecoversAlone`). `Fresh` says that a token about to be stored is nobody else's,
neither held, given back nor about to be stored by another goroutine: without it a
store could bring a token back. `Recovering` is the argument of the retry for a
call that no other one of the client runs beside: at each place of `send`, what
it presents is the password or the client's own token, and after the 401 the
token is discarded or replaced by one that works.

**`CacheProofs`** (of `Cache`: types, `AnswersAgree`, `AnswerWasThere`, `OnlyFillsGaps`).
`SeesKey`: what the key holds was seen by every call under way. `LostRace`: who
reads again finds a value, or the key lost one meanwhile. `Settled`: while nobody
else touches the key, it holds the value that every finished call answered.

The same module holds the proofs of `Lease` (types, and from `Given = {""}`, that every
`Lock` asks for a fresh holder: `ExtendMeansNeverLost`, `LostForGood`,
`ReleaseFreesOnlyOwn`). `LeaseIInv` says that a client goes by the holder it stored,
that holders are no newer than the last call (so a fresh one is nobody's), that two
clients never share one, and that a key that holds a client's holder means nobody took
the lock since and the client was not told otherwise. The assumption is needed: with a
name that two clients pass, `Extend` tells the one that lost the lock to the other that
it held it all along.

**`QueueProofs`** (types, `NothingLost`, `DifferentRecords`, `StopHandsBack`).
`Finished`: a worker about to delete a record has had it finished, so that a
deletion deletes nothing else (`Keeps`), and what is gone stays gone, since no
statement of the loop brings a record back; with `Finishes` (a handler that returns
is the abstract `Finish`) each step is one of `AtLeastOnce` or a stutter.
`OwnsBatch`: until a hold lapses, each of a worker's jobs is held for it, and once; a
statement of one worker touches free records or its own (`TouchesOwn`). `Accounted`:
what is held for a worker that has neither died nor failed is in its batch or was
left by its handler.

**`ConsumerProofs`** (types, `NothingLost`, `OneCallPerDelivery`,
`OneMemberAtATime`, `StopSettles`). `Finished` as above, which makes each step one of
`AtLeastOnce` or a stutter. `Once`: a delivery to come was given out, was handled by
nobody, and is in no other batch, because counts only grow. `Apart`: until a
deadline passes too soon, what is in a batch is in flight for its member.
`Accounted`: what is in flight for a member that was called for it is in its hand
or left by its handler.

**`CodecProofs`** (the codec undoes itself, `ReadsBack`, `NoPrefixIsAValue`,
`OrderKept`; of answers `AnyBuildIsUnderstood`, `CutAnswerIsRefused`,
`OutcomesStandApart`), for every size of cell, every depth and every set of samples
or answers.
- `Undoes(f, X, W)` is what is proved of each reader `f` of the values `X` beside its
  writer `W`: what it reads of any wire, it reads alike whatever follows, and of the
  wire before the rest exactly the part it used; it reads back what `W` writes, before
  any rest; and what it reads `W` can write. One lemma per way the code puts readers
  together (one after the other, behind a tag, as many as a count says, sorted into
  fields) carries it from the parts to the whole, so that each type is a few lines.
- Depth is an induction on numbers, as are the repetitions behind a count and the
  escapes in `varbytes`. The library's rules of induction take a predicate, which these
  provers cannot instantiate; `SetInduction` says the same of a set, and follows
  from the pigeonhole principle.
- `ValuesUndo` puts it together: `readValues[d]` undoes `writeValues[d]` for every
  `d`. An object needs the most: names are sorted when written, so reading back says
  that the sorted fields are the same fields, and that a name read twice keeps the last.
- `IInv` says of the wire where it came from (`Origin`): untouched, the start of what was
  written, or that and a cell more. `NoPrefixIsAValue` follows: if a proper part of a
  written wire were read, it would be read alike with the rest behind it, so the
  whole would leave a rest, and it leaves none.
- `OrderKept` is by the first cell in which two wires differ. Inverting the top bit
  keeps the order of numbers; an escape keeps the order of byte strings since
  the end, `00 01`, sorts before an escaped zero, `00 ff`, and both before any other
  cell.

Of an answer less can be said than of a value: a name is kept once, a reason is
dropped from an exact answer, an unknown kind keeps its bytes, and so what is read
need not be what could be written. What its readers do keep is stated apart.
- `Recalls(f, X, W)` is the part of `Undoes` that they keep: `f` reads back what `W`
  writes of any of `X`, whatever follows. It goes from texts and values to each part of
  an outcome by the same lemmas, and the fields added later are read also of a wire
  that ends before them.
- `OutcomeUnderstood`: whatever kind of outcome a node of any build writes, what is
  read is `Meant`, the fields that node wrote and nothing claimed of the others.
  What a later build put behind them stays in the outcome's own slice.
- `AnswerInv` says of the wire where it came from, and of what was read that it was
  read of that wire. `CutAnswerIsRefused`: what `readAnswer` accepts it accepts alike
  with more behind it, so a cut answer that was read would leave the whole with a
  rest.
- `OutcomesStandApart`: a wire that differs only in the body of outcome `j` is the
  same slices but one. If that one still reads, the lengths put every other in its
  place; if not, the count is never reached and the whole is refused
  (`RepeatedStuck`).

**`BuilderProofs`** (`SpansAreRead`, `RendersWhatWasAsked`), for any number of calls,
every depth of filters and spans of every length.
- `SpansAreRead`: the rounds of `checkSpan` accept exactly the strings that can be cut
  into digits and units. Reading the longest unit first loses none: behind a unit that
  begins with another comes a digit or the end, so only one of them can be meant.
- `IInv`, beside that the calls are a list, has three parts. `Built` and `Gathers` relate the statement to the calls, each
  field to the calls that feed it: the projection and the order to all of theirs, a
  clause to the last, a name to the last `Set` of it, and the error to the first
  refusal. `RenderedFrom` says that what is out came from the statement as it is.
- Writing comes apart from reading. Without a refusal among them, the pieces are the
  text and the values are bound as it goes, so that a reference leads back to its value
  and references count up; with one, nothing is written.
- Each clause is then read in its place, whatever stands before and behind: an item
  list up to its last comma, a filter of depth `d` by induction on `d`, an absent clause
  since what stands there instead is a word of its own. `StatementIsRead` puts them
  together, and `MeaningIs` says that a statement that was built from the calls is
  what they meant.

Only model-checked:
- all liveness (`CallsReturn`, `FeedEnds`, `ExecuteReturns`, `ComesFree`, `StopEnds`,
  `EveryJobEnds`, `EveryMessageAcked`), since the prover handles neither fairness
  nor `ENABLED`;
- `TransportsAgree` of `Scripts`. JSON nests and its readers are recursive operators,
  which the provers cannot reason in the presence of. The run `outcomes` checks the
  theorems on answers too, in `ScriptSpec`, whose steps on the wire are those of
  `AnswerSpec`.

## What the models assume

- A node keeps the 16 MiB ceiling on what it sends. A larger frame leaves its
  body unread on a connection that stays usable (`frame.go:150`).
- A script selects before it works, and a node that redirects it has done neither.
  A connection on which a subscription was taken executes nothing (`conn.go:160`)
  and is left to `Conn`.
- A length or a count fits its cell (`AnswersAssumption`; `Encode` of `Values` refuses
  one that does not). The code truncates it (`uint32(len(...))` in `bytes.go:73` and
  `encode.go:73,108`), from 4 GiB on, which is 256 times what a frame may hold.
- The random holders of `Lock` do not repeat.
- `EveryJobEnds` is about a queue run without `Only`: with a filter, a job no worker
  takes stays where it is.
- A text is UTF-8. Go's `string` does not see to it: `Encode` writes any, `Decode`
  refuses what is not (`bytes.go`). In the model this is a cell that no text has.
- A decimal's mantissa fits its 128 bits, as `value.go:38` says; nothing in the code
  looks (`bytes.go:61`).
- Over HTTP, the kinds and names the caller brings are the right ones. A float is a
  cell, and a NaN the canonical one. A zero coordinate loses its sign as a float does. An array
  holds no none, which JSON has no word for there, and a row's value is never none:
  `scriptRecords` would read an absent value as null (`script.go:199`), and
  `Interpret` asks for `Absent{}` (`jsonvalue.go:11-13`).
- Frame bodies, parameters, records and values are abstracted, in the modules of
  processes, to what becomes of them: good, unencodable, too long, cut,
  undecodable.
- HTTP status codes are 200, 401 and everything else; `net/http`'s own behaviour
  (redirects, connection reuse) is not modelled.

## Where comments and code disagree

Besides the two runs, modelling met these; the models have the code's behaviour.

| the documentation | the code |
|---|---|
| a `Conn` is not safe for concurrent use (`conn.go:56-57`) | every method that exchanges frames takes its mutex, and calls of several goroutines are answered each with its own answer (`AnswerMatches`, for any number of them) |
| this session's namespace and database are selected on a hop first (`conn.go:142-144`) | not if the node redirects the `USE` too: `arrive` takes that for success and sends the script (`follow.go:111`), the exception `bare` of `RunsInTheSession` |
| one spelling stays lossy with the kind supplied, that of -0.0 (`kind.go:17-20`) | so do coordinates that are not finite, all read as NaN (`jsonscalar.go:66-69`), and a datetime outside the years 0000 to 9999 is refused (`jsonscalar.go:179`) |
| an unknown frame kind closes the connection (`frame.go:51`) | the call fails and the connection stays in use |
| a redirect is never retried against its sender (`conn.go:39-40`) | it is, up to `mostHops` times |
| the first authenticated call opens a session (`src/README.md:347-349`) | only `OpenSession`, or a 401 to a token, does |
| what is discarded is the token that stopped working (`http.go:168-171`) | the comparison is with the token read after the 401 (`http.go:182`), which may be another goroutine's fresh one |
| `Lock` answers nil when somebody else holds it (`cache.go:246-247`) | also for the millisecond that `'free'` lives after a `Release` |
| a duration's product is guarded, so that it cannot wrap (`jsonscalar.go:143-144`) | only the product of seconds is; the sums, and the product of nanoseconds, wrap |

## Not modelled

- **Resuming a feed** over reconnections (`conn.go`, `narrowed.go`): a reader that
  comes back with the last sequence, cursor or progress it saw. The client keeps
  none of it: the caller does, and the code only puts the number into the frame.
- **Cache containers** (`cache_containers.go`) and the paging of `Keys`: each
  operation is one statement, and its answer one or two fields of a row; what a
  page leaves out is the node's promise.
- **Vault** (`vault.go`, `vault_statements.go`): each operation is one frame, whose
  exchange is in `Conn`, and reads its result field by field.
- **TLS trust** (`tls.go`): one comparison in a callback of `crypto/tls`.
- **Refusals and redirects as bytes** (`outcome.go`, `conn.go`): texts and numbers in
  a row, read in the order they are written.
- **Series, files and health over HTTP**: `send` is modelled, what they read out of an
  answer is the library's JSON into a struct.
- **Names and quoting in the builder** down to characters: a string is a name or is not.
- **A nil filter**: `Where(nil)` clears the filter, and a nil inside `And` or `Or` panics in
  `Render` (`filter.go:93-105`); callers give a filter.
