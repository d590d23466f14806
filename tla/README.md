# A TLA+ verification of the KSeF Go SDK

ksef-go is a Go client library for KSeF, the Polish e-invoicing service: it
authenticates, opens an interactive session, encrypts and submits invoices,
polls for their fate, downloads the results and closes the session. Everything
it does is a conversation with a remote server over HTTP, through a client
that repeats requests. What is hard about it is therefore not computation but
what the library may conclude from an answer, or from the lack of one, when
requests are repeated, delayed, lost or overtaken by a deadline.

Paths are relative to `src/`; `client.go` is `internal/httpclient/client.go`
unless a directory is given.

## 1. Inventory

| Part | State | Operations | Correct when |
| --- | --- | --- | --- |
| HTTP client, `internal/httpclient` | none between calls; per call: loop counter, last error, last body, timer | `Get`, `Post`, `Put`, `Delete`, `PostRaw`, all through `do` and `execute` | success means that the server acted on the last request; retries are justified, paced and bounded; the error returned is the last one; the call returns |
| Online session, `pkg/ksef/session` | reference number, keys and access token, immutable after opening | `OpenOnline`, `WaitUntilActive`, `Status`, `Terminate` | a returned session has been open; a terminated one takes no more invoices; the wait is patient and bounded |
| Invoices, `pkg/ksef/invoice` | none | `SubmitInvoice`, `GetInvoiceStatus`, `PollUntilProcessed`, `DownloadInvoice`, `DownloadUPO`, `QueryInvoices` | an acknowledged invoice is held by the server; a verdict is final and about this invoice; iterating a query misses nothing |
| Authentication, `pkg/ksef/auth` | none between calls; per call: challenge, operation token, deadline | `TokenAuthenticator.Authenticate`, `XAdESAuthenticator.Authenticate` | tokens returned are those of a finished operation; the one redemption is not wasted; the call returns |
| Batch example, `examples/batch` | goroutines, buffered channel, WaitGroup, counters | submit in sequence, poll concurrently, collect, terminate | no send on a closed channel, no goroutine blocked for ever, honest counts, the session is terminated |
| Basic example, `examples/basic` | sequential program | one invoice: submit, poll, download, terminate, save the receipt | the receipt is that of an accepted invoice; the session is terminated |
| Invoice builder, `pkg/ksef/fa3` | setters' fields and line items | setters, `Build`, `Validate`, `MarshalXML` | the VAT summary agrees with the lines |
| Cryptography, `pkg/ksef/crypto` | none | AES-CBC, PKCS#7, RSA-OAEP, `SignXML` | the server can read what is encrypted, and nobody else; padding is unambiguous; a verifier accepts what is signed |
| Facade, `pkg/ksef` | settings | `NewClient`, options | (no request of the library uses these settings: every manager takes an `httpclient.Client`) |

**Interaction.** Session, invoice and authentication packages call the HTTP
client and nothing else; it is immutable, so calls that share it do not
interact in the library. They interact on the server, and that is where the
models put the shared state. The invoice package reads the session's reference
number, keys and token; the crypto package is called by the invoice package
(encryption) and by the authentication package (the signed challenge). Only the
batch example starts goroutines.

**What is hard.** (a) The client repeats every request, also a POST, after a
network error, a 429 or a 5xx: a lost answer means two copies, and a copy may
arrive after the call has returned. (b) Three polling loops with different
budgets and deadlines, each racing the answer. (c) Contexts that end between
any two steps, with `select` choosing either branch. (d) Operations of several
requests where a later one fails (`OpenOnline`, `Terminate`, `Authenticate`).
(e) Goroutines, channel and WaitGroup of the batch example, with `log.Fatalf`
as a way out. (f) Paging through data that changes. (g) A signature over text
that the code writes by hand in the form in which a verifier will see it.
`PROJECT.json` lists the hazards with their lines.

## 2. Plan

In the order of the work, most important behaviour first. Done:

1. *HttpCall*, the contract of one call; *HttpClient*, `execute` in detail,
   implementing it; *HttpClientProofs*.
2. *OnlineSession*, sessions and invoices over calls that behave as HttpCall
   says, with *OnlineSessionProofs*; *Authentication* and *PollingLoops*, the
   timed loops, implementing *StatusPolling*, with *AuthenticationProofs* and
   *PollingLoopsProofs*.
3. *ExamplePrograms*, both programs and their goroutines, with
   *ExampleProgramsProofs*; *InvoiceQuery*, paging, with *InvoiceQueryProofs*;
   *InvoiceBuilder*, the amounts of an invoice and who may change them, with
   *InvoiceBuilderProofs*.
4. *Encryption*, padding, envelope and submission, composed with the session
   in *EncryptedSession*; *Signing*, the signed request, composed with
   authentication in *SignedAuthentication*. Their theorems are in the proof
   modules of session and authentication.
5. *NaturalLemmas*, induction and recursion in a form the provers can use, and
   with it the pace of retries and polls and the amounts of an invoice.

Left:

6. Composition: each call of OnlineSession and Authentication shown to
   implement HttpCall by an instance per call, instead of by construction.
7. The query filters, should the library begin to validate them.

## 3. Modules

**HttpCall** (abstract). Up to `MaxRetries + 1` copies of a request leave one
after the other, none after the return. Each is acted on or refused by the
server at any later time, or never. "done" needs the last copy applied,
"refused" needs it rejected, "unknown" says nothing.

**HttpClient** is `do` and `execute` statement by statement: `pc` is the
position (`do`, `loop`, `inflight` = inside `httpClient.Do`, `reading` =
`io.ReadAll`, `sleep` = `sleepContext`, `returned`), `attempt`, `respBody` and
`lastErr` are the variables of `execute`; a body and an error are represented
by the attempt they stem from, so that staleness is visible. `fate` is what
happened to each request on the server's side, independent of what the client
learns: the server may act before, after or without an answer arriving, and a
5xx says nothing about whether it acted. A 429 and any other 4xx mean that it
did not: this assumption about KSeF is in `ResponseArrives`. `answer` and
`slept` are history variables for the properties. The refinement mapping sends
a 4xx to "refused", every other error to "unknown".
The instance has one status per branch of the code.

**OnlineSession** has one caller and one server. `reqs` holds every copy of
every POST, so copies of earlier calls can arrive during later ones; the
copies behave as HttpCall says, except that a refused copy is simply never acted
on, like a lost one. A GET has no effect. A session and an invoice
are named by the copy that created them, which is how a duplicate of a
repeated submission becomes visible. A 2xx body may lack what the caller looks
for: `encoding/json` then leaves the reference number empty (`NoNumber`) and the
code of a status 0 (`noCode` for an invoice, one of the codes called "preparing"
for a session), and the library goes on with it. The caller keeps to the
documentation of `OnlineSession` (one operation at a time) but may submit again
what failed and may terminate twice, as the examples do. `failedOpens` is
history: the copies of every `OpenOnline` that returned an error.

**PollingLoops** has a clock and runs either of the two loops with growing
delays: `WaitUntilActive` (`session/online.go`), with its budget of polls and
the derived context with a deadline, and `PollUntilProcessed`
(`invoice/status.go`), whose delay doubles up to 30 s and which has no end of
its own. The clock may tick at any point, requests take any time. The answer
may lack a status: its code is 0 then, which `IsTerminal` takes for the end,
against its documentation (run `missing_status`). The contract does not count
that as a success, and the loops are shown to implement it as long as answers
have a status (`HasStatus`).

**Authentication** covers both authenticators: they send the same requests
and differ in where bad credentials stop them (`kind`). The server takes one
challenge per operation and hands out the tokens once. The outcome that is
compared with the contract is that of the loop, taken from what the call returned:
a time-out or an error after status 200 was read is no success.

**StatusPolling** (abstract): a polling loop never asks after a status that
settles the matter, and succeeds exactly on the statuses it waits for. Which
these are comes from the documentation of each loop.

**ExamplePrograms** runs either program from `main` to the end of the process.
The step after each step is a table per program (`BasicProgram`,
`BatchProgram`); a failed step ends in `log.Fatalf`, which runs nothing else,
a missing counter in a panic, which runs the deferred `Terminate` first. The
batch program has one goroutine per poller, the channel, the WaitGroup and the
closing goroutine. HTTP calls return or fail at any time and fail once the
program's context is done. The delays of the pollers only decide when they act
and are left out.

**InvoiceQuery** is the paging of `invoice/query.go`: the library computes the
`pageOffset` parameter and `NextPageOffset`; the caller iterates the way the
comments on `QueryResult` say; the server's records are a sequence into which
invoices are inserted anywhere, and `OffsetUnit` says what the server counts. An
answer that was cut off may or may not say that there is more, and the caller
narrows the range in either case.

**InvoiceBuilder** is a builder whose setters are called in any order and
again after `Build`. Amounts are integers in grosze (VAT in hundredths), since
the documented net values have two decimals; a value that does not parse is a
given value of 0, as for `ParseFloat` with its error dropped. A rate without a
constant of its own is parsed, too: `ParsedRates` is what comes out, a whole
percentage. `SumOver` is the loop over the lines, one accumulator at a time, in
exact arithmetic. Rounding a sum
that is exactly half a grosz may go either way, as `%.2f` of the float64 does.
`cells` is the memory behind `*Adres`: `SetBuyer` takes a cell that nothing
points to, an invoice keeps pointing to the one it was built with. A NIP has a
length in bytes and a flag for its runes. Error texts, annotations and fields
that are only copied are left out.

**Encryption** is `crypto/aes.go`, `crypto/rsa.go` and the message that
`SubmitInvoice` builds, on sequences of bytes. Padding is modelled byte by
byte; the block cipher, RSA-OAEP and SHA-256 are symbolic: the result records
what it was made from, and decrypting with another key or IV gives nothing
useful. Every check of a length in the code is a condition here.
**EncryptedSession** puts it into the session whose key and IV are used, and
states what must be readable when `SubmitInvoice` posts; the texts, keys and IVs
are constants, any byte strings.

**Signing** is the signed `AuthTokenRequest`: what `buildAuthRequestDoc` and
`SignXML` write, with namespaces and escapes, and a verifier (an XML parser,
Canonical XML 1.0, XML Signature) that recomputes the canonical form of every
element in the place where it stands. The code never canonicalises: it writes
each element as it will look, and whether it succeeds is what is checked.
**SignedAuthentication** puts it into the XAdES flow; texts and keys are
constants.

MC modules (`MCHttpClient`, `MCOnlineSession`, `MCAuthentication`,
`MCInvoiceBuilder`) hold values and symmetry sets that a configuration cannot
express. Operators named `X_Y` with a comment
"Mutant" are plausible bugs in `X`; they are used by nothing and show that
the properties notice them.

## 4. What the runs show

| Run | Question | Instance |
| --- | --- | --- |
| `http_call` | Is what a call reports true, are its retries justified and paced, does it return, does it implement HttpCall? | three attempts, a status per branch, Retry-After absent, negative, longer than any back-off, longer than a `Duration` |
| `online_session` | Does what opening, submitting, polling and terminating returned stay true of the server, and can the server read what was submitted? | two invoices, two copies per call, five copies in all; all texts of up to four bytes, all decrypted strings of up to two blocks |
| `polling_loops` | Are polls paced, does each loop end, is each a proper polling loop? | `WaitUntilActive` with its constants in units of 200 ms; `PollUntilProcessed` with intervals of 0, below and above its cap |
| `authentication` | Are tokens real, is the redemption safe, is the time-out not early, does the call return, and does a verifier accept the signed request? | two copies per POST, a time-out of six intervals; all challenges and identifiers of up to two characters |
| `example_programs` | Do goroutines, channel, WaitGroup and counters agree, is the session closed, is the receipt earned, do both programs end? | the three invoices of the batch program, the one of the basic program, deadlock checked |
| `query` | Does iterating miss nothing while invoices arrive, and do pages not overlap? | six records, pages of two, a limit of three, offsets in records |
| `builder` | Do total, summary and VAT amounts agree but for roundings, and does a built invoice stay as it is? | at most eight calls and two lines; a line per rate, VAT above, below and at half a grosz, a discount, rates without a field (NN, 22, 7, a code that is no number) |
| `neg_retries` | Does a call that reports success perform a request? No: with `MaxRetries = -1` `execute` returns `nil, nil` at once (`client.go:99, 172`) | as `http_call` |
| `wait_deadline` | Does the wait last until its documented 10 s deadline? No: it gives up when its 6.2 s of delays are spent (`session/online.go:179`) | as `polling_loops` |
| `deferred_terminate` | Is the session always terminated, as the comments on the deferred calls say? No: `log.Fatalf` skips deferred calls (`examples/batch/main.go:194`) | as `example_programs` |
| `paging` | Does iterating by `NextPageOffset` see every invoice if `PageOffset` counts pages, as its comment says? No (`invoice/query.go:514`) | six records, pages of two, offsets in pages |
| `missing_status` | Is a status that `PollUntilProcessed` returns final? No: an answer without a status has code 0, which `IsTerminal` takes for the end (`invoice/types.go:51`, against `types.go:47-48` and `status.go:33-40`) | as `polling_loops` |

The last five are expected to be violated: each states what a comment of the
code promises, and is a finding in `PROJECT.json`.

Points that the properties make precise:

- A network error can hide a success, so `RepeatsAreUnavoidable` says the most
  that can be said: a second copy leaves only when the client could not know
  better. `AbandonedOnlyAfterTrouble` and `VerdictIsTrue` state what remains of
  this at the level of sessions and invoices: every orphaned session is one that
  an `OpenOnline` with an error asked for, or an earlier copy than the one that
  was answered, and a "duplicate" means that another copy of the same document
  was accepted.
- `VerdictIsTrue` speaks about verdicts with a code. One without says nothing,
  and may be returned of an invoice in process: that is the finding of
  `missing_status`.
- `AcknowledgedIsHeld` holds also if the answer names no invoice: the document is
  held, and cannot be asked for.
- `ErrorIsAboutLastAttempt` allows an older body next to a newer network error
  and nothing else: that is what `return respBody, lastErr` does.
- `RetriesArePaced` excepts a Retry-After that is too long for a
  `time.Duration`: its conversion (`internal/httpclient/retry.go:48`) is out of range, which Go
  leaves to the platform. `Duration` in HttpClient has both outcomes, a sleep
  that ends at once (amd64) and the longest one (arm64).
- `CountsAreHonest` does not say that rejected means rejected: a failed poll
  is counted as rejected (`examples/batch/main.go:236`).
- `LeavesNoOpenSession` leaves out `log.Fatalf`, which is the subject of
  `deferred_terminate`, and includes the panic over a session without counters
  (`examples/batch/main.go:266`).
- `SignaturesVerify` is an equivalence: the signature verifies exactly if the
  key is the certificate's, which `parseCertAndKey` does not compare, and the
  texts hold no carriage return and nothing that is illegal in XML (control
  characters, invalid UTF-8), which `xmlEscapeText` writes as they are. A NIP
  of digits has neither; that challenges have neither is up to KSeF.
- `SummaryReconciles` takes the rates that have a field from the documentation
  of the fields (`fa3/types.go:347-381`), not from the function under test: each
  of their lines is in the summary, once. It names what keeps the fields of an
  invoice from adding up to P_15: half a grosz for each rounding, the lines with
  other rates (NN, a rate of the schema without a case), and OO lines next to NP,
  whose sum overwrites theirs in P_13_8 (`fa3/builder.go:299`) although
  `fa3/builder.go:292` gives the field to both.

Seen while reading, and not a matter for a model: the documentation of
`SubmitInvoice` says that a fresh IV is prepended to the ciphertext
(`invoice/submit.go:33-34`), while the code uses the session's IV and prepends
nothing (`invoice/submit.go:53-55`), which is what the server expects; the
constants "0", "ZW", "OO", "NP" and "NN" are not among the codes of `TStawkaPodatku`
(`testdata/fa3-schema.xsd:1864-1912`), `assemble` sets P_19N also for exempt
lines (`fa3/builder.go:176`, against `fa3/types.go:550-551`), and `validateNIP`
accepts five two-byte digits as ten.

### Bounds

Three attempts give every order of first, middle and last failure; the fourth
of the default configuration adds no new position. Five copies in
`OnlineSession` let an open and a submission be repeated, or two submissions
with one repetition and a close follow an open, and every earlier copy arrive
late. `WaitUntilActive` needs no scaling; the six repeated polls of
`PollUntilProcessed` (`MaxPolls`) take its delay from the shortest to the cap
and beyond. `MaxPollClock`, 26 ticks, stops its clock after all six from an interval
of 0, four from 3 (3 + 6 + 8 + 8 = 25) and two from 12 (12 + 8 = 20), hence after
the first capped pause from either. `Encryption` has blocks of three bytes and keys of two, so that texts
of none, less than one, exactly one and more blocks occur, with bytes that look
like padding and bytes that do not; in `Signing` two characters give every pair
of neighbours. In `Authentication` a time-out of six intervals separates polls before, at and after the deadline; `MaxClock` is a
few ticks beyond it and stops the clock in states where the loop must already
have decided. `InvoiceQuery` has room for three pages, two truncations, and up
to six arrivals. In `InvoiceBuilder` six calls give the smallest invoice with a
buyer and eight leave two for a second line or changes after `Build`; the
properties relate pairs of lines and pairs of fields, so that two lines reach
every case; that this goes on for any number of lines is proved. `MaxClock`, `MaxPollClock`, `MaxPolls`, `MaxRequests`, `Records`,
`MaxItems` and `MaxCalls` are bounds of the models; all other constants are parameters of the code.

### Fairness

Goroutines run and timers fire (weak fairness of their steps); time passes. A
request returns if its context is over or the `http.Client` has a time-out
(`net/http`); that is why `CallReturns` has a premise, and `NewClient` and both
examples set 30 s. The modules above the client assume that their calls return,
which `CallReturns` establishes under that premise. Nothing is assumed of the
server, the network or the caller's context, except in the examples, whose
context ends because the programs say so (`examples/batch/main.go:82`,
`examples/basic/main.go:66`). In `PollingLoops` a status request is only assumed to
fail once the context is done, and `PollUntilProcessed` to end only once its
caller's is. `select` is not assumed to be fair.

`CHECK_DEADLOCK FALSE` is used where the modelled call or conversation ends and
nothing is left to do; `example_programs` checks deadlock, with a stutter for the
ended process only.

## 5. What is proved

`HttpClientProofs` holds theorems for every `MaxRetries`, `BaseDelay`,
`MaxDuration`, set of statuses and set of Retry-After values allowed by the
assumptions of `HttpClient`:

- `TypeCorrect`: the type invariant, which includes that no timer waits longer
  than a `time.Duration`;
- `SuccessIsRealThm` (for `MaxRetries >= 0`), `BudgetSpentThm`,
  `RepeatsAreUnavoidableThm`;
- `SuccessMeansPerformedThm` (for `MaxRetries >= 0`): what `neg_retries` refutes
  for a negative budget holds for every other;
- `CallMakesProgress`: `StepsLeft` is a natural number that every step of the
  call lowers and no step of its context or of the server changes, so that a
  call returns within `(MaxRetries + 1) * (MaxDuration + 5) + 2` steps of its
  own. What is left of `CallReturns` is that these steps are taken;
- `ErrorIsAboutLastAttemptThm`: what `execute` returns next to an error, whose
  `respBody` outlives the attempt it was read in;
- `RetriesArePacedThm`: the pauses between attempts;
- `ImplementsHttpCallThm` (for `MaxRetries >= 0`): the detailed loop implements
  the contract.

The properties are not inductive: none speaks about the attempts before the
current one while the call runs. The inductive invariant `IInv` adds that all
earlier attempts have been answered with something worth retrying (`PastInv`),
that no request beyond the current attempt has left (`FutureInv`), what
`lastErr`, `respBody` and `resp` refer to at each `pc` (`LastErrInv`,
`ResultInv`, `ResponseInv`), and that an answer is consistent with the fate of
its request. `LastAttemptInv` and `BodyInv` add of which attempt error and body
are, `PaceInv` what the timer was set to; that the code's delay, which is
doubled in a loop, is `BaseDelay * 2^n` is `BackoffIsExponential`, by induction.
Each action has a lemma that it preserves `IInv`; the theorems
follow from `IInv` by temporal logic. For the refinement, every action maps to
one action of HttpCall or a stutter; only a return and the sending of a request
are visible, and `IInv` supplies the last copy.

Assumptions: `BackoffFits` (no doubling of the base delay leaves int64, which
holds for every configuration that can be waited for), `RetryAftersAreIntegers`,
`BaseDelayIsInteger`, `RetriesAreInteger` and `StatusesAreCodes`. TLC evaluates
them in the runs.

`InvoiceBuilderProofs`, for all parties, lines and addresses, any number of
lines and any number of calls:

- `BuiltIsFrozenThm`. Its invariant `AddressInv` says that the address of every
  buyer, in the builder or in the invoice, is in a cell; without it nothing
  could be said of a cell that is not written.
- `VATIsOfTheBaseThm` and `SummaryReconcilesThm`. `DocumentInv` says that the
  amounts of an invoice are those of its lines, formatted. `SumIsAddedUp` opens
  the recursive function behind `SumOver`, once; `SumIsLinear` follows by
  induction over the lines, and from it that the VAT accumulated for a rate is
  exactly that rate of its base (`VatIsPercentOfBase`) and that the gross sum
  splits into the sums of the fields (`GrossSplits`, used once per field). The
  rates left over are those without a documented field and the overwritten OO
  (`LeftOutIsTheRest`), and what is left between P_15 and the fields is the
  rounding of the total and of each VAT amount that is shown. The theorems are
  about exact sums of whole grosze, not about what float64 makes of them.
- `TypesAreKept`: `BuildTypes` is where `Validate` matters, which lets no seller,
  number or buyer through that was not given.

The assumptions are that lines, dates and payments have their fields
(`InputsAreTyped`), that every rate has a constant or a number
(`OtherRatesAreParsed`) and that nil is not a number (`NilIsNoAmount`).

`OnlineSessionProofs`: `TypesAreKept` and the five safety properties
(`SessionWasOpenedThm`, `AcknowledgedIsHeldThm`, `VerdictIsTrueThm`,
`TerminatedIsClosedThm`, `AbandonedOnlyAfterTroubleThm`) for any set of
invoices and any numbers of copies and requests. None is inductive: what the
caller was told rests on copies that may still be under way. `IInv` adds where
the caller stands (`PcInv`), that every copy of a submission or a close names
the session the caller holds (`ReqInv`), that the server's state and the fates
of the copies agree (`ServerInv`), and that what was seen is of a kind that
never changes again (`ToldInv`, `HandleInv`).

The same module proves what is posted readable: `PaddingIsInvertedThm` and
`MessagesAreReadableThm` for all byte strings, all keys and IVs, and every block
size up to 255 (`BlockSizeFitsAByte`), over the arithmetic of remainders in
NaturalLemmas. These hold in every state because they are facts about the
operators (`UnpadInvertsPad`, `UnpadAcceptsOnlyPadded`, `EnvelopeInverts`,
`SubmissionIsReadable`); that the primitives behave as their symbolic forms is
assumed.

`AuthenticationProofs`: `TypesAreKept`, `TokensAreRealThm`,
`RedeemsAfterSuccessThm`, `TimesOutLateThm` and `ImplementsStatusPollingThm` for
every interval, time-out and number of copies.
`ServerInv` relates the tokens to the one redemption that was acted on;
`CallerInv` says that none has left while the loop runs, `OutcomeInv` what
success and time-out rest on. `SignaturesVerifyThm`, for all keys and all texts
over the characters of `Signing`, which stand for classes of characters, is like
those on encryption a fact about operators.

`PollingLoopsProofs`: `TypesAreKept`, `ImplementsStatusPollingThm` and
`PollsArePacedThm` for all delays, budgets and time-outs, the second for answers
that have a status. `AnswerInv` says that a
loop that goes on has last seen a status that does not settle the matter;
`PaceInv` that the delay of the code, doubled and capped step by step, is the
closed form `Pause` of the comments, and that the clock is past the sum of those
slept. `WaitMakesProgress`: `WaitUntilActive` takes at most `3 * MaxRetries + 2`
steps of its own, whatever the session, its caller and the clock do meanwhile.

`ExampleProgramsProofs`: `TypesAreKept`, `ChannelIsSafe`, `CollectorIsExact`,
`CountsAreHonestThm`, `SessionsAreClosed` and `ReceiptIsEarned` for every number of invoices. The
heart of `IInv` is `TallyInv`: the WaitGroup's counter is the number of pollers
under way, and the counters and the channel hold together exactly one entry per
poller that has sent. That the channel is closed only when all have exited
(`ClosedInv`) follows from it, and from that the other properties.

`InvoiceQueryProofs`: `TypesAreKept`, `NothingMissedThm` and
`PagesAreDisjointThm` for every number of records, page size and limit, under
the assumption that offsets count records (`InRecords`); without it the run
`paging` shows the opposite. Records are seen by place, and places move with
every arrival. `SeenInv` says what survives: of the records that were stored at
the beginning, all those before the next page, wherever they are now, have been
seen. The type invariant of InvoiceQuery is proved and not part of a run.

`NaturalLemmas` is what these proofs share. The library states induction for a
predicate given as an operator, which the provers cannot instantiate; stated for
a set (`InductionOnSet`) it follows from the least element of a set of numbers
and can be cited. `PrimitiveRecursion` says that a recursive function on the
numbers exists, `PowersOfTwo` how `^` goes on, which the library does not.

Assumptions on constants (`LoopConstants`, `AuthConstants`, `ExampleConstants`,
`QueryConstants`, `MaxCopiesIsPositive`, `MaxRequestsIsNatural`,
`NoInvoiceIsNoInvoice`, `KeysAreNotEmpty`, `InputsAreBytes`,
`TextsAreCharacters`) say that they are numbers of the right sign, or texts of
the right characters; TLC evaluates them in the runs.

Every safety property that a run checks is stated by a theorem. Only
model-checked is liveness (`CallReturns`, `LoopReturns`, `AuthenticateReturns`,
`ProgramEnds`), because fairness and ENABLED are outside the prover's reach. The
measures behind the first two are proved (`CallMakesProgress`,
`WaitMakesProgress`); the other two end by a clock or a context, which no
measure of the program's own steps bounds.

## 6. What is not modelled

- Contents of requests and responses other than the encrypted invoice and the
  signed challenge: URLs, headers, JSON. A response that cannot be decoded
  counts as a failed call. Of what a 2xx body may lack, the status and the
  reference number are modelled, not the rest: a redemption that is answered
  without tokens returns empty ones, a challenge may be empty.
- Arithmetic of float64: errors that add up over many or large lines, and the
  infinities and NaN that `ParseFloat` accepts.
- The query filters, which are copied field by field; error texts and logging.
- FA(3) marshalling: declarations with tags and one call of `encoding/xml`.
- The strength of AES, RSA and SHA-256, which are symbolic; PEM parsing and the
  generator of test certificates, which are calls of the standard library.
- The facade's options: no request reads them.
- What the examples print.
