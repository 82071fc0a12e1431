# TLA+ specifications of TallyWhatsApp

TallyWhatsApp sends invoices and receipts from the accounting program Tally to
a customer's WhatsApp. These modules specify the parts of it whose correctness
rests on interleaving, failure, ordering and time; TLC checks them on small
instances, and TLAPS proves their safety properties for every value of the
constants.

Contents: [the system](#the-system) · [the modules](#the-modules) ·
[the runs](#the-runs) · [disagreements](#where-the-code-and-its-comments-disagree) ·
[fairness](#fairness) · [proofs](#proofs) · [what is left out](#what-is-left-out) ·
[hazards](#hazards) · [plan](#plan)

## The system

Tally runs a TDL script that calls a COM object (C#) in its own process. The
object signs an HTTP request and posts it to the service `tallywa-svc` on the
same machine, whose port and secret it finds in the registry. The service
checks the signature, stores the message in a durable queue and answers. One
worker goroutine takes messages from the queue and hands them to WhatsApp. A
tray program shows a dashboard: status, pairing QR code, recent sends, Resend
and Restart buttons. The service works when a licence is activated, which a
separate program, the issuer, signs for a token that a payment has produced.
`Backend-Bridge` is the older form of the service.

| component | code | state | operations | what makes it hard |
|---|---|---|---|---|
| Outbox | `tallywa/internal/outbox` | BoltDB buckets `items`, `idem`; time of the last receipt in memory | Enqueue, Requeue, Step (claimNext, Send, markSent, markFailed), Open with recovery | crash between send and record, refused writes, double clicks, Resend against the worker, retry limits, cooldown |
| WhatsApp sender | `internal/whatsapp/whatsapp.go` | none | Send: one or two parts | part of a voucher fails after the other went out |
| WhatsApp client | `internal/whatsapp/meow.go` | state and QR atomics, the device, a QR goroutine | Start, Stop, Logout, Reconnect, events, QR items | callbacks against control requests, two stores that belong together |
| Loopback authenticator | `internal/loopback` | cache of nonces | sign, authenticate, cleanup | clock readings that are old when used |
| Issuer | `cmd/tallywa-issuer` | SQLite table `tokens` | mint, webhook, redeem | repeated webhooks, concurrent redemptions, lost answers |
| Activation | `internal/activation`, `internal/license`, `internal/fingerprint` | licence file, its temporary file, licence in memory | activate, load at start | timeout after the issuer redeemed, two activations at once, adapters that come and go |
| HTTP API | `internal/httpapi` | licence pointer | handlers over the above | keys from a five-minute bucket, restart request |
| Service | `cmd/tallywa-svc`, `internal/svc` | start-up order | Run, stop | shutdown during a send |
| Handshake | `internal/handshake` | registry values | publish, load | a port that was true before the restart |
| Tally patcher | `internal/tally` | `tally.ini`, its copy and its temporary file | patch, unpatch | several processes and an editor on one file, matching of lines and paths |
| Updater | `cmd/tallywa-updater` | its temporary file, the installed package | fetch, compare, download, install | overlapping runs, an arbitrary server |
| Tray, dashboard | `cmd/tallywa-tray` | a snapshot of the service | poll, forward clicks | – |
| COM object | `Tally-COM-Interface` | a thread per press | send with retries | retry of what was accepted, late answers |
| Backend-Bridge, sender | `Backend-Bridge/api`, `validation` | receipt channel in memory | the three POST handlers, the queue worker | channel full, second of two parts fails, restart |
| Backend-Bridge, store | `Backend-Bridge/main.go` | tables of chats and messages | live event, history event | two goroutines on the same chats, writes that fail |
| Backend-Bridge, start | `Backend-Bridge/main.go`, `config` | settings, session, connection | load, connect, pair, serve | one bad setting, a code nobody scans, removal by the phone |
| TDL, installer, site | `Tally-TDL`, `installer`, `landing`, ... | – | – | – |

How they interact: the COM object and the dashboard call the HTTP API, through
the loopback authenticator; the API writes to the outbox and never to WhatsApp;
the outbox worker is the only caller of the sender, and the sender of the
client; WhatsApp calls the client back with events. The API calls the
activation client, which calls the issuer; the payment provider calls the
issuer. What is shared between goroutines is: the BoltDB file (one writing
transaction at a time), the receipt time (a mutex), the nonces (a mutex), the
client's state and QR (separate atomics), the licence pointer (an atomic), the
issuer's SQLite (one connection), `license.dat.tmp` and `tally.ini.tmp` (nothing
guards them), and in the bridge a channel and SQLite, statement by statement.

What makes each correct, in a sentence: the outbox loses nothing it accepted
and repeats nothing without a cause; the authenticator lets a signed request
through once; the issuer gives a payment one token and a token no more machines
than were paid for; the client shows the state it is in; an activated machine
has one licence, in memory and on disk alike; a press of a button reaches the
outbox once; a patch of `tally.ini` loads our files and leaves the user's lines;
an update goes forward, to what was signed; the bridge sends what it called
queued once at most, keeps the messages it was given, and serves an account.

`PROJECT.json` lists the components with their files and the hazards with their
lines.

## The modules

| module | what it is |
|---|---|
| `MessageQueue` | what the outbox promises to its callers, without worker, timer, database or crash |
| `Outbox` | the outbox, its worker, the sender, the process and the connection |
| `OutboxProofs` | proofs about `Outbox`, among them that it implements `MessageQueue` |
| `Loopback`, `LoopbackProofs` | the authenticator with concurrent handlers; proofs |
| `LicenceLedger` | what the issuer promises: one ledger written by one clerk, without requests at once, counters or failures |
| `Issuer`, `IssuerProofs` | tokens, webhooks and redemptions with concurrent handlers; proofs, among them that it implements `LicenceLedger` |
| `WhatsAppLifecycle`, `WhatsAppLifecycleProofs` | pairing, connection and control requests of the WhatsApp client; proofs |
| `Activation` | activation of an installation: fingerprint, redemption, licence file, licence in memory |
| `TallyIni`, `TallyIniProofs` | the edits of `tally.ini` by installer, service, uninstaller and user; proofs |
| `WriteAtomic` | the write through a temporary file that both of these use |
| `Updater` | overlapping runs of the updater against an arbitrary server |
| `Intake`, `IntakeProofs` | from a button in Tally to items of the outbox: COM object, handshake, send handlers; proofs |
| `BridgeSender`, `BridgeStore`, `BridgeStartup`, `BridgeProofs` | Backend-Bridge: sending and the receipt queue, the message store, the start; proofs about all three |
| `MCOutbox`, `MCIssuer`, `MCWhatsAppLifecycle` | the constants that a configuration cannot write down, and symmetry |
| `MCDesktop` | the same for `Loopback`, `Activation`, `TallyIni`, `Updater` and `Intake`, side by side |
| `DesktopProofs` | proofs about `Activation`, `Updater` and `MCDesktop` |
| `MCBridge` | the same for the three modules of Backend-Bridge |

A definition whose name starts with `Wrong` is not part of a specification. It
is the definition of the same name with a bug one could plausibly write (a
dropped guard, a bound off by one, two tests in the wrong order); putting it in
place of the right one must make a property fail. `PROJECT.json` says which.

### Outbox

| in the model | in the code |
|---|---|
| `status`, `request`, `attempts`, `wait` | the `Item` records of bucket `items`; `wait[i]` is NextAttemptAt less the current time |
| `idem` | bucket `idem` |
| `pc`, `current` | where the worker is in `Step`, and the item it holds |
| `cooldown` | `lastReceiptSentAt` plus `ReceiptCooldown`, less the current time; lost with the process |
| `connected` | `MeowClient.Connected` |
| `Accept`, `Deduplicate` | `Enqueue`, one transaction |
| `Requeue` | the dashboard's Resend, one transaction |
| `ClaimNext` | `claimNext`, one transaction |
| `Dispatch`, `SendOk`, `SendUnanswered`, `SendFails` | `Sender.Send` and the client: the test of the connection, then each part in order, acknowledged, taken without an answer, or failed for a time or for good |
| `MarkSent`, `MarkFailed`, `MarkLost` | `markSent`, `markFailed`, and either with a failing transaction, which `Step` only logs |
| `Die`, `Open` | the process ends anywhere, and starts again with `recoverInflight` |

A step is one transaction or one call to WhatsApp. Time is relative: the code
only ever compares stored instants with the present, so the model keeps the
ticks that remain and `Tick` takes one away from each. `copies`, `doubtful`,
`claims`, `resent`, `reached`, `quiet`, `forgot` and `stranded` record history
for the properties; no guard of a code step reads them (the bounds on resends
and restarts do read their counters).

`doubtful` is the honest part of "exactly once": the actions that put an item
there are the complete list of ways in which a customer gets a message twice.

### Loopback

`Receive` reads the clock and tests the skew; `RememberNonce` runs up to
`ReadTimeout` later, with the reading taken then, and does the cleanup, lookup
and insertion that the code does under its mutex. Between them other handlers
run with other readings. A signature is a message that `Sign` has made; the
HMAC itself is taken as sound, and a request with a bad one is `Abandon`. The
body's deadline is that of the HTTP server.

The source asks that the TTL of a nonce be at least twice the skew and sets it
to three times. What the design needs is twice the skew plus the time a request
may spend between its skew test and its insertion: this is `TTLAssumption`,
which the code's values satisfy. With a TTL of just twice the skew the model
accepts a request twice, which `WrongExpiredAtBound` shows.

### Issuer

Each HTTP request is a handler with a program counter, a step being one
statement or transaction of SQLite (the code sets one connection). The webhook
looks the payment up (`FindByPaymentID`), inserts a token (`CreateToken`) and
answers (`AnswerWebhook`); the redemption looks the token up and draws a licence
id (`GetToken`), redeems in a transaction (`Redeem`) and signs (`Sign`).
`StoreFails` is a failing statement or signature, `Crash` the end of the
process. A code is drawn at random, so `CreateToken` may draw any, one taken
included; the insert then fails on the primary key and the handler answers 500.
`Mint` is the command line tool, another process on the same file.

`ImplementsLedger` says that none of this can be told from outside: with the
table read as the ledger, the insert is the sale, the transaction takes a seat
or turns the machine away, the signature and the answer say what the ledger says
at that moment, and every other step changes nothing. It contains that a token
is never changed and that its audit trail only grows (`AuditTrailGrows`, which
is proved as well).

### WhatsAppLifecycle

| in the model | in the code |
|---|---|
| `state`, `qr` | the two atomics of `MeowClient`; `qr` says whose code is shown |
| `device`, `mu`, `cancelFn` | the fields of the same names; clients are numbered as they are made |
| `taken`, `TakeCancel`, `CallCancel` | the local variable `cancel` of `Stop`: taken under the mutex, called after it |
| `pc[t]` | where a request is in `Logout` and `Reconnect`, or the service in `Start` and `Stop` |
| `handler[g]`, `Deliver`, `ClearQR`, `Blip` | `handleEvent` called by client g: its first store, its second, and the store after a look at the state |
| `consumer[g]`, `Receive`, `StoreAwaiting`, `EndConsumer` | `consumeQRChannel`: a code is two stores |
| `Waited` | the wait group |
| `row` | the device row of the session database |
| `link`, `paired`, `events`, `channel`, `items` | the library, see below |

`Start` and `Reconnect` share `Lock`, `Arm`, `Dial` and `DialFails`, which are
the same statements in both; `Stop` and `Reconnect` share `HangUp` and `Wait`.
`Stop` holds the mutex only while it takes `cancelFn`, and calls it without
(`meow.go:166-173`), so it runs beside a `Reconnect` that the HTTP server's five
seconds of shutdown did not wait for. Between the two a Reconnect that waits for
the consumer, with the mutex held, depends on that call of Stop's:
`ConsumerCanBeEnded` counts it, and `RequestsReturn` shows that it comes.

The library is not in the repository. What is assumed of it: a client delivers
its events one after another, and so does a QR channel its items; a QR channel
ends with a success, a timeout or an error, or without an item after its
context is cancelled; a client that is not paired does not dial again; a paired
one does, by itself, and is not connected meanwhile; `Logout` needs a login and
raises no event, nor does `Disconnect`; the first `Connect`, when it fails, is
not tried again; `Disconnect` waits for no event under way.

`ShownIsTrue` is the promise to the user. It speaks of settled states, when
nothing is left to deliver, and names the exceptions in `flaws`: *old client*,
Reconnect replaced a client that still had events to deliver or was dialling
(it is hung up only when connected, and its handler stays); *gave up*, Reconnect
returned with an error between the hanging up and the arming; *late code*, the
consumer stored `awaiting_qr` for a code that had been scanned. The last two are
mended by the next Reconnect that arms a client, the last also by a login; the
first stays until the process ends. Outside of them the state shown is exact,
in both directions for `connected`. The comment in `Reconnect` that "no event
handler from the old client can mutate our state" after the tear-down
(`meow.go:221-222`) is therefore more than the code does, if the library is as
assumed.

### Activation

| in the model | in the code |
|---|---|
| `memory` | the licence pointer of `httpapi.Server` |
| `licenseFile`, `licenseTmp` | `license.dat`, `license.dat.tmp` |
| `step[a]`, `machine[a]` | where handler a is, and the fingerprint it computed |
| `Activate`, `NoFingerprint` | `handleActivate` up to the redemption; `fingerprint.Compute` |
| `Redeem`, `NotRedeemed`, `Exhausted` | the request to the issuer: redeemed with the answer or without it, refused, exhausted or revoked |
| `Revoke` | the seller takes the key back, at an issuer that can |
| `OpenLicense`, `WriteLicense`, `CloseLicense`, `RenameLicense`, `WriteFails` | `license.Write`, with `os.WriteFile` in its three steps |
| `StoreLicense` | `StoreLicense` and the answer |
| `StartService` | `tryLoadLicense` |
| `AdaptersChange` | Windows lists other adapters, or the same in another order |

The issuer is reduced to what `Issuer` shows of it (`IssuerIsAsAssumed`).
`SurvivesRestart` says that an activated service that is restarted stays
activated, and names two exceptions. *Overlapped:* `license.Write` uses one
temporary file for all writers, so an activation that opens it while another has
yet to rename it may see its bytes renamed into place by the other, empty or
mixed. *Drifted:* the fingerprint is that of the adapter whose name sorts first,
and a new adapter may sort before it. `SpentOncePerMachine` is what the user
pays for: a machine that has redeemed a key is told it is exhausted only when
the key was revoked, which the client reports in the same words
(`activation.go:136-139`, `httpapi.go:250-251`).

The issuer the client talks to need not be that of the repository. The default
URL is a Google Apps Script (`tallywa-svc/main.go:45`), which is not in it; the
client posts the key as `key` where `cmd/tallywa-issuer` reads `token`
(`server.go:65`), and it knows an answer, `token_revoked`, that
`cmd/tallywa-issuer` never gives. So what ties `Activation` to `Issuer` is what
an issuer promises and not the format of its messages, and revocation, which
`Issuer` does not have, is an action of the environment. The reset of a key by
the support, which the message for an exhausted key offers, is not modelled.

### TallyIni

A worker is a process: the installer's helper, the service at its start, the
uninstaller's helper. `ReadIni` reads and computes (`applyPatch`, `stripTDLs`),
`BackupFile` copies to `tally.ini.bak`, the next four are `writeAtomic`, and
`GiveUp` is an error or the end of the process at any of them. `UserSaves` and
`TallyReinstalled` are the world. The encoding of the file and its line ends
are left out; a path is one of a set, of which some begin with the directory of
the shipped files. `Keep` is what is common to the loops of `applyPatch` and
`stripTDLs`: the lines, or the shipped paths, that pass a test, in their order.

Nothing locks the file; `disturbed` collects the overlaps in which the code
makes no promise. Things that the model shows the code to do and that no
property forbids: a user who had TDLs of their own and `User TDL = No` has
`User TDL = Yes` after a patch and an unpatch; the comment line of each patch
stays; a directory whose name begins like ours (`TDL2`) counts as ours when
lines are stripped.

### Updater

A run is a process: `StartRun`, `FetchManifest` (signature, minimum version,
comparison), `DownloadMSI` (hash), `InstallMSI` (msiexec), `RunFails` anywhere.
The server is arbitrary: any manifest ever signed, one that never was, any
bytes. A run goes by the version built into its executable (`own`), which
another run may have replaced since it began; what keeps the version from going
back then is Windows Installer and `Product.wxs`, not the updater. `IsNewer` is
the code's comparison, in which `1.0.0` is newer than `1.0`; `Outdates` is that
of Windows Installer, in which they are equal.

### Intake

| in the model | in the code |
|---|---|
| `Press`, `BeginContact`, `Finish` | `TallyInterface`: the thread of a press, its loop over the contacts, its result |
| `LoadHandshake` | `RegistryHandshake.Load`, for each attempt |
| `Arrives`, `ReachesAnother`, `NoAnswer`, `TryAgain` | `PostWithRetry`: an attempt, and what becomes of it |
| `Handle`, `Enqueue`, `Key`, `RequireLicense` | the send handlers, their key and the licence gate |
| `ServiceStarts`, `PublishPort`, `ServiceEnds` | the start of the service, the registry, its end |
| `flight` | requests the service has and has not handled; an attempt that timed out may still be there |
| `bucket` | the five-minute window of the default key |

`PressAccounted` states exactly how far "once" goes: a voucher pressed twice
within one value of `$$Now` is one item for each contact; a file one item per
window; a text has no key, and every attempt that arrives may add one. The
comments in the C# code speak of five minutes for all of these; a key of the
caller's own is in fact kept for as long as the item.

A press after a restart may reach a port that another program has taken since,
and nothing in an answer tells the service from another program: `ParseResponse`
(`WhatsAppClient.cs:285-313`) takes any 2xx without an error for a success, and
`PostWithRetry` a 4xx for the end. `ReachesAnother` therefore answers with
anything, and `misled` has the contacts that another program answered for with a
success. For these, and for no others, a press is "finished" without an item.

### Backend-Bridge

`BridgeSender`: `PostMessage` and `PostFile` are the POST handlers with
`ValidateComplete` in its order of checks, `CallFile` and `CallText` the two
calls to WhatsApp a handler makes, `WorkerTakes`, `WorkerFile`, `WorkerText` and
`WorkerWakes` the loop of `processReceiptQueue`, and `Restart` the end of the
process at any point, which loses the channel. A call fails, succeeds, or
reports an error for a message that WhatsApp took; `blamed` has the requests
whose user was told to send again although something had gone out.

`BridgeStore`: `LookUpName`, `StoreChat` and `StoreMessage` are the statements
of `handleMessage` and of `handleHistorySync`, as two handlers that interleave.
Writes fail, and `excused` has the messages that a failed write, or a
conversation that began with an undated message, cost. The look-up of a name
fails as well: `GetChatName` takes an error for a chat without a name
(`main.go:956-957`), and `StoreChat` then replaces the name the chat has. So the
name a chat is first given stays except in the chats of two sets, `raced`, where
two handlers looked it up before either wrote it, and `missed`, where a look-up
failed. That `last_message_time` may go back, with an older batch of history, is
what the code does; no property forbids it, and nothing in the code says
otherwise.

`BridgeStartup`: `Start` is `LoadConfig` with its fallback and everything before
the connection, `Connect`, `Scan`, `ScanTimeout` and `Settle` the rest of
`main`. One value that `Validate` refuses throws all settings away, the good
ones too (`SettingsTogether`), and the start goes on, against what the
documentation says (`InvalidConfigurationExits`, below). A phone that removes
the device leaves the process serving without an account until it is restarted.

## The runs

| run | shows | bounds |
|---|---|---|
| `outbox_safety` | delivery, keys, duplicates, retry budget, receipt spacing, and the refinement of `MessageQueue` | 2 items, 2 attempts, 1 resend each, 1 restart |
| `outbox_liveness` | every accepted item is settled | 2 items, 3 attempts, delays of 1 and of 5 or 6 ticks, 1 restart |
| `outbox_crash_duplicate` | *violated*: the key prevents a duplicate after a crash | 1 item, 1 restart |
| `outbox_receipt_spacing` | *violated*: receipts are always spaced | 2 receipts, 1 restart |
| `outbox_offline_dead` | *violated*: an item is retried until WhatsApp is reached | 1 item, the code's 8 attempts |
| `issuer` | one token per payment, exact audit trail, just refusals, the refinement of `LicenceLedger`, every payment answered | 2 payments (one for a plan not on sale), a plan of 2 machines, 3 machines, 2 codes, 2 handlers, 3 licence ids, 1 failure |
| `lifecycle_safety` | consumers, codes and the shown state | 2 requests at a time, 2 clients, 1 item on a channel, 1 lost connection |
| `lifecycle_liveness` | control requests return | 1 request beside Start and Stop, else the same |
| `lifecycle_awaiting` | *violated*: `awaiting_qr` means that a code is on offer | 1 request, 2 clients |
| `desktop` | an activation survives restarts and costs one redemption per machine; patches keep the user's lines and take effect; updates go forward; presses are sent once; a process accepts a signed request at most once | 2 activations, 2 adapters and 2 changes of them; 1 patcher, 1 unpatcher, 2 starts each, 2 edits; 2 updater processes, 2 runs each, 4 packages; 2 presses, 2 attempts, 2 starts of the service, 2 windows; 2 messages, 2 handlers, 6 ticks, skew 1, read timeout 1, TTL 3 |
| `bridge` | queued receipts are accounted for and spaced, nothing is sent twice unasked, messages are stored, names stay, settings hold together | 5 posts of 4 requests, a channel of 1, gaps of 2 and 3 minutes; 2 chats, 3 messages, batches of 2; 2 settings |
| `bridge_config_invalid` | *violated*: an invalid configuration makes the application exit | the same |

Why the bounds are enough to meet the interesting cases. *Outbox:* two items
let an older one that backs off be overtaken and a receipt wait behind a
voucher; one of them has two parts, the other is a receipt without a key; two
attempts make the first failure retried and the second final, and the resend
takes an item past the limit; one restart meets each point of `Step`. Liveness
has three attempts, one more than the table of delays has entries, so that the
clamp is used, and a delay long enough for jitter to make a difference.
`MaxItems`, `MaxResends` and `MaxRestarts` are the only bounds on behaviour.
*Issuer:* three machines
compete for two redemptions with two handlers at once, so that a refusal, a
re-activation when the plan is full and a race for the last redemption all
occur; `MaxLicenses` bounds redemptions, `Mint` leaves a code for each payment,
`MaxFailures` is shared by database errors, lost answers and crashes.
*WhatsAppLifecycle:* two clients are one Reconnect, the old client's events
arriving during and after it; the second request waits for the mutex, or logs
the new client out, while the first is anywhere, and then has no client left
and gives up, which is the code's own error path; a process that ends starts
again with the device it has paired. A channel that holds one item lets a code
wait while the user scans the one before it. `MaxItems` and `MaxDrops` bound
the library, `MaxClients` the requests. With one request at a time and three
clients, 20.8 million states, the safety properties held as well; the run is too
long to keep.

*desktop* and *bridge* put modules side by side that share no state: in each
behaviour one of them moves and the others stay as they began, so that TLC
visits the sum of their states and not the product; since no variable is
shared, every invariant of one module is checked over all of that module's own
behaviours. *Loopback:* the TTL is exactly what
the assumption asks, so nothing is left to slack, and time runs to twice the life
of a nonce. *Activation:* a key for one machine, so that a second fingerprint
exhausts it, and adapters listed with the second first. *TallyIni:* the first
file has a TDL of the user's own, turned off; two workers overlap at every step,
each twice, with two edits between. *Updater:* two signed releases after the
first, one asking for an updater of the other, and a package that carries the
second's version and was never signed. *Intake:* two presses of one voucher for
overlapping contacts, a file, a text with a number that is not one; two attempts
let the first be handled after the second was sent. *Bridge:* a channel of one
place is full with the second receipt while the worker has the first; a rest is
long enough for `apart` to tell the shortest from a longer one; of three
messages one has no date and one is this account's own; one setting is numeric.

Deadlock is checked in every run but those of these two, whose systems may
really rest: the presses, runs, edits and posts of a bounded run come to an end,
and nothing is left that must happen.

## Where the code and its comments disagree

* `outbox.go:494-496` says that the idempotency key prevents duplicates when an
  item in flight is retried after a crash. The key is looked at by `Enqueue`
  only; a crash between WhatsApp's acknowledgement and `markSent` sends the
  message again (`outbox_crash_duplicate`).
* `outbox.go:380-382` says that a receipt is never claimed sooner than the
  cooldown after the previous one. The time of the previous one is in memory
  and set after the transaction of `markSent`; a restart or a failing
  transaction loses it (`outbox_receipt_spacing`). `ReceiptSpacing` states what
  holds: the spacing, unless one of these came between.
* `whatsapp.go:65` says that an unconnected client is retried "until the user
  re-pairs WhatsApp". It is a failure like any other, and the eighth makes the
  item dead, about two hours and a quarter after the first
  (`outbox_offline_dead`).
* `meow.go:33` says that `awaiting_qr` is "not paired, QR is on offer". A QR
  channel that times out empties the code and leaves the state
  (`meow.go:409-411`), until the user asks for a Reconnect
  (`lifecycle_awaiting`).
* `CONFIGURATION.md:174` of Backend-Bridge says that invalid values "will cause
  the application to exit with an error message", and
  `IMPLEMENTATION_SUMMARY.md:171` the same of an invalid configuration. `main`
  prints the error and goes on with all settings at their defaults
  (`main.go:809-814`, `bridge_config_invalid`). `StartsAsPromised` states what
  holds of the settings then: no mixture, and no bad value in use.

## Fairness

*Outbox.* `WF(Work)`: the worker's ticker fires for as long as the process runs
(`outbox.go:240-251`) and a call to WhatsApp returns, with an answer or an
error: the library times a message out. `WF(Tick)`: the clock advances.
`WF(Open)`: the installer configures the service manager to restart a service
that has failed (`Product.wxs:233-236`), and an operator starts one that was
stopped. Nothing is assumed of the connection, of the operator, or of what
WhatsApp answers.

*Issuer.* `WF(Handle(h))`: a goroutine runs. `SF(Redeliver(p))`: the provider
repeats a webhook until it is answered ("Razorpay retries webhooks
aggressively", `server.go:205`), and strong fairness because handlers may be
busy with others in between. `SF(Draw(h))`: of the 31^12 codes a free one is
drawn in the end; it is the only assumption about chance.

*WhatsAppLifecycle.* `WF(Control(t))`, `WF(Consume(g))`: goroutines run and a
call of the library returns. `SF(Lock(t))`: Go's mutex hands over to a waiter
that has waited long enough, so one that is free again and again is got.
`WF(NoticeCancel(g))`: the library closes a channel whose context is cancelled.
Nothing is assumed of the user, of WhatsApp or of the events.

*Loopback*, *Activation*, *TallyIni*, *Updater*, *Intake* and the modules of
Backend-Bridge state safety only. The code promises no more there: a press ends
with its last attempt, an update waits for the next day, and a receipt of the
bridge is tried once.

## Proofs

All are checked by TLAPS with the SMT backend, Zenon and, for the temporal
steps, LS4. They assume no more than the named `ASSUME`s of the module:
numbers are numbers, the table of delays is not empty, requests are well formed,
`TTLAssumption` for Loopback, distinct "none" values and threads; that the build
pipeline signs a manifest for the version the package has, for Updater; that
the shortest rest is no longer than the longest, for BridgeSender; and that the
shipped files lie in the directory that is stripped and that a file is not also
one of the marks for an absent or a damaged one, for TallyIni.

| module | theorem | establishes |
|---|---|---|
| `OutboxProofs` | `TypeCorrect`, `WorkerOwnsSending`, `SentIsDelivered`, `KeysAreUnique`, `DuplicatesHaveACause`, `ClaimsArePaidFor`, `FailuresAreBounded` | the invariants of `outbox_safety` |
| | `RetriesEnd` | no item is claimed more than `MaxAttempts` times, and once more for each restart, twice for each resend, and for the last send |
| | `ReceiptsAreSpaced` | `ReceiptSpacing`, an action property |
| | `OutboxImplementsQueue` | `Spec => Queue!Spec` under the refinement mapping |
| | `IndexIsExact`, `OutboxIsAsAssumed` | what `Intake` assumes of the outbox |
| `LoopbackProofs` | `AtMostOnce`, `RememberedLongEnough` | the two invariants of `Loopback`, for any number of handlers and any TTL within the assumption |
| `IssuerProofs` | `TypeCorrect`, `PaidOnce`, `BudgetIsKept`, `AuditIsComplete`, `RefusalsAreJust`, `HistoryIsKept` | the invariants of `issuer` and `AuditTrailGrows`, for any number of handlers and machines |
| | `IssuerImplementsLedger` | `Spec => Ledger!Spec` under the refinement mapping |
| | `IssuerIsAsAssumed` | what `Activation` assumes of the issuer |
| `WhatsAppLifecycleProofs` | `TypeCorrect`, `ConsumersAreAlone`, `ConsumersCanBeEnded`, `ShownCodesAdvance`, `ShownIsTrueHolds` | the safety properties of `lifecycle_safety`, for any number of requests and clients |
| `TallyIniProofs` | `IniTyped`, `UserLinesAreKept`, `PatchesTakeEffect` | types, and the two invariants, for files of any length and any number of workers |
| | `EditsAreOneStep` | a worker's edit of the file, undisturbed, is one step |
| `DesktopProofs` | `SurvivesRestartHolds`, `SpentOncePerMachineHolds` | the two invariants of `Activation`, for any number of handlers, adapters and redemptions |
| | `LicenseFileIsAtomic` | without an overlap the licence file only ever changes to a whole licence |
| | `UpdatesGoForwardHolds` | `UpdatesGoForward`, for any server, packages and number of runs |
| | `DesktopPartsMove`, `DesktopIsRight`, `DesktopInvariant`, `DesktopTyped` | a behaviour of `MCDesktop` is one of each part; so all of `desktop` holds of it |
| `IntakeProofs` | `PressAccountedHolds` | `PressAccounted`, for any presses, contacts, attempts and restarts |
| `BridgeProofs` | `QueuedAccountedHolds`, `OnceUnlessBlamedHolds`, `ReceiptsApartHolds`, `StoredOrExcusedHolds`, `FirstNameStaysHolds`, `StartsAsPromisedHolds` | the properties of `bridge`, of each module's own specification, for any capacity, gaps, batches and settings |
| | `BridgePartsMove`, `BridgeIsRight`, `BridgeInvariant`, `BridgeTyped` | a behaviour of `MCBridge` is one of each part; so all of `bridge` holds of it |

`Spec` of `MCDesktop` and `MCBridge` sets these modules side by side. The
properties are proved of `LoopbackSpec`, `ActivationSpec`, `IniSpec`, `UpdaterSpec`,
`IntakeSpec`, `SenderSpec`, `StoreSpec` and `StartupSpec`; `DesktopPartsMove` and
`BridgePartsMove` carry them to what the runs check.

Two modules have another component reduced to what it shows, and that is proved
of the other. `Activation` has the issuer as a set of machines for each key:
`IssuerIsAsAssumed` says that in `Issuer` the holders of a token grow by one
machine that is `Redeemable` as `Activation` defines it, that only a machine that
is not is refused, and that a licence is signed for a holder only; it follows from
`LicenceLedger` and from the number of rows being the number of machines
(`HoldersCounted`). `Intake` has the outbox as a set of keys and a count of items:
`OutboxIsAsAssumed` says that in `Outbox` nothing is taken out of either and that
what is added is one item with a key nobody has; `IndexIsExact` says that the index
the transaction asks and that set agree. `EditsAreOneStep`,
`LicenseFileIsAtomic`, `RetriesEnd` and these three state something of their own,
which no run checks.

Each proof follows the same argument: an inductive invariant (`IInv`, or
`...Inv` with the module's name), one lemma per action or per conjunct that it
is preserved, and the property as a conjunct or a consequence. Why the
properties are not inductive by themselves:

* *Outbox.* That a sent item was delivered rests on what the worker knows in the
  middle of `Step` (at `"mark_sent"` all parts have gone out, at `"text"` of a
  voucher the file has); that a duplicate has a cause rests on where a copy
  without a cause can be at all (with the item held by the worker, or sent); the
  spacing of receipts rests on the sum of two clocks, the code's cooldown and
  the history's `quiet`, which never falls short of `Cooldown` while nothing was
  forgotten. The refinement uses `IInv` to know that `MarkSent` confirms a
  delivered item and that `Accept`'s key is held by no other.
* *Loopback.* A nonce is remembered with a reading no older than the request's
  timestamp less the skew; a handler that could still use the timestamp has a
  reading no older than that either; so the cleanup of any handler at work
  cannot reach it before the timestamp has left every handler's window.
* *Issuer.* A handler that is about to insert or sign holds what the table will
  confirm: the code it answers with is in the table under its payment
  (`CarriedIsCurrent`), and the licence id it has drawn is in no row and with no
  other handler (`DrawnIsFresh`, `IdsDrawn`). The refinement rests on the same
  facts: an answer names what the ledger says because of the first, a seat is
  taken with a licence nobody has because of the second, and the transaction
  refuses exactly when the ledger is full because the counter is the number of
  rows (`LedgerRedeem`).
* *WhatsAppLifecycle.* A consumer is started by `Arm` alone, so one at a time
  means that none is at work when a request is about to arm: it holds the mutex
  since before it waited (`NoneAfterWait`), or it is `Start`, before which there
  was nothing (`StartIsFirst`). That codes advance follows from this: a consumer
  at work is the current client's, and no code shown is of a later one
  (`ShownIsMade`). `StartIsFirst` rests on the order of `App.Run`, which serves
  requests after `Start` has returned. That the state shown is true (`ShownInv`)
  is an argument about the current client only, since those before it are silent
  or `flaws` says otherwise (`OldAreSilent`) and those to come are untouched
  (`NewAreFresh`). While no request is between its first store and the arming,
  the events of a paired client still to be delivered end with the one that made
  its link what it is (`Told`), a lost connection follows a login in them
  (`Ordered`), and when there is none left the state shows the link; a client
  that is not paired has raised none. `Arm` establishes this, for a client that
  nothing has happened to (`FreshAtArm`), and a dial keeps it.
* *Activation.* What is in memory is what was last written only because of where
  the other handlers are: a handler between its opening and its rename is alone
  there while nothing has overlapped (`OneWriter`), what it holds is for a
  fingerprint that has not drifted (`ForThisMachine`), and after its rename the
  file keeps a whole licence until the next (`Kept`). `Spent` ties each
  fingerprint a handler has computed to those the machine has had.
* *TallyIni.* While nothing is disturbed one worker at a time is past the
  opening of the temporary file, and what it renames is what it computed
  (`OneIniWriter`); the file itself is whole and has the user's lines (`Whole`).
  A worker's contents are what it makes of the file as it is now, unless it is
  behind (`Computed`), and the copy was made of that file (`Copied`); so a
  rename puts in place the file with the worker's edit applied. The rest is
  about the edit and files of any length: it leaves `OfUser` as it is, and takes
  effect (`ApplyPatchFacts`, `StripTDLsFacts`). Both follow from what `Keep`
  does to a sequence that grows by one element (`KeepAppend`), by an induction
  that the module makes for itself: a set of numbers that begins at 0 and goes
  on to the next has them all, since there is no smallest one left out
  (`NatHasSmallest`, `CountingUp`, `GrowingSequences`). The sets stand in for
  the operators that the library's induction theorems take as parameters.
* *Updater.* What a run has downloaded is signed for and newer than its own
  version, and its own version is that of the package that was installed when it
  began (`Began`, `Fetched`); from this and Windows Installer's refusal each
  installation is at least as new as all before it.
* *Intake.* That an item is added once rests on where its key comes from: every
  key in the outbox has an item, every item of a voucher its key (`KeysBacked`,
  `VoucherOnce`); a file's items each lie in a window since its press
  (`FileWindow`, `TextCount`). That "finished" means delivered rests on the
  loop: of the contacts before the current one each has an item, is counted a
  failure or was answered for by another program (`Served`, `Walking`). The
  types need facts of their own (`IntakeTyping`): the contact of a press that
  posts was found valid, and the window of a press and the port it read are not
  of the future.
* *BridgeSender.* Jobs in the channel are receipts and none is there twice, nor
  with the worker (`ReceiptsOnly`, `HeldOnce`); the worker that is awake has
  rested the shortest gap since the last file went out (`Rested`); and what a
  handler or the worker is about to send has not gone out unless it is blamed
  (`CallsOpen`, `HandlerSends`, `ReceiptSends`).
* *BridgeStore.* A handler past its look-up holds the name the chat has, or the
  chat has none yet, or another looked it up at the same time or its own look-up
  failed (`ChosenStays`); a message without a row or an excuse is still in
  somebody's hands (`Decided`).

Only model-checked, because the prover does not reach it: `EventuallySettled`,
`PaidMeansTold` and `RequestsReturn`, which are liveness under fairness. What can
be proved of them is proved: retries are bounded (`RetriesEnd`), an answer names
the one token of its payment (`PaidOnce`), and a consumer that a request waits
for can always be ended (`ConsumersCanBeEnded`). The five runs that expect a
violation have nothing to prove.

## What is left out

Not modelled, and why:

* *Tray and dashboard* (`cmd/tallywa-tray`): a user interface that polls the
  service and forwards clicks; it keeps nothing. Its clicks are `Requeue`, the
  end of the process and the control requests of the models.
* *TDL scripts, packaging, web site, build scripts, icon generator*: static or
  generated; `Product.wxs` enters as the restart policy and as the refusal of
  downgrades. `Build-Scripts/Build-Installer.ps1:83` numbers its builds by
  seconds modulo 65535, so a build may count as older than one of some 18 hours
  before: the order of `VersionOf` is then the installer's, not the calendar's.
* *Handlers that only read*: `List`, `Get`, `Stats`, status, QR, the bridge's
  chats and messages; the detection of Tally installations.
* *Backend-Bridge*: the older `/api/send` and `/api/download`, registered on a
  mux the server does not use, and helpers nobody calls.
* *Handshake*: secret and version, written once; the file of development builds.
* *HTTP API*: the staging of an uploaded file in a temporary directory.
* *COM object*: the templates of the message text.

Abstracted inside the models:

* Wall clocks that step back. The models let time advance only; the code's
  stored instants would move away by as much as the clock is set back.
* A request accepted before a restart and again after it: the nonces are not
  persisted. `AcceptedAtMostOnce` is stated for one process.
* `Stop` reads the field `device` without the mutex, once for `IsConnected` and
  once for `Disconnect`, and a Reconnect at the same time may replace it between
  the two; `HangUp` is one step on one client.
* A request of the bridge whose caller stops waiting, or a process that ends
  between the put into the channel and the answer (`handlers.go:225-230`), which
  `BridgeSender` makes one step: an answer is lost by `Restart` alone, and a user
  posts again only when told of an error. `OnceUnlessBlamed` and
  `QueuedAccounted` hold in that environment; a caller that posts again for want
  of an answer sends twice whatever the bridge does, which has no keys.
* Conversations of a history sync with no ID or one that cannot be parsed, which
  are passed over (`main.go:1042-1053`), and messages without an ID, of which the
  later replaces the earlier in the table.
* A call to WhatsApp that never returns; the worker would wait for ever.
* A database record that cannot be decoded, which `claimNext` skips.
* Signatures and hashes, which are taken as sound.
* Version segments that are words. The code compares them as strings with
  numbers, which is not a transitive order; the pipeline makes numbers only, and
  "dev" never updates.
* The encoding of `tally.ini`, and installations beside the first.
* The composition of the outbox with the client's life cycle and with `Intake`.
  Each has the other as an environment that may do anything the other does:
  `connected` comes and goes at will in `Outbox`, which allows all that
  `WhatsAppLifecycle` does to it, and `Enqueue` of `Intake` is `Accept` and
  `Deduplicate` of `Outbox`. The product of their states is out of TLC's reach.

## Hazards

`PROJECT.json` lists forty places in the code where something can go wrong that a
test would hardly reach, each with the properties that are about it. One has
none: `outbox.go:402` compares stored wall-clock instants with the present, and
a clock set back postpones every item; no promise of the code survives it, and
none is stated.

## Plan

The parts of the system that keep state are modelled. What could be added:

1. The outbox composed with the life cycle of the client, with the shutdown of
   the worker before that of the client.
2. Wall clocks that step back, once the code says what it wants then.
