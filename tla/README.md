# A TLA+ model of galaxyd

galaxyd is a small Ansible Galaxy server: one process that accepts collection
archives, keeps them on a local directory or in an S3 bucket, and serves
listings, downloads and a web interface. This directory holds a formal model of
its stateful core and of what decides over a request, the TLC configurations that check it on small instances and
TLAPS proofs for every instance. Paths below are relative to the repository
(`src/src/app.rs` is the crate's `app.rs`).

## 1. Inventory of the system

| component | state it keeps | operations | hard behaviour |
|---|---|---|---|
| storage backends (`storage.rs`) | records, artifacts, tasks as files or objects | `publish_file`, `record`, `records`, `put_task`, `tasks`, `reconcile` | concurrent publication, lost answers and repeats on S3, crash and loss of power between any two file operations |
| upload handler and worker (`app.rs` `upload`) | upload slots, spawned workers, catalog, task cache | receive, check, spawn, create task, publish, push, final task write, remember, answer | handler dropped (timeout, disconnect) while the worker goes on; partial failures |
| process life cycle (`run`, `reconcile_tasks`) | process phase | load catalog, clean up, reconcile tasks, serve, graceful shutdown | crash anywhere, clean-up by a list read earlier, shutdown with workers and no open request |
| sessions (`local_login_submit`, `oidc_*`, `session_from_headers`, `refresh_oidc_session`, `logout`) | sessions, pending OIDC transactions, per-session refresh lock, refresh slots | login, callback, revalidation, logout | awaits between reading and writing, detached refresh tasks, full tables |
| reload (`apply_reload`) | configuration, generation counter, `auth_gate` | replace configuration, clear sessions and transactions | races with every login and revalidation under way |
| login limiter (`login_limited`, `record_login_failure`) | failures per address, permits for hashing | check, record, forgive | checked and recorded under separate locks; hashing goes on after its request is dropped |
| upload authorization (`auth.rs`, `upload`) | token files, configuration snapshots | check before the body, after the inspection, and again before publication | configuration, token files and trusted proxies change in between |
| client address (`client_ip.rs`) | none | walk over X-Forwarded-For | all hops trusted, hop limit, mapped addresses, a left end the client made up |
| multipart and base64 reader (`upload.rs`, field loop of `upload`) | carry of the decoder, byte counts, fields seen | decode chunk, finish, accept a field | chunk boundaries, limits, order and repetition of fields |
| archive inspection (`galaxy.rs`) | counts and sums of the two passes, paths and hashes seen | entry checks, MANIFEST.json, FILES.json | limits, order of entries, extension headers, spellings of a path |
| configuration (`config.rs`, SIGHUP) | the configuration in force, a pending signal | load, validate, apply | the file changes between validation and application; signals that coincide |
| listings and pagination (`app.rs`) | none (reads catalog, sessions, configuration) | access check, pages, next links | the catalog grows and rights change between pages and within a request |
| readiness, metrics, web interface, command line | counters | text | |

Interactions: a request handler runs under the public router's layers (a
60-second timeout, a body limit, a concurrency limit). `upload` takes one of two
permits, reads and checks the archive, then spawns a worker on `publications`
(a task tracker) which takes the permit over, so that neither a disconnect nor
the timeout ends a publication. The worker writes to storage, pushes the record
into the shared catalog, stores the final task and sends its result to the
handler, if there still is one. `run` loads the catalog, cleans up, reconciles
tasks and only then opens its listeners; at shutdown it waits for the listeners
and then for the tracker. A SIGHUP replaces the configuration under `auth_gate`
held for writing; logins and revalidations take the gate for reading at the
moment they insert or update a session and compare the generation with the one
they started from.

What makes each component correct, in one line: a visible record always names a
complete artifact and never changes; what clients and tasks say about it is
true; shutdown and restart lose nothing that was promised; no session outlives
the configuration it was made under, comes back after it is gone, or is used
with rights that are overdue for revalidation; tables stay bounded; nothing is
published without a right that held after its body was read, and nobody with the
right is refused; the file that is inspected is the one that was sent; an archive
is accepted exactly if it conforms; a walk over a listing misses nothing and
shows nothing that is hidden; and nobody waits for ever.

## 2. Modules

- `CollectionRegistry` is the abstract contract: a write-once map from
  (namespace, name, version) to uploads, and answers that are true of it. It
  knows nothing of files, tasks or restarts. `Commit`, `Answer`, `Disconnect`.
- `Storage` holds records, artifacts, stored tasks, and the steps of
  `publish_file` on both backends. One action is one system call or request
  whose effect another actor or a crash can see: create the artifact file, copy
  and sync it, hard-link the record, sync two directories; or PUT the artifact,
  conditionally PUT the record, delete the artifact after a 412. Every step has
  its error outcome, with whatever it may leave behind. A failed S3 request may
  have been applied, or be applied later (`straggler`, `LateRecord`).
- `Publication` extends `Storage` with the handler (`Arrive`, `AcquireSlot`,
  `Reject`, `Spawn`, `Drop`), the worker (`CreateTask`, `Publish`,
  `PushCatalog`, `FinalPutTask`, `RememberTask`), start-up (`Start`,
  `LoadCatalog`, `RemoveOrphan`, `EndCleanup`, `ReconcileTask`, `Serve`),
  shutdown (`Shutdown`, `CloseListeners`, `Stop`), `Crash` and `PowerFail`
  (after which the history variable `lostPower` is true). It
  states the properties, the refinement of `CollectionRegistry` and the
  inductive invariant.
- `PublicationProofs` has its theorems.
- `Sessions` models logins, pending transactions, reload, logout and
  revalidation. One action is the code between two awaits that can really be
  overtaken; each lock, permit and gate is a guard. `refresh_interval_seconds` is
  a function of the configuration (`Interval`), and each look at it (`Lookup`,
  `TaskRecheck`, `Final`) takes the one then in force. A refresh whose answer is
  lost, or has a new refresh token and no access token, ends in
  `TaskUnavailable`, and the new token with it.
- `LoginLimiter` models permit, check, verify, record and forgive as separate
  steps, and the hashing of a password that outlives its request.
- `Configuration` models the configuration file, SIGHUP, `Config::validate` as a
  predicate, and loading and applying as two steps (`EditFile`, `SendHangup`,
  `LoadFile`, `ApplyReload`).
- `ClientAddress` has the pure operators of `client_ip.rs`: `normalize`,
  `single_forwarded_for`, `effective_ip`, `allowed`. The loop of the code from
  the right is the least index whose hop is not trusted.
- `UploadAuthorization` extends both with token files and the handler's three
  checks (`Admit`, `Receive`, `CheckNamespace`, `Recheck`, `Commit`), between
  which the operator edits (`EditTokens`) and reloads.
- `UploadBody` is the field loop of `upload` and `write_base64_field`, one
  character at a time; `EndChunk` may come after any of them, so that every cut
  into chunks occurs. A second, declarative half says what a whole field means
  (`Text` without its white space, `Acceptable`, `Content`) and knows nothing of
  chunks, carry or counters.
- `ArchiveInspection` is `inspect_archive`: digest, the raw pass with its limits
  (`RawEntry`, `EndPreflight`), the second pass (`NextEntry`, `EndEntries`) and
  the manifests (`CheckManifests`). In the second pass the tar crate reads the
  headers that belong to the next member itself (`ReadHeader`: long names, long
  link names, local PAX headers) and fails if one is doubled or no member
  follows; a global PAX header passes the first pass and is handed out, and
  refused, as an entry in the second. Again a declarative half speaks of the
  archive as a whole and not of its reading: `Conforms` of its paths, its headers
  (`Framed`) and its two manifests (`Described`), `Small` of its limits. The total size there is the
  number of the archive's bytes (`Bytes`), not a running sum.
- `Listing` is one client that walks a listing (`Ask`, `Authorize`, `Read`,
  following `NextLink`) among publications, reloads, logins and changes of
  rights.
- `SessionsProofs`, `LoginLimiterProofs`, `UploadAuthorizationProofs`,
  `UploadBodyProofs`, `ArchiveInspectionProofs` and `ListingProofs` have the
  theorems of those modules.
- The `MC...` module of each gives the constants values.

How they compose: `Publication.Reject` is the outcome that `UploadAuthorization`,
`UploadBody` and `ArchiveInspection` take apart, and their `Commit`, "read" and
"accepted" are where its `Spawn` begins. `Listing.Publish` is
`Publication.PushCatalog`; `Listing.ReloadConfig` and `ReloadSessions` are the
two halves of `apply_reload` that `Sessions` models with the gate around them.
They are separate modules because a request meets these stages one after the
other and shares nothing between them but what is passed on.

Correspondence of the main variables: `records[k]` is the file
`records/<namespace>/<name>/<version>.json` (or the object of that key), its
value the upload whose artifact name it holds; `artifacts[u]` is
`artifacts/<uuid>.tar.gz`; `tasks[u]` the stored task; `catalog`, `cache` are
`AppState.records` and `AppState.tasks`; `response[u]` what the client got, with
"dropped" for a lost connection or a 408; `pc[u]` the position of handler or
worker. In `Sessions`, `gate` is `auth_gate` with the position of the reload
that holds it, `generation` its counter, `task[r]` the detached task that
request r spawned, and `lock[l]` the `refresh_lock` of session l.

In `UploadAuthorization`, `snapshot[u]` and `ip[u]` are the handler's locals,
`held` and `lacked` are history. In `UploadBody`, `reader` is the decoder's
locals, `chunk` what is decoded and not yet written, `output` the temporary file;
a decoded byte is named by its quartet and its place in it, which tells any two
contents apart. In `Listing`, records are numbered in the order the code sorts
them, `cfg` and `scope` are the handler's locals.

Abstractions: an archive is its digest together with the identity in its
manifest (`Identity`); a token or password is whether it is accepted, a refresh
token its number in the chain of rotations; `Reject` stands for every early
return of `upload` before the spawn; in `Sessions` a configuration is its number,
in `Configuration` a record of the settings that decide something, with one flag
(`wellFormed`) for all checks of text and addresses, also those that compare two
settings (different listeners, what an enabled login needs, https for OIDC); in `ArchiveInspection` a checksum is the
content it is taken of. A temporary file that cannot be written is answered 400
by the code like a bad file; `UploadBody` keeps the two apart ("unwritable"), and
`GivenUpRightly` speaks of bad files only. Names, paths, JSON and messages are left out.

Operators whose comment begins with "Mutation:" are wrong versions of the
definition that follows them (a dropped sync, a guard off by one, a missing
re-check). No specification uses them. Substituted for that definition, each
makes TLC refute the property it is paired with in `PROJECT.json`, which shows
that the property watches the code.

## 3. What TLC checks

| run | question | states |
|---|---|---|
| `pub_local` | two new uploads and one under its legacy path, three archives (two builds of one version and another collection) on a directory, with crashes, losses of power, restarts, clean-up, eviction and shutdown: are records, tasks, catalog and polled states right, and can what was answered 202 be downloaded? | 4.6 M |
| `pub_s3` | two uploads on S3 with one attempt per request and late requests: records, answers, catalog, refinement of the registry; do uploads end, and does shutdown? | 853 k |
| `session_login` | three logins (any mix of local, OIDC start, OIDC callback), tables of size 1, two reloads | 948 k |
| `session_refresh` | two requests revalidating two sessions, one permit, a reload that changes the interval, logout, expiry; is every request that waits answered? | 1.4 M |
| `login_limit` | six logins from two addresses, two requests and three hashings at once | 75 k |
| `upload_auth` | an upload against two edits of configuration file or token files and any number of SIGHUPs | 186 k |
| `upload_body` | bodies of up to three fields and nine characters in every cut into chunks | 8.5 M |
| `archive` | archives of up to five entries from a set of good and bad ones, with headers of all sorts and a FILES.json that declares two spellings of a path | 5.9 M |
| `listing` | a walk over up to four records with two reloads or changes of rights; does it end? | 693 k |
| `find_*` | see section 6 | |

Safety, in the order of importance: `RecordHasArtifact`, `AnswersAreTrue`,
`RefinesRegistry`, `AcceptedIsDurable`, `CompletedTaskIsPublished`,
`AcceptedUploadPolls`, `FailedIsUnpublished`, `CatalogTracksRecords`,
`StoppedMeansSettled`; `PublishedWithRights`, `RefusedForAReason`,
`AddressNotForgeable`, `ConfigurationIsSound`; `AcceptedConforms`,
`RejectedForAReason`; `FileIsContent`, `GivenUpRightly`, `FileBounded`,
`OneFileOneChecksum`; `SessionsAreCurrent`, `GoneIsGone`, `NoSupersededToken`,
`NoStaleGrant`, `TransactionUsedOnce`, `TablesBounded`; `HiddenStaysHidden`,
`WalkListsAll`, `LinksKeepFilters`; `FailuresBounded`, `HashingBounded`.
Liveness: `UploadsSettle`, `ShutdownCompletes`, `RequestsSettle`,
`HangupTakesEffect`, `WalkEnds`. Each is explained where it is defined.
`RecordHasArtifact` and `CatalogTracksRecords` are checked on both backends, and
`SessionsAreCurrent` for logins and for revalidation, since the steps they
depend on differ. `RecordHasArtifact` and `CompletedTaskIsPublished` are stated
until power is lost: a failure between the two directory syncs may keep a record
and lose its artifact (section 6). What was answered is meant for ever:
`AcceptedIsDurable` and `AcceptedUploadPolls` hold through losses of power.
`FailedIsUnpublished` says which tasks may be stored as failed although their
record is committed: only those whose publication reported an error after the
commit, or whose S3 request was applied late. That such tasks exist is what
`find_failed_task` shows.

Bounds. Two uploads are enough for every race in publication: the properties
speak of one record and at most one competitor, there are as many slots as
uploads in the code's configuration (2), and restarts are unbounded, so that a
past upload can meet any later clean-up or reconciliation. `TaskLimit = 1`
makes the cache overflow with two tasks. Archives a1, a2 have one key and b1
another, so that the same version with the same bytes, with other bytes, and
another version all occur; the legacy upload u3 makes a record that shadows
another and a clean-up that has to spare both. `MaxAttempts = 2` is the smallest
number with a repeat. Clocks stop at `MaxClock`, which lets a session fall due
twice and expire, and every other interval and lifetime pass at least once; `MaxReloads` is 2 where a login can span two reloads. Symmetry is
used for safety only and only over upload, login, request, attempt and address
names that no definition tells apart; runs with liveness use none.

Two edits (`MaxEdits`) let an upload meet a withdrawn right that is given back,
and a file that is replaced while it is loaded; the seven files include a proxy
that is no longer trusted but allowed by name, a namespace that is gone, and
three that a reload has to refuse. Chains of two addresses under `max_hops` 3,
with up to two more in front that the client made up, go below, to and over the
limit. Nine characters (`MaxInput`) are two quartets and one character more, or
a line end in any place; the limits 1, 3 and 4 are less than a group, exactly
one, and one and a part. Five entries (`MaxLength`) are one more than
`MaxEntries` and hold two manifests, a file, an extension header and a
duplicate; every limit of the archive can be met and exceeded. Four records in
two namespaces with pages of at most two (`MaxLimit`), starting at page 0, 1 or
2, give walks of up to four pages; with two changes (`MaxChanges`) a right can
be withdrawn and given back.

Session and limiter runs may stop because the clock does; one upload, one body,
one archive and one walk end. Hence `CHECK_DEADLOCK FALSE` there. In publication
a state without a successor would be an error and is checked for.

Fairness. In `Publication`: workers and start-up (storage calls return: files,
or an SDK with timeouts), `Drop` (the 60-second `TimeoutLayer` ends every
handler, whatever it waits for), `CloseListeners` and `Stop` (the runtime
notices that a server is idle or the tracker is empty). Nothing is assumed of
clients, of signals, of `Arrive`, `AcquireSlot` or `Spawn`. In `Sessions`: the
remaining steps of a reload, refresh tasks (the OIDC client has timeouts) and
the requests waiting for them. In `UploadAuthorization`: the task that waits for
SIGHUP, and nothing of operators or handlers. In `Listing`: the requests, since
`WalkEnds` is about a client that follows the links it is given; nothing of
publications or reloads, which may go on between any two pages. Weak fairness is enough everywhere, a queue for
a lock included, since requests are finitely many.

## 4. What is proved

Each theorem holds for every value of the constants that meets the module's
`ASSUME`: any sets of uploads, archives and keys and any sizes of slots and
cache; any number of logins, requests, reloads, limits and lifetimes; any
configuration files, requests, token files and edits; any limit and any body,
over five characters that stand for the classes the decoder tells apart; any
archive and any limits on it; any catalog, query, page size and number of changes. The bounds of the runs
(`MaxClock`, `MaxReloads`, `MaxEdits`, `MaxInput`, ...) are constants too, so that
nothing depends on their values.

| theorem | says | assumes |
|---|---|---|
| `TypeCorrect` | `TypeOK` of `Publication` always | |
| `RecordsHaveArtifacts` | `RecordHasArtifact` always (until power is lost) | `SingleShot` |
| `CompletedTasksArePublished` | `CompletedTaskIsPublished` always (until power is lost) | `SingleShot` |
| `TruthfulAnswers` | `AnswersAreTrue` always | `SingleShot`, `~PowerLoss` |
| `ImplementsRegistry` | the specification implies `Registry!Spec` | `SingleShot`, `~PowerLoss` |
| `StoppedIsSettled` | `StoppedMeansSettled` always | |
| `FailedTasksAreUnpublished` | `FailedIsUnpublished` always | |
| `CatalogIsCurrent` | `CatalogTracksRecords` always | |
| `AcceptedStaysDurable` | `AcceptedIsDurable` always | `DirectoriesDurable` |
| `AcceptedTasksPoll` | `AcceptedUploadPolls` always | `DirectoriesDurable` |
| `SessionTypes` | `TypeOK` of `Sessions` always | |
| `SessionsStayCurrent` | `SessionsAreCurrent` always | |
| `GoneSessionsStayGone` | `GoneIsGone` | |
| `TransactionsAreUsedOnce` | `TransactionUsedOnce` always | |
| `TokensAreLatest` | `NoSupersededToken` always | |
| `GrantsAreFresh` | `NoStaleGrant` always | |
| `TablesStayBounded` | `TablesBounded` always | |
| `HashingStaysBounded` | `HashingBounded` always | |
| `FailuresStayBounded` | `FailuresBounded` always | |
| `SoundConfiguration` | `ConfigurationIsSound` always | |
| `PublishingNeedsRights` | `PublishedWithRights` always | |
| `RefusalsHaveReasons` | `RefusedForAReason` always | |
| `AddressesCannotBeForged` | `AddressNotForgeable` always | |
| `FilesAreBounded` | `FileBounded` always | |
| `BodiesHaveOneFile` | `OneFileOneChecksum` always | |
| `FilesAreContent` | `FileIsContent` always | |
| `FieldsAreGivenUpRightly` | `GivenUpRightly` always | |
| `AcceptedArchivesConform` | `AcceptedConforms` always | |
| `RejectionsHaveReasons` | `RejectedForAReason` always | |
| `WalksAreComplete` | `WalkListsAll` always | |
| `NothingHiddenIsShown` | `HiddenStaysHidden` always | |
| `FiltersAreKept` | `LinksKeepFilters` always | |

Three hypotheses go beyond the assumptions on constants:

- `SingleShot` is `Backend = "s3" => MaxAttempts = 1`. It cannot be dropped:
  `find_s3_retry` shows what fails without it. On S3 it is the deployment setting
  `AWS_MAX_ATTEMPTS=1` (the SDK's default is 3); of a local directory it says
  nothing.
- `~PowerLoss`: a record that other uploads were already refused for (409) can
  be lost with the power before its directory is synced. The 409 is then no longer
  true, and the registry no longer write-once.
- `DirectoriesDurable` is `PowerLoss => FreshDirs = {}`: losses of power find the
  record directories of the collections durable. `find_power_parent` shows that
  it is needed. Nothing is assumed of the backend or of the number of attempts:
  what is answered 202 survives the repeats that section 6 describes.

The assumptions on constants are those of the code: limits, slots and intervals
are at least one (by `Config::validate` or as constants of the code), a sentinel such as `None` is
no member of the set it stands beside, the pieces of a forwarded line
(`Pieces`) are whatever a header can hold, and an entry of an archive has a size,
a path that is its name and its spelling, and, if it is a FILES.json, finitely
many declarations.

### Publication

`RecordHasArtifact` is not inductive: it does not say why the
worker that is about to delete an artifact does not own the record, nor why
clean-up or a late request cannot separate the two. `IInv` adds

- `RecordInv`: the upload named by a record is past every step that removes its
  artifact, and did not end with "exists";
- `WorkerInv`: what each position implies. "delete_artifact" means another
  upload holds the key, "link" and "put_record" mean the artifact is complete,
  "ok" means the record is ours, "exists" that it is another's;
- `StragglerInv`: a request still on its way has its artifact in place and out
  of the clean-up's reach;
- `ServerInv`: no worker runs while the server is not up, and the catalog the
  clean-up goes by has every old artifact in use;
- `ResponseInv`, `LegacyInv` and that completed tasks are published.

All of it is lost with the power, which is why the invariant that is proved is
`lostPower \/ IInv`: no step but `PowerFail` touches `lostPower`, and none
clears it.

Write-once (`records[k]` never changes once set) then carries what was true at
the time of an answer to every later state. `TaskInv`, a second and independent
invariant, says where a stored task can be unfinished and gives `StoppedIsSettled`
without `SingleShot`.

The last four theorems of the module do without `SingleShot` as well. `PlaceInv`
says where the upload named by a record can be: past the step that creates it,
or its request is a straggler that was applied. With it `CatalogInv`, the property
from the moment the catalog is loaded, is inductive. It also gives
`FailedIsUnpublished`: what reconciliation judges by is a catalog that has every
record whose upload is over, and a worker stores "failed" only after an error or
a conflict. `BackendInv` keeps the two
backends and what is unsynced apart. `OkInv` says what a successful publication
has: its record, its complete artifact, both synced, and a place in the catalog
while the clean-up runs, which is why the clean-up spares it. It survives what
breaks `RecordHasArtifact`, because the worker that wrongly deletes an artifact
never ends with "ok". `PollInv` follows the task from the final write to the
answer, and through eviction and reconciliation, which finds the record in place.

### Sessions

`Types` has, next to `TypeOK`, that the counter lags behind the configuration by
one exactly while a reload is between the two (`GateInv`), and that logins and
tasks name what they work on (`KindInv`, `IdInv`). On it rests `Ownership`:

- `LoginInv`, `TaskInv`: the configuration a login or a refresh task has read is
  at least as new as the generation it remembers, since it is read second. With
  the generation still in force the configuration is the one in force. That is
  what comparing generations under the gate buys, and why the order of the two
  reads matters;
- `PendingInv`, `UsedInv`: a transaction carries the generation of its login, and
  one that a callback has taken is gone for good. At most one callback gets
  beyond taking it, and only in its own generation, so that a transaction which
  `oidc_login` inserts after the reload that should have cleared it makes no
  session;
- `OwnerInv`: sessions, and the tasks that refresh them, are of logins that are
  over, and a task that is past the lock holds it.

`SessionsAreCurrent` and `TransactionUsedOnce` follow. For `NoSupersededToken`,
`TokenInv` says that a session holds the latest token, unless the holder of its
lock is about to save a newer one or to end the session, or an answer with a
newer one was of no use (`received` is None); `OwnerInv` makes the holder the
only one. For `NoStaleGrant`, `FreshInv` says that rights are checked
no later than now and that a request on its way to the last look has found its
session fresh or had it refreshed since it came in, by the interval of one of
the configurations in force since then: a reload that shortens the interval
between two looks cannot be told from one that came a moment later. `GoneIsGone` needs only that
a login that is over does not change (`DoneStays`) and that a refresh updates the
entry it finds (`SessionsChange`). `TablesBounded` needs the finiteness of the
tables (`FiniteInv`), though logins may be infinitely many.

### Login limiter

`HashingBounded` needs `PermitInv`: an attempt holds a permit from before the
check until its password is hashed, whether its request is still there or not.
`FailuresBounded` is not inductive, since a failure is recorded long after the
check. `ChargeInv` bounds instead the attempts charged to an address: recorded
failures together with those that have passed the check and may yet fail. A
check that passes finds at most `Limit - 1` recorded, and all others it adds to
are handled now, of which there are at most `Concurrency` (`HandledInv`).

### Upload authorization

`ConfigInv` says that the candidate of a reload
is validated already, so that no later edit of the file matters. `HandlerInv`
says that an upload that is cleared has been entitled at a moment after its body
was read; that `Recheck` establishes it needs that the single header line was
not refused, which `Admit` saw, and that the address is worked out from the
configuration it is judged by.

For refusals, `RefusalInv` has `StartInv`: the address and the networks that the
handler copied let the upload in by its own configuration, or it has been seen
without its right since. A check with the old configuration and new token files
then refuses only for want of the token, which is a lack now. For addresses, the
walk from the right ends at the first hop that is not trusted; whatever stands
to the left of it changes neither that index nor the hop, and can only make the
chain too long or malformed. The least index is found as such, without induction.

### Upload body

`SizeInv` ties the decoder's counter to the lengths of `chunk` and `output`:
`decoded_size` is their sum and within the limit, and a file field begins with
nothing decoded and nothing written. `FieldInv` counts the file fields seen.

That a field decoded in chunks gives the content of the whole is an induction
over the field, which the provers cannot do over data. The specification does
it: it reads one character a step, and the induction is that of the invariant.
`TextInv` says that a plain field is what file and chunk hold. `DecodeInv` says of
the text without white space (`Dense`) that it is whole quartets and the carry
(`Quartets`), that these decode and padding ends them (`Decoded`), that the
counters are its lengths, and that each byte of file and chunk is the one that
its place in the text stands for (`ByteOf`). To add a character to
`Dense`, two lemmas say what one more space and one more other character do
(`DenseSpace`, `DenseCharacter`). `FieldsAreGivenUpRightly` then has one case per
early return: the length over its bound, a character outside the alphabet, a
quartet after padding, a malformed quartet, and the end inside a quartet.

### Archive inspection

`PreflightInv` says that the first pass has counted every entry and every byte it
let pass, and that each is sound by itself and all of them within the limits.
`PassInv` says of the entries that the second pass has seen (`Seen`) that `paths`
are their names, no two the same, that `hashes` has exactly the regular files
among them with their contents, and that each manifest is the content of the one
entry of that name. `HeadersInv` says what `headers` holds: the sorts of those
read since the last member, none of them twice, and that every earlier one has
found its member (`Framed`). At the end of the archive an open header is a
dangling one, and a sort that is there already a doubled one, which is what
`DanglingHeader` and `DoubleHeader` turn into a reason for the refusal.

Total sizes are sums over all entries. So that no proof needs an induction over
the archive, the specification counts the set of bytes: one more entry adds a
disjoint set of as many bytes as its size (`BytesAdd`), and a prefix has no more
bytes than the whole (`BytesPrefix`). The latter shows that the second pass never
meets its own limits on entries, sizes and their total (`WithinLimits`): what
exceeds them was refused by the first, so a refusal always has its reason in the
archive.

`validate_files` compares the set of declared paths with that of the files found;
`Conforms` counts: every other file is declared once, and there are as many
declarations as files. `CountsMatch` bridges them: picking the declaration of each
file is an injection between finite sets, and with equal numbers it leaves no
declaration without a file. `VerdictIsConformity` then says that at the manifests
the verdict is `Conforms`, which both theorems use: acceptance by its one
direction, the last refusal by the other.

### Listings

`WalkInv` says that a record the walk owes and has not
listed is in the listing it saw last, at a rank no lower than the offset of its
next page. Records that are published in between only raise ranks (`RankGrows`),
so none slips in front of the offset; and a rank is below the total
(`RankBelow`), so none is left when there is no next link. `ScopeInv` says that
the handler's copy of the configuration and the scope it found were true while
the request ran.

### Method, and what is only model-checked

Each preservation proof has one step per action, and TLC checked each inductive
invariant on the instances before it was proved.

Model-checked only: liveness (`UploadsSettle`, `ShutdownCompletes`,
`RequestsSettle`, `HangupTakesEffect`, `WalkEnds`), which rests on fairness and
`ENABLED` and is outside what TLAPS proves. Every other property of a passing run
is stated by a theorem.

## 5. Assumptions about the environment

- The file system: `hard_link` and `create_new` are atomic; fsync of a file
  makes its contents durable; fsync of a directory makes the entries in it
  durable and nothing else; an unsynced entry may or may not survive a loss of
  power, independently of others. That is what POSIX promises; journalling file
  systems usually do better.
- `pub_local` assumes that the record directories of the collections exist and
  are durable (`FreshDirs = {}`). The directories `artifacts/` and `tasks/`
  themselves are taken as durable too, although the code never syncs the entries
  that name them (`storage.rs:865`, `storage.rs:686`): a first upload could lose
  them, as `find_power_parent` shows for the record directories. A stored task
  is durable when `put_task` returns.
- Clean-up goes by age (24 hours). An artifact may be arbitrarily old at a
  restart, but a record PUT still on its way to S3 is not a day old.
- One process per storage, as the documentation requires.
- S3 honours `If-None-Match: *` and is strongly consistent. Task PUTs reach S3
  before the worker goes on or not at all; late task PUTs are left for later.
- Configuration and token files are replaced by renaming, so that a reader sees
  one content or the other. The scan over the token directory is one step, and so
  are copying the configuration and the scan that follows it, in `Admit`
  (`app.rs:1962`, `1990`) and in `Recheck` (`app.rs:2116`, `2134`). If a
  network is withdrawn and a token given between these two reads, the code judges
  by a mixture that was never in force at one moment; `PublishedWithRights` does
  not cover that.
- The decoding of a base64 quartet, tar and gzip are those of the crates the code
  calls; a checksum identifies its content.

## 6. Where documentation and code disagree

Each is a run that TLC ends with a counterexample; `PROJECT.json` quotes the
sentences.

- `find_s3_retry`: with two attempts the record PUT can be applied, its answer
  lost and the repeat answered 412. `publish_file` takes that for another
  upload's record and deletes the artifact of its own. What is listed from then on has
  no bytes.
- `find_power_parent`: the directories that `create_dir_all` makes are not
  synced into their parents, so a first version answered 202 can be lost.
- `find_failed_task`: a publication whose record is linked and whose directory
  sync then fails stores its task as failed. `reconcile_tasks` looks at running
  tasks only, so no restart marks it completed although its version is in the
  catalog (`PLAN.md:209`). An S3 answer that is lost has the same effect.

More observations, which have no run of their own:

- Publication rejects a version only if the structured record exists, while
  lookups also accept the flat legacy file: a legacy version can be published
  again with other bytes (`PLAN.md:156`). The structured record then wins, and
  both keep their artifacts (`pub_local`).
- After a loss of power a record can be without its artifact: the record's
  directory is synced before the artifact directory, so a failure between the two
  may keep one and lose the other. The version was not yet answered; dropping
  `lostPower` from `RecordHasArtifact` shows the trace in `pub_local`.
- A token answer that carries a new refresh token and no readable
  `access_token` makes `refresh_oidc_session` return before the new token is
  saved (`app.rs:1380`). The session is kept for a later retry (`README.md:83`),
  which then presents the token that was replaced; a provider that rotates will
  refuse it, and the session ends. `NoSupersededToken` makes this exception, and
  no other.
- When two uploads of identical bytes race and the process dies before the
  loser's final task write, the restart marks both tasks completed, since
  `reconcile_tasks` compares version and digest only.
- A reload between the last authorization check and the commit does not stop
  the publication; `PLAN.md:327` asks for both to be one step against reloads.
  `PublishedWithRights` states what does hold.
- `PLAN.md:217` asks to reject "duplicate normalized paths". `inspect_archive`
  takes away a leading "./" and nothing else (`galaxy.rs:95`), so that "a//b" and
  "a/b" are two paths to it and an archive whose FILES.json declares both is
  accepted. `Conforms` compares paths in the code's sense, as it says, and what
  `AcceptedConforms` shows is no more than that: each spelling is there once and
  covered by its own checksum, but which of the two contents a client ends up
  with is left to its way of unpacking. The instance has such an archive.
- A `sha256` field that is not UTF-8 counts as absent, so that a second one is
  accepted; one in upper case passes the check of the field and can never match.

## 7. Not modelled, and the plan

In place, with proofs: `Storage`, `Publication`, `CollectionRegistry`,
`Sessions`, `LoginLimiter`, `Configuration`, `ClientAddress`,
`UploadAuthorization`, `UploadBody`, `ArchiveInspection` and `Listing`.

To model if it becomes worth it: late task PUTs on S3; a token directory that is
scanned while files in it are renamed.

Not modelled: the readiness loop (a flag that is overwritten with the last
result of `storage.ready()`) and metrics, which no other part reads;
`list_namespaces` and the discovery document, which have the access check of
`Listing` and no pages.

Left out for good: HTML pages, headers and cookies as text, metrics and logging,
the command line, hashing and TLS.
