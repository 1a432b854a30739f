# S3Prism: specifications, model checking and proofs

S3Prism is an S3 gateway: it keeps object metadata in RocksDB and spreads the
objects over several storage sites, as replicas or erasure coded. This directory
holds TLA+ specifications of its behaviour, translated from `src/src/`, TLC
configurations that check them on small instances, and TLAPS proofs that hold for
instances of every size.

## 1. The system

### Components, their state and operations

| Component | State | Operations |
|---|---|---|
| Object handlers (`api/handlers/object.rs`) | none of their own; locals between awaits | PUT, COPY, GET, HEAD, DELETE, batch DELETE |
| Fan-out (`backend/fanout.rs`) | spawned tasks and an mpsc channel per call | `fanout_put`, `fanout_get`; `fanout_delete` is not called |
| Site client (`backend/client.rs`) | one HTTP client per site, built at start | put, get, head, delete, batch delete, create and delete bucket |
| Metadata store (`metadata/rocksdb_backend.rs`) | column families for objects, buckets, purge queue, multipart uploads and parts, runtime configuration, admin users | single `put_cf`/`get_cf`/`delete_cf` calls, and a `WriteBatch` for the two deletes |
| Purge reaper (`metadata/purge_queue.rs`) | wake-up and shutdown `Notify`; the queue is in the store | `run`, `drain`, `process_batch` |
| Bucket handlers (`api/handlers/bucket.rs`) | bucket records, one backend bucket per site | create, delete, head, list |
| Multipart handlers (`api/handlers/multipart.rs`) | uploads and parts in the store, part objects on the sites | create, upload part, complete, abort, list |
| Listing (`api/handlers/list.rs`, store) | none | prefix, delimiter, token, limit |
| Erasure coding (`erasure_coding/`) | none | encode, decode, streaming |
| Chunked decoding (`api/chunked.rs`) | none | strip the aws-chunked framing |
| Runtime configuration and management API (`config.rs`, `web/api.rs`) | `ArcSwap<RuntimeConfig>` and its copy in the store; admin users | sites, erasure, TLS, import/export, users |
| Process (`main.rs`, `api/server.rs`, `web/mod.rs`) | the main task: `tokio::join!` of two servers and the reaper | start, serve |
| Router, XML, errors, signing, login, UI | none | dispatch and formatting |
| Reconciler, health, retry, balancer, DNS, pool, coordination, rate limits, statistics, metrics, metadata sync, websocket | none | files with one comment line: DESIGN.md plans them, no code exists |

### How they interact

A PUT stores its chunks under fresh UUIDs. `fanout_put` spawns one upload task per
chunk and returns when a quorum (one replica, or k of k+m chunks) has answered;
the remaining tasks run on. The handler then computes the ETag, in another await,
and replaces the metadata of the key. A COPY fetches its source and stores the data as
a PUT does. A GET reads the metadata once, asks every site and returns when enough
chunks are there. A DELETE reads the metadata, and in a `WriteBatch` removes the
key and queues the chunks; then it wakes the reaper. The reaper lists the queue,
sends one batch delete per site, joins them and writes every entry back or removes
it. Handlers share nothing but the store, the sites and the reaper's `Notify`.

### What is hard

* **Interleaving**: requests for one key run on several threads with no lock; the
  store gives atomicity per call only. Upload tasks outlive their handler.
* **Failure**: any site request can be refused, or its answer lost after it took
  effect; a batch delete can answer 200 with errors inside; RocksDB calls can
  fail; a client that hangs up drops its handler at an await; the process can
  be killed anywhere.
* **Waiting**: the reaper is woken by a `Notify` that is lost in a crash; it naps,
  backs off and shares its task with the servers' accept loops.
* **Stale reads**: reads, deletes and completions act on metadata they read
  earlier; the clients of the running process are those of the configuration
  it started with.

### What makes each component correct

* Data path: a bound version can be read (`Durable`); nothing bound is ever
  purged (`NeverPurgesLive`); a read fails only for a reason
  (`ReadErrorExcused`); chunks that nothing refers to are left for known reasons
  only (`LeftoverExcused`), and deleted ones go away (`DeletedEventuallyPurged`).
* Reaper: no chunk forgotten (`NothingForgotten`), no wake-up lost (`QueueAttended`),
  every entry that can be worked off is (`EntriesPurged`), shutdown works
  (`ShutdownStops`), the other parts of the main task get their turn (`ServersAccept`).
* Buckets: a record has its backend buckets (`RecordedIsBacked`), backend buckets
  without one are left over for known reasons only (`NothingLeftOver`), and none is
  removed under an object (`ObjectsStored`).
* Multipart: an acknowledged part is where its record says (`MissingPartWasSwept`);
  parts stay until the object is committed or an abort is asked for
  (`PartsKeptUntilCommit`); none outlives its upload but for known reasons
  (`NoPartForgotten`); no request waits for good (`NoneStuck`).
* Configuration: no site that data are on loses its client (`SitesKept`); chunk
  counts stay positive and the upload limit one that the process can start with
  (`ConfigSound`); memory and store agree at rest (`StoredIsMemory`); an admin user
  should remain (`AdminRemains`, finding 4).
* Listing: the pages give every key (`NothingSkipped`), none twice
  (`EntriesInOrder`), a common prefix on two pages at most
  (`PrefixesAtMostTwice`), and come to an end (`PagingEnds`).
* Codes: what a read collects decodes to the object (`ReadsDecode`), and so do
  bodies coded in blocks (`BlocksDecode`) and sent in chunks (`ChunkedDecodes`).

## 2. The modules

| Module | What it is |
|---|---|
| `DurableStore` | abstract: keys are bound to versions that can be read, at most once each; reads fail only if the version was unbound, a site failed or the client gave up |
| `PurgeQueue` | abstract: only chunks that are due are deleted, and a chunk stays due until its site has reported its deletion since it was queued |
| `ObjectStore` | handlers, upload tasks, store, purge queue, reaper and sites, one action per await-to-await step |
| `ObjectStoreProperties` | types, invariants, the inductive invariant, the refinement mappings to `DurableStore` and `PurgeQueue`, fairness and liveness |
| `ObjectStoreProofs` | proofs: types, what is bound can be read, and is never purged; the purge queue covers what is deleted, what is left over, and the refinement of `PurgeQueue` |
| `ReadProofs` | proofs: why reads fail, and the refinement of `DurableStore` |
| `MCObjectStore` | instance for TLC, with the symmetry of sites |
| `PurgeReaper` | the reaper in its process: batch limit, missing clients, back-off, nap, shutdown, restart, `join!` |
| `PurgeReaperProofs` | the proofs, the refinement of `PurgeQueue` among them |
| `MCPurgeReaper` | instance for TLC |
| `MultipartUpload` | abstract: an object is bound to the parts that one look at the records showed, for the numbers asked for; recorded parts can be read until then |
| `Multipart` | one multipart upload: part uploads, completions and aborts as concurrent requests, the part objects, the semaphore; its properties and inductive invariant |
| `MultipartProofs` | the proofs, the refinement of `MultipartUpload` among them |
| `MCMultipart` | instance for TLC, with the symmetry of sites and requests |
| `Buckets` | one bucket: concurrent creations and deletions against PUTs and DELETEs of its objects; its properties and inductive invariant |
| `BucketsProofs` | the proofs |
| `MCBuckets` | instance for TLC, with the symmetry of sites and requests |
| `Management` | the runtime configuration in memory and store, the site clients, admin users, and what the S3 handlers make of them |
| `ManagementProofs` | the proofs |
| `MCManagement` | instance for TLC, with the configurations stored and imported |
| `Listing` | ListObjectsV2 page by page, and a client that follows the tokens |
| `ListingProofs` | the proofs |
| `MCListing` | instance for TLC: six keys, and the requests |
| `ErasureCoding` | shards, padding and blocks, as functions |
| `AwsChunked` | the aws-chunked framing, as a function |
| `Bytes` | bodies, as sequences of bytes that are told apart by their place |
| `Codes` | what the two codes promise the data path |
| `CodeProofs` | the proofs, for bodies, blocks and codes of any size |
| `MCErasure` | `MCObjectStore` with `Codes` |

`ObjectStore` composes the handlers, the upload tasks, the store, the queue and the reaper;
`Codes` composes it with the code its chunks are made by. `PurgeReaper`, `Multipart`,
`Buckets`, `Management` and `Listing` each look closer at one part and say below what they
take as given of the others.

### ObjectStore

A *version* is what one PUT or COPY writes, and is named by that request, as every
write uses fresh UUIDs; its chunk on site s is the pair of the two. Hence
`objects[k] = p` stands for the `ObjectMeta` of PUT `p` under key `k`, and
`meta[p]` for what the metadata say: sites its chunks were placed on, the number a
read needs, and the chunks recorded as Confirmed. `purge` is the purge column
family: an entry has its owner (the delete that queued it, and which of the times it named
the key, since a batch delete iterates the keys of its request as they come and queues a
version once for each), the version, and the sites not yet marked deleted. `backend[s]` is what site s stores. `pc` says where a request
is, `task` where an upload task is, `rpc`, `batch` and `sweep` where the reaper is.
`fate` is history: how a version lost its key.

| Code | Actions |
|---|---|
| `put_object`, `put_replicated`, `put_erasure_coded` | `PutBegin`, `FanoutOk`, `FanoutFails`, `CommitMeta`, `PutStoreFails` |
| `copy_object` | `CopyBegin`, the answers of a read, `CopyFetched`, then as a PUT |
| `get_object`, `fanout_get` | `GetBegin`, `SiteAnswers`, `SiteFailsRead`, `GetOk`, `FetchFails` |
| `delete_object`, `delete_objects`, the store's two deletes | `DelBegin`, `DelRead` (one per key and time it is named), `DelWrite`, `DelNotify`, `DelStoreFails` |
| upload tasks | `SiteStores`, `UploadFails` |
| `PurgeReaper` | `Wake`, `ListPurge`, `SiteSweeps`, `SweepFails`, `SiteKeepsKeys`, `SweepOver`, `WriteEntry`, `BatchOver`, `ReaperStoreFails` |
| axum dropping a handler, a kill and restart | `HangUp`, `Crash` |

Choices worth knowing:

* Storing a chunk and reporting it are one step. Before a version is committed
  only its handler can tell the two apart, and a lost answer (`UploadFails` with
  the chunk stored) covers the gap between them. A request whose client times out
  and that reaches its site later still is not modelled.
* The drain of the channel in `fanout_put` is part of `FanoutOk`: the step may be
  taken any time after the quorum, so the Confirmed set is any set the code can see.
* The bucket of a request exists and the gateway is configured: the handlers'
  early returns for the opposite change nothing. Deleting a bucket under a
  request is in `Buckets`.
* One backend bucket per site: `process_batch` groups by (site, bucket), here by site.
* RocksDB keeps what it acknowledged when the process is killed. A power cut, for
  which its write-ahead log is not synced, is not modelled.
* A body that is wrong (empty for erasure coding) and a site count below k+m are
  the second disjunct of `StartFanout`.
* The fault counters are bounds of the model, not of the code.

### PurgeReaper

Here objects are only entries with the sites left to purge; what is added is what
decides whether the reaper makes progress. `turn` says what part of the main task is
polled: the reaper runs until it awaits something pending (`Pending`), then the
servers have their turn. `clients` is fixed until a restart, which may start with
any set of sites, as sites are removed from the configuration at run time.
Handlers and batch deletes run on other threads: a delete writes its batch (`Delete`) and then
wakes the reaper (`Notify`, which it owes until then, in `owed`); a batch delete may take effect
without its answer arriving (`SiteFails`).

`main.rs` takes the reaper's shutdown handle but nothing there notifies it; tests
do. `Shutdown` is that caller.

### Multipart

The upload's record (`upload`), its part records by number (`parts`) and its part
objects (`backend`, named by the UploadPart request that made them, as each has a
fresh key) are shared by any number of UploadPart, CompleteMultipartUpload and
AbortMultipartUpload requests, each with its own `pc`. A completion or an abort
reads the part records once, into `listed`; `got` is what a completion has fetched
and `todo` what a clean-up still has to delete. `swept`, `missed` and `removed` are history:
the part objects and sites that some clean-up has deleted from or failed to delete
from, and the requests that removed the upload's record. `named` is what the client of a completion
lists, one part twice included, or two parts of one number.

| Code | Actions |
|---|---|
| `create_multipart_upload` | `Create` |
| `upload_part`, `put_replicated` | `PartBegin`, `LookupFails`, `PartAcquire`, `PartOk`, `PartFails`, `PartCommit`, `PartStoreFails` |
| upload tasks | `SiteStores`, `UploadFails` |
| `complete_multipart_upload` | `CompleteBegin`, `LookupFails`, `List`, `FetchPart`, `FetchFails`, `PutObject`, `PutObjectFails`, `CompleteCommit` |
| `abort_multipart_upload` | `AbortBegin`, `LookupFails`, `List` |
| `cleanup_parts`, the store's `delete_multipart_upload` | `CleanOne`, `CleanFails`, `DropUpload`, `DropParts`, `RemoverStoreFails` |
| axum dropping a handler, a kill and restart | `HangUp`, `Crash` |

The object of a completion is stored in one step that succeeds or fails: its chunks
are the matter of `ObjectStore`. The bucket exists, though its lookup may fail, and every site has a client. The
batch of `delete_parts` is one step with the iteration before it.

### Buckets

`record` is the `BucketMeta` of one bucket name. Every creation generates backend
names of its own, so a backend bucket is named by its creation: `record = c` says
that the backend buckets of creation c are recorded, and `backend[s]` has the creations
whose backend bucket exists at site s. A chunk is the pair of a backend bucket and the
PUT that stored it, as every PUT here has a key of its own. `made` is the local list
`created`, `found` and `todo` are the metadata a deletion has read and the rest of its
loop. `excused` is history: creations whose backend buckets may be left over, by a
fault, a hang-up, a crash, a refused deletion, or a request that took another record.

| Code | Actions |
|---|---|
| `create_bucket` | `CreateBegin`, `MakeBucket`, `MakeFails`, `CreateCommit`, `CreateStoreFails` |
| its roll-back | `RollBack`, `RollBackFails`, `RolledBack` |
| `delete_bucket` | `DelBegin`, `DelCheck`, `DelRead`, `DelSite`, `DelSiteFails`, `DelCommit`, `DelStoreFails` |
| `put_object` and its upload tasks | `PutBegin`, `SiteAnswers`, `UploadFails`, `PutFails`, `PutCommit`, `PutStoreFails` |
| `delete_object`, the reaper's batch delete | `DeleteObject`, `Purge` |
| axum dropping a handler, a kill and restart | `HangUp`, `Crash` |

The sites are visited in any order, which includes that of the clients. A site does not
delete a bucket that holds an object (`HoldsChunks`), as S3 has it; this is what keeps
`ObjectsStored`, since the gateway's own check of emptiness is stale by the time the sites are asked.
The gateway is configured and the set of clients is fixed. Replicas only: the quorum
of a PUT is one. Overwrites and the details of the purge are in `ObjectStore`.

### Management

`conf` is what the `ArcSwap` holds, `stored` what the store has, `clients` the sites the
process built clients for when it started, `copy[r]` the configuration that request r
holds between two calls. A handler never awaits, but handlers run on several threads:
reading and changing (`Change`), `update` (`Update`), the second read in `save_to_db`
(`ReadBack`) and the write (`StoreConfig`) are steps of their own. Of a site only the name
is kept, and of its position in the list only that it keeps one. `bucket` and `object`
stand for what the S3 side records: the sites a bucket has backend buckets on, and the
sites an object's metadata name. `dropped`, `reused`, `imported`, `clean`, `alone` and `hadUsers`
are history; they name the excuses in the properties. `clean` ends with a change that overlaps
another or whose save fails, and comes back with the next one that is made and saved alone.

| Code | Actions |
|---|---|
| `add_site`, `update_site`, `remove_site` | `AddSiteBegin`, `UpdateSiteBegin`, `RemoveSiteBegin` |
| `update_erasure_config`, `update_tls_config`, `remove_tls_config`, `save_full_config` | `UpdateErasureBegin`, `UpdateTlsBegin`, `ImportBegin` |
| `SharedRuntimeConfig::update`, `save_to_db` | `Update`, `ReadBack`, `StoreConfig`, `StoreFails` |
| `create_admin_user`, `delete_admin_user` | `CreateUserBegin`, `CreateUser`, `DeleteUserBegin`, `DeleteUser` |
| `main`, `load_from_db`, a kill | `Start`, `Stop` |
| `create_bucket`, `put_object`, `get_object` as far as clients matter | `CreateBucket`, `PutObject`, `GetPanics`, `GetMixesUp`, `PutFails` |

### Listing

Keys are numbers in byte order; a request is the set of keys that start with its prefix
and, for each of them, the common prefix it is rolled up in. The scan of `list_objects` is
described by what it returns: it leaves its loop at the first plain key that does not fit
(`Rest`), so `Contents`, `CommonPrefixes` and `Truncated` speak of what lies before. The
next token is the last *key* of a page. A client (`Begin`, `NextPage`, `PageFails`) follows
the tokens while others put and delete keys (`PutObject`, `DeleteObject`). The encoding of
tokens and of XML is left out.

### ErasureCoding and AwsChunked

Bytes are told apart by their place, so what holds of `Body(n)` holds of every body of that
length. A parity shard is a value that remembers the data shards: what the library
promises of k shards, and nothing else (`ParityShard`, `Restored`, external). Errors are `Failed`. A
chunked body is the sequence of its chunks as they arrive: whether the header can be read,
the size it says, and the bytes that are there.

## 3. What TLC checks

| Run | Bounds | Shows |
|---|---|---|
| `replica` | 1 key, 2 sites, 2 PUTs, 1 GET, 1 DELETE, 1 site error, 1 crash | `TypeOK`, `ReadErrorExcused`, `LeftoverExcused`, and that `ObjectStore` implements `DurableStore` |
| `erasure` | 2 keys, 3 sites, 2+1, a PUT, a COPY, a (batch) DELETE, one site, key and store error; bodies of up to 8 bytes, up to 3+2 shards in blocks of up to 5 bytes | with erasure coding and copies: `Durable`, `NeverPurgesLive`, `LeftoverExcused`, `ReadsDecode`, `BlocksDecode`, `ChunkedDecodes` |
| `purge_liveness` | 1 key, which each of 2 DELETEs names once or twice, 2 sites, a PUT, 1 site error, 1 crash | that `ObjectStore` implements `PurgeQueue`, `DeletedEventuallyPurged`, `QueueEventuallyEmpty` |
| `purge_reaper` | 2 entries, 2 sites, batches of 1, one site error, store error and restart | `TypeOK`, `NothingForgotten`, `QueueAttended`, `EntriesPurged`, `ShutdownStops`, `ServersAccept`, and that `PurgeReaper` implements `PurgeQueue` |
| `multipart` | 2 sites, 2 part uploads of numbers 1 and 2, 2 of two completions and an abort, 1 permit, one fault of any kind, a hang-up or a crash included | `TypeOK` (permits and clean-up), `MissingPartWasSwept`, `PartsKeptUntilCommit`, `NoPartForgotten`, `NoneStuck`, and that `Multipart` implements `MultipartUpload` |
| `buckets` | 2 sites, 2 creations, 2 deletions, a PUT, 2 site errors, 1 store error, 1 crash | `TypeOK`, `RecordedIsBacked`, `NothingLeftOver`, `ObjectsStored` |
| `management` | 2 sites or none stored, 3 requests of any kind, 2 users, 3 imports, 1 store error, 1 stop | `TypeOK`, `SitesKept`, `ConfigSound`, `StoredIsMemory` |
| `listing` | 6 keys, two common prefixes, 4 shapes of prefix and delimiter, pages of at most 2, 1 page not answered | `TypeOK`, `NothingSkipped`, `EntriesInOrder`, `PrefixesAtMostTwice`, `PagingEnds` |
| `late_upload` | no faults | violated: `DeletedLeavesNothing` |
| `tight_loop` | one restart that drops a site | violated: `NoTightLoop` |
| `named_parts` | 1 site, a part uploaded twice, a completion, no faults | violated: `CompletesNamedParts` |
| `last_admin` | 1 site, 2 users, 4 requests, no faults | violated: `AdminRemains` |

Why the bounds are enough. Two writes of a key give every order of overwrite,
delete and commit; a third would repeat one of them. One crash and one or two lost
requests fall at every point of every interleaving; the restarted process is in the
state of the first one apart from the store, so a second crash meets the same
choices. Two sites tell "some" from "all" in replica mode; erasure coding needs
its k+m. A batch limit of one with two entries shows what the limit of 1000 does. One permit for
two part uploads makes one of them wait; both numbers may be the same, so a part is
uploaded again. An abort beside a completion is a second remover of the same parts, and so is a second
completion, which may also have seen another version of a part. In `multipart` everything that goes wrong draws on one
bound, so a run has one fault, at any point of any interleaving; what two of them do together (a failed deletion and
then a crash, say) is left to the proofs, which know no bound. What fails one upload of a PUT or of a part
may fail the others too and counts once, as when the gateway itself is cut off. Two deletions may queue the same version, and one that names its key twice
queues it twice: each entry has its own owner. Only `purge_liveness` has such batches (`MaxTimes` 2); in the other runs
of the data path a key is named once, which keeps their state spaces small; the theorems hold for any number.
Two creations and two deletions of a bucket give one that replaces the record of
another, one that comes between two deletions, and a deletion that removes a record
it did not read. Two site errors let a creation fail and its roll-back with it.
Two management requests overlap in every way, and the third comes before or after both;
the stop falls anywhere. Six keys give pages that end before, in and after a common prefix,
and a prefix that lies between two pages. Bodies of up to 8 bytes are shorter than, as long as,
a multiple and no multiple of every shard count and block size.
Larger instances are the business of the proofs. Sites are interchangeable in the safety
runs of the data path (only `Cardinality` and quantifiers look at them), hence
`SiteSymmetry`, and so are sites and requests of one kind in `multipart` and `buckets`, and
requests and users in `management` and `last_admin`; the runs with liveness use no symmetry. `multipart` has a view
as well: of the parts that a completion lists only the numbers decide what it does. Deadlock checking is
off in `management`, `last_admin` and `listing` only, where requests and the client simply end; elsewhere
`Finished` is the step of a gateway where all is done.

`DeletedEventuallyPurged` is checked with `MaxKeyErrors` 0: with a 200 that hides
per-key errors (`SiteKeepsKeys`) the entry is dropped while the chunk is on its site, as
`SiteClient::delete_objects` returns every key it was given (`client.rs:339`).
It speaks of Confirmed chunks and of versions a delete had looked up;
`LeftoverExcused` and the run `late_upload` show what the other chunks and versions meet.

**Fairness.** Weak fairness of the steps of handlers (`PutStep`, `DelStep`, the end
of a read), of uploads, of the sites' answers and of the reaper: tokio runs every
task that is ready, and a request ends at the latest by the client's timeout of 300 s
(`client.rs:23`). Nothing is assumed of clients, faults, hang-ups or crashes.
In `PurgeReaper` the fair steps are those of the main task, of timers and of sites;
failures and restarts are not fair; a handler that has queued an entry wakes the reaper. `Multipart`
needs no fairness: `NoneStuck` says that while a request is under way some step without a
fault is enabled, and as each takes a request, an upload or a clean-up one further, there are finitely many.
The permit that a waiting part upload needs comes back by one of them. In `Listing` the client goes on as long as
it is given tokens, and is answered.

**Excuses.** Several properties say that something goes wrong for named reasons only. The
reasons are what the code does and, for all we found, no document rules out; the property is that there is no
other, which is what a change of the code would break first:

* `LeftoverExcused`: a PUT that failed or lost its client, an overwritten version, a version
  bound while a delete was reading (the delete removes it and queues the version before
  it, `rocksdb_backend.rs:119`), a late upload (finding 1), a batch delete that hid an error.
* `NoPartForgotten`: a part uploaded again; a part that every request which removed the upload had read the
  records too early for; a deletion that failed on the very site the part is still on; a replica that came to a
  site its record does not name after a clean-up had been there.
* `NothingLeftOver`: the causes in the history `excused` of `Buckets`.
* `SitesKept`, `ConfigSound`: a site that a request removed or renamed, a name given to
  two sites (`update_site` does not refuse it as `add_site` does), an import, which
  nobody validates, and a process or a bucket made while there were no clients yet. `DESIGN.md:1524` plans
  sites that are added and removed at run time; `main.rs` builds the clients once, so a gateway that is
  configured at run time panics in every PUT until it restarts, and no property asks it not to.
* `QueueAttended`, `EntriesPurged`: an error of the store, after which the reaper waits for the next delete;
  for `EntriesPurged` also sites without a client and a reaper that was stopped.
* `StoredIsMemory`: a change that overlaps another or whose save fails, until the next one that is made and
  saved alone, or the next start.
* `NothingSkipped`: `max-keys=0`, whose page says that it is truncated and has no token.

`ConfigSound` does not say that there are sites for all chunks: only `update_erasure_config` compares the
two (`api.rs:369`), `remove_site` does not, and an erasure coded PUT is refused then.

### Findings

1. **Late upload** (`fanout.rs:62`). Upload tasks outlive the handler, and nothing
   orders them before the purge. A chunk that lands after the sweep of its site is
   never removed.
2. **Tight loop** (`purge_queue.rs:111`). With an entry whose remaining sites
   have no client, the drain never awaits; the accept loops of both servers share
   its task and are not polled. Connections that are open already go on.
3. **ETags of parts** (`multipart.rs:163`). A completion reads only part numbers. A
   part that was uploaded again is taken in its latest form although the client
   listed the ETag of the first, for which the S3 specification in `docs/` has
   `InvalidPart`.
4. **The last admin** (`web/api.rs:539`). A deletion counts the users in one call of the
   store and deletes in another. Two that overlap, of two users, both see two and leave none,
   which the comment at line 538 means to prevent.

Some leaks are in the models and are excused by the properties, as no document promises
otherwise for the code as it is: an overwrite queues nothing for the version it
replaces, a PUT that fails leaves the chunks that did land, chunks recorded as Pending
are never written again (the reconciler is a stub), and a part upload that
races the end of its upload leaves its part record or part objects. Of two creations
of a bucket that both find none, both are answered 200 and the backend buckets of the
first stay. A PUT, a DELETE of its object and a deletion of the bucket before the purge
leave the backend bucket for good: the site refuses and the record goes. An object
that is put while its bucket is deleted stays bound, and stored, under a bucket
without a record.

## 4. What is proved

`ObjectStoreProofs` proves, for every set of sites, keys and requests, every k and
m, every bound on the faults, and from nothing but the named assumptions of
`ObjectStore` (finitely many sites; disjoint kinds of requests; k positive):

* `TypeCorrect`: `Spec => []TypeOK`
* `CommitCorrect`: `Spec => []CommitInv`
* `DurableCorrect`: `Spec => []Durable`
* `NeverPurgesLiveCorrect`: `Spec => []NeverPurgesLive`
* `QueueCorrect`: `Spec => []QueueInv`
* `LeftoversAreExcused`: `Spec => []LeftoverExcused`
* `ImplementsPurgeQueueCorrect`: `Spec => ImplementsPurgeQueue`
* `QueueAttendedCorrect`: `Spec => []QueueAttended`

From the same assumptions `ReadProofs` goes on:

* `ReadsCorrect`: `Spec => []ReadInv`
* `ReadErrorsAreExcused`: `Spec => []ReadErrorExcused`
* `ImplementsDurableStoreCorrect`: `Spec => ImplementsDurableStore`

**The argument.** `Durable` is not inductive: the reaper's sweep could remove a
chunk of a bound version if the queue named one. `NeverPurgesLive` is not
inductive either: a delete queues what it read earlier, and a PUT could bind that
version after it was queued. `CommitInv` closes the circle. A PUT commits once,
under the key in its metadata (`BoundIsCommitted`); whatever a delete has found
was committed by a PUT that is over and under the key it was found
(`FoundIsCommitted`); so when the batch removes the keys it found, the versions it
queues are bound nowhere, and since their PUTs are over they never will be again
(`RetiredForGood`). Hence a sweep takes no chunk of a version that waits for its
quorum (`UploadedIsStored`) or has it (`QuorumStored`), which gives `Durable`. This
is where the missing transaction of the store's deletes does no harm: the delete may
remove the wrong version, but never queues one that is bound.

The proof has one lemma per action that matters (`FanoutOk`, `CommitMeta`,
`DelWrite`, the sweeps). All other actions are *quiet* (`QuietStep`: they bind
nothing, commit nothing, queue no new version and take nothing off a site), and one
lemma shows that quiet steps keep `CommitInv`.

`QueueInv` adds what becomes of a version that is no longer bound. A version that was bound has a fate
(`OnlyBoundHaveFates`); no upload to a Confirmed site is under way
(`ConfirmedIsUploaded`), so what a site reports swept stays gone (`SweptIsGone`), and an entry leaves
the queue only after that (`QueueCoversDeleted`). `LeftoverExcused` follows by cases on the fate.
`ReadInv` adds that a reader has asked every site of its version and that a Confirmed chunk is
missing only if the version is bound no more (`ReadsAreTruthful`).

The refinement maps a version to its PUT, `readable` to the versions with enough chunks on their
sites, and `reply` to what a reader has so far. `ReadProofs` has one lemma per action of the gateway
that is a step of `DurableStore`: `CommitMeta` is `Bind`, `DelWrite` is `Unbind` of every key it
removes, a reader's `GetBegin` or `CopyBegin` is `Open`, the end of its fetch `Answer`, a crash
`Interrupt`; that a version is readable when it is bound and as long as it is bound is `QuorumStored`.
Every other step is a stutter, or `Churn`: it changes only what is readable of unbound versions.

**The purge queue, twice.** The reaper is modelled twice, as a part of the data path and in its
process, and both models implement `PurgeQueue`, so what the one leaves out (limit, clients,
shutdown; uploads, hidden errors, several deletions of a version) changes no promise of the other.
A *job* is an owner of entries and a chunk; what is `due` are the jobs that entries list, and `reported` those of the batch
whose site has answered. In `ObjectStore` this needs `PurgeInv`: a batch is part of the queue, so a sweep
takes only what is due (`BatchIsQueued`), and each owner has one entry, so that writing one entry
back settles its jobs and no others (`QueuedOnce`). A deletion is `Enqueue`, the end of an upload `Arrive`, a batch
delete `Sweep`, whether its answer arrives or not, a 200 that hides errors `Lie`, an entry that is
written back or removed `Settle`; a new batch, an error of the store and a crash are `Drop`: what the reaper was
told is forgotten, and asked again. In `PurgeReaper` an object is deleted once, so a job is an entry and a site,
`PurgeInv` is enough, and nobody lies. The promise is no more than it says: `Arrive` is always
possible, which is the late upload of finding 1.

**No wake-up is lost.** `QueueAttended` is the safety half of the reaper's liveness, and holds without fairness: the
reaper does not wait while entries are queued, unless a wake-up is there, or a deletion is between its
batch and its wake-up, or the store has failed before. The reaper comes to wait from an empty list, or after the
pause that follows an error of the store. A deletion that queues an entry after that list owes a wake-up, and the
`Notify` keeps it if nobody waits yet. A crash may take both, but a restart begins with a drain. In
`PurgeReaper` the inductive invariant adds that it pauses only after an
error (`AttendedInv`). The run checks it in `PurgeReaper`, the theorem holds in both models.

**The codes.** `CodeProofs` proves, for every k, m, set of sites and bound on bodies and blocks:

* `ReadsDecodeCorrect`: `Spec => []ReadsDecode`
* `BlocksDecodeCorrect`: `Spec => []BlocksDecode`
* `ChunkedDecodesCorrect`: `Spec => []ChunkedDecodes`

What a read collects suffices because the write that made it waited for what the code needs:
`LaidOutAsCoded` says that the sites and the quorum of a write that was sent are those of its code, and with
`ReadInv` a reader goes on with that many chunks. The rest is about the code. The data shards are
the body cut in pieces (`DataShardsArePieces`), k of k+m chunks give all data shards back, directly or
because one of them is a parity shard (`ParityLeft`, by counting), and pieces that follow one another
flatten to the whole (`FlattenPieces`). For a body in blocks the same holds block by block, and the
blocks are pieces again. For a chunked body `CutsInOrder` shows that the cuts are ascending, so that the chunks
that arrived in full are pieces of what arrived. The library's induction theorems cannot be instantiated here, as they take an operator; the lemma
`Induction` says what is needed of sets of numbers instead and follows from the well-foundedness of
`<`, and the recursive function that flattens is unrolled with it.

Without parity the code does not exist: `encode` refuses m = 0, which the proof of `ReadsDecode` needs and
`Placements` therefore has as a condition.

`MultipartProofs` proves, for every set of sites, part numbers and requests and
every bound, from the named assumptions of `Multipart` (finitely many part uploads,
disjoint kinds of requests, at least one permit):

* `PartInvCorrect`: `Spec => []PartInv`
* `MissingPartWasSweptCorrect`: `Spec => []MissingPartWasSwept`
* `PartsKeptUntilCommitCorrect`: `Spec => []PartsKeptUntilCommit`
* `CleanInvCorrect`: `Spec => []CleanInv`
* `NoPartForgottenCorrect`: `Spec => []NoPartForgotten`
* `MultipartTypeCorrect`: `Spec => []TypeOK`
* `CompleteInvCorrect`: `Spec => []CompleteInv`
* `ImplementsMultipartUploadCorrect`: `Spec => ImplementsMultipartUpload`

**The argument.** `MissingPartWasSwept` speaks of a failed completion; why it failed
goes back to the upload that recorded the part. `PartInv` carries the fact along:
what a site has confirmed is stored there or swept (`UploadsStored`), so the home an
upload picks is (`HomesStored`), so its record is (`RecordsStored`), so is what a
completion has listed (`ListedStored`), and it fetches listed parts only
(`FetchesListed`). Every step keeps "stored or swept", as only a clean-up takes
parts away. `PartsKeptUntilCommit` needs `CleansAfterCommit`. Most steps leave
uploads or removers alone (`UploadsRest`, `RemoversRest`); four frame lemmas settle
the conjuncts about those, and each step's lemma has only the rest to do.

`NoPartForgotten` is about the end of an upload. `CleanInv` says that recorded and listed parts
were acknowledged, with the number and site of their record (`RecordsAcknowledged`), and are
on that site for good once stored (`PartsUploaded`); that a clean-up is past what it deleted or failed to delete
(`CleanedIsGone`), and what it deleted from the site of its record is gone (`SweptIsGone`); that an upload
is gone only by a remover that went through its clean-up (`UploadLives`); and, site by site, who accounts for
a part (`PartsAccounted`). So when the record of the upload goes, each recorded part was on the list that was
cleaned up, or was recorded after the list was read. `Lasting` collects what no step undoes, `Causes`
which action changes what; with the two each conjunct takes a few lines. Permits
are counted: one is free or with a request that stores its part (`PermitsCounted`).

`MultipartUpload` says what is left of all this for a client: the object that is bound is made of
parts that were recorded together, at the one moment the completion looked, one for each
number it was asked for, and until then the recorded parts can be read. `CompleteInv` has what the
steps of a completion need for that: one that has not looked knows nothing (`StartsEmpty`), what it has
fetched is what its list says, never what is recorded by then (`FetchedAsListed`), and it commits only with every number fetched
(`CommitsAll`). The rest follows from `CleanInv`: parts go only after an end was asked for. The abstract
upload allows what the code does: a second completion replaces the object of the first, and a completion
that has fetched its parts binds it although an abort was answered meanwhile.

`BucketsProofs` proves, for every set of sites and requests and every bound, from
`RequestsAssumption` of `Buckets` (disjoint kinds of requests, `None` is no creation):

* `BucketInvCorrect`: `Spec => []BucketInv`
* `BucketsTypeCorrect`: `Spec => []TypeOK`
* `RecordedIsBackedCorrect`: `Spec => []RecordedIsBacked`
* `NothingLeftOverCorrect`: `Spec => []NothingLeftOver`
* `ObjectsStoredCorrect`: `Spec => []ObjectsStored`

**The argument.** Backend buckets go in a roll-back or in a deletion. A roll-back takes
those of a creation that is not over, and what a record, a deletion, a PUT or a chunk
names was made by one that is (`NamedIsDone`), so it hurts nobody. A deletion takes
those it has read, and a site lets none go that holds a chunk: so chunks keep their
backend buckets (`ChunksHaveBuckets`), and since a PUT names sites that have confirmed its
chunk (`ConfirmedIsStored`) and a chunk is purged only of an object that is never
bound again (`PutOnce`), objects stay stored. `NothingLeftOver` is inductive only with
what a creation and a deletion know of their progress (`BackedIsMade`, `DeletesAll`).

`PurgeReaperProofs` proves, for every finite set of entries, every set of sites, every limit of a
batch and every bound on the faults:

* `PurgeInvCorrect`: `Spec => []PurgeInv`
* `PurgeReaperTypeCorrect`: `Spec => []TypeOK`
* `NothingForgottenCorrect`: `Spec => []NothingForgotten`
* `ImplementsPurgeQueueCorrect`: `Spec => ImplementsPurgeQueue`
* `QueueAttendedCorrect`: `Spec => []QueueAttended`

**The argument.** An entry that is written back keeps the sites that have not confirmed
(`Remaining`). That what it drops is gone needs `SweptIsGone`: while a batch is under way a site that
confirmed has none of the batch left, since nothing is added to the batch, and entries that are queued
meanwhile are not in it (`BatchIsQueued`).

`ManagementProofs` proves, for every set of sites, users, requests, places and imports, from
the assumptions of `Management` (what is stored before the first start is usable and has distinct
names; the default limit is one the semaphore takes):

* `ManagementTypeCorrect`, `SitesAreKept`, `ConfigIsSound`, `StoreKeepsUp`:
  `[]TypeOK`, `[]SitesKept`, `[]ConfigSound`, `[]StoredIsMemory`

**The argument.** A lost update or a failed save brings back an older configuration. So the first three
are invariants not of `conf` but of every configuration that can still come to be in
memory (`Held`: the one there, the one a start would load, those that requests hold): each has
the sites of the clients but for dropped ones (`KeepsClients`), distinct names (`NamesApart`) and usable
numbers (`AllSound`); data are on sites of clients or dropped ones (`DataKept`). `StoredIsMemory` needs
where the one change under way is (`Settled`).

`ListingProofs` proves, for any number of keys, any prefixes that lie together and any page limit:

* `ListingTypeCorrect`, `NoneIsSkipped`, `NoneComesTwice`, `PrefixesRepeatOnce`:
  `[]TypeOK`, `[]NothingSkipped`, `[]EntriesInOrder`, `[]PrefixesAtMostTwice`

**The argument.** All that a client was given lies up to its token, and all that stayed up
to there was given (`GivenUpTo`). A page extends this to its last key, because the keys before the
first that does not fit are on the page and their common prefixes with them. A prefix
that came once lies around the token or behind it, one that came twice lies before it
(`BehindOnce`, `BehindTwice`): keys of one prefix lie together.

**Only model-checked:** the liveness properties (`DeletedEventuallyPurged`, `QueueEventuallyEmpty`,
`EntriesPurged`, `ShutdownStops`, `ServersAccept`, `PagingEnds`) and `NoneStuck`, which is about
`ENABLED`: both are beyond TLAPS. Every other invariant and every refinement that a passing run checks is proved.

## 5. Not modelled

* The stubs: reconciler, health monitor, circuit breakers, retry, balancer, DNS, pool, coordination,
  rate limits, statistics, metrics, metadata sync, websocket. Each file is a comment line.
* `fanout_delete`, and `delete_object`, `enqueue_purge` and `create_checkpoint` of the store: nothing
  calls them but tests.
* HTTP signing, XML and error formatting, TLS setup, the command line, the management login and its page:
  no state that the properties speak of. The handlers that only read, count or ping sites.
* The arithmetic of Reed-Solomon and MD5, which is in libraries.
* A power cut that loses what RocksDB acknowledged, and a request that reaches a site after its client
  timed out.
* Which of two completions of one upload wins: `CompleteCommit` and `MultipartUpload` allow either, and no
  document says.

What could be added: the composition of `Multipart` with `ObjectStore` instead of one step for the object
of a completion, and of `Management` with the reaper, whose clients `PurgeReaper` picks freely.
