# kcaldav: specifications, model checking and proofs

kcaldav is a CalDAV server: a CGI program that serves calendars from one SQLite
database. Every HTTP request is a process of its own (`src/kcaldav.c`), started by
the web server, that opens the database, authenticates, does one thing and exits.
There are no threads and no shared memory. All concurrency, and all failure, meets
in the database: any number of request processes, and runs of the administrator's
tool `kcaldav.passwd`, interleave at the granularity that SQLite makes atomic, and
each acts on rows it loaded some statements ago. That is what these modules are
about.

Read `CalStore.tla` first, then `AtomicStore.tla`, which says in one page what
`CalStore` amounts to, then `NonceStore.tla` and `Accounts.tla`, then `Request.tla`, which
follows one request through all of them. The parsers (`ICal`, `ICalLines`,
`CaldavParser`, `Conf`) and `Paths` stand by themselves.

## 1. The system

### Components

| Component | Where | State it keeps | Operations |
|---|---|---|---|
| Calendar store | `db.c`, `kcaldav.sql`, `put.c`, `get.c`, `delete.c`, `proppatch.c` | tables `collection` (url, ctag, properties) and `resource` (url, etag, data) | PUT, GET, DELETE of resources and collections, PROPPATCH, new/delete/set pages |
| Digest nonces | `db.c`, `kcaldav.c` `nonce_validate`, `dynamic.c` `json_logout` | table `nonce` (value, count), at most `NONCEMAX` rows | validate, raise the count, hand out a new one, cull, delete |
| Principals, proxies, owner | `db.c`, `kcaldav.passwd.c`, `dynamic.c` | tables `principal`, `proxy`, `database` | create the database, create and change principals, give and withdraw proxy rights |
| Request pipeline | `kcaldav.c`, `server.h`, `options.c` | `struct state`: principal, requested principal, collection row, path parts | parse, authenticate, check nonce, check proxy, load collection, dispatch |
| PROPFIND and REPORT | `propfind.c` | none (a long read over several statements) | listings of principals and collections, single resources, multiget |
| JSON pages | `dynamic.c` | none beyond the request | index, setpass, setemail, newcoln, delcoln, setcolnprops, modproxy, delproxy, logout |
| Property callbacks | `property.c` | none | print one property of a loaded row |
| HTTP helpers | `util.c` | none | split and check paths, decode, compare etags |
| iCalendar parser and printer | `ical.c`, `libkcaldav.h` | a list of lines, a tree of components | parse, validate, resolve time zones, fold, print |
| CalDAV XML parser | `caldav.c` | a buffer, the request so far | Expat callbacks |
| Configuration parser | `conf.c` | two settings | parse lines |
| Web front end | `*.js`, `*.xml` | the page | submits the JSON pages |
| Left aside | `compats.c`, `configure`, `datetime.c` (not built), `test-*.c` | | |

External: SQLite, Expat, kcgi, the web server and the clients.

### How they interact

A request runs through the pipeline in one process: authentication reads
`principal`; `nonce_validate` reads and then updates `nonce`; a request for another
principal's calendars reads `proxy`; a request inside a collection reads its
`collection` row once, into `st->cfg`; then the method issues its statements. Nothing
ties these steps together except the identifiers loaded on the way. Only five
operations use a transaction (`BEGIN IMMEDIATE`): a conditional change of a resource,
the count of a nonce, a new nonce, a proxy right and the creation of a principal.
Everything else is a sequence of autocommit statements. `SQLITE_BUSY` is retried
after a random sleep, for ever, in `db_step_inner` and `db_exec`.

### What is hard, and what makes each component correct

* **Calendar store.** A client synchronises by comparing a collection's ctag, then
  etags, with what it remembers. The ctag is *read* before the listing and *raised*
  after the resource changes, each in its own statement, so its correctness is a
  matter of ordering between processes. Conditional PUT and DELETE must compare and
  write in one transaction. Collections disappear, and URLs are taken again, under
  requests that already hold a row. Correct: an unchanged ctag means unchanged
  contents; no conditional write loses another's; nothing is written to a collection
  that the request did not name, or left in one that is gone.
* **Nonces.** The first look is outside the transaction; copies of a request, a
  logout or a cull may come in between; the table is reachable by anyone and must stay
  bounded. Correct: no count is let through twice, nothing goes through on a nonce
  that is gone, nobody is refused without cause.
* **Principals, proxies, owner.** Everything is check-then-act over several
  statements: who owns the database, which principal an address names, whether the
  password matched, whether a proxy may write. Correct: one owner for good; only the
  holder or the owner changes a row; a right is given only by the principal it is over,
  and used only while given (up to a request already past the check).
* **Pipeline.** Order of the checks; a component read early must not be trusted late.
* **PROPFIND, REPORT.** A reply assembled from several statements shows several instants.
* **Parsers and helpers.** Sequential. Boundaries (durations, folding, widths, depth
  of nesting, path splitting) rather than interleaving.
* **Liveness.** No path may leave a transaction open, since every other writer then
  waits; with that, every request is answered.

## 2. Modules

| Module | What it is |
|---|---|
| `CalStore` | Collections and resources of one principal, and the request processes; one statement per step |
| `AtomicStore` | Abstract: a conditional key-value store whose calls take effect in one instant |
| `CalStoreRefinement` | The refinement mapping from `CalStore` to `AtomicStore` |
| `CalStoreInv` | The inductive invariant of `CalStore` |
| `CalStoreProofs`, `CalStoreSafety` | Theorems about `CalStore` |
| `CalStoreRefinementProofs` | That `CalStore` implements `AtomicStore` |
| `NonceStore`, `NonceProofs` | Nonces, and theorems about them |
| `Accounts` | Principals, proxies, the owner; `kcaldav.passwd` and the pages that change them |
| `AccountsInv`, `AccountsProofs` | The inductive invariant of `Accounts`, and theorems about it |
| `Request` | One request from its first check to its answer, amid changes by others: GET, PROPFIND, REPORT whole, the methods that write up to where `CalStore` and `Accounts` take over |
| `RequestInv`, `RequestProofs` | The inductive invariant of `Request`, and theorems about it |
| `Paths` | Names, links and paths: `util.c` and the decoding of links |
| `PathsProofs` | Lemmas about sequences of pieces: where a name is cut, and that a link printed is taken apart again |
| `ICal` | The iCalendar parser, line by line |
| `ICalLines` | Folding lines when printing, joining them when reading |
| `CaldavParser` | The CalDAV request parser: Expat's events and the handlers |
| `Conf` | The configuration file |
| `ParserProofs` | Theorems about `ICalLines`, `ICal` and `CaldavParser`, on texts of any length |
| `MC*` | Instances for TLC; their `.cfg` files are the runs |

Operators named `X_Something`, above the definition `X`, are the mutated forms of
`X` used to see that a property can fail at all.

### CalStore and the code

`db` is what every reader sees; `wal` what the writer sees, uncommitted part
included; `lock` SQLite's write lock. One client has one outstanding request: `pc`
is where its process is, `job` what it asked, `cfg` the row in `st->cfg`, `code` the
answer. `known` and `copy` are what the client remembers from its last listing and its
last GET. `orphans` is a history variable: collections in which a process ended
between the row and the ctag.

| Action | Code |
|---|---|
| `Start...` | the request line and headers that reach each method (If-Match as `digest`) |
| `load` | `kcaldav.c:743`, `db_collection_load`: the row, or 404 |
| `db_resource_new`, `db_resource_remove` | one autocommit statement, then `db_collection_update_ctag` in a second |
| `trans_open`, `trans_check`, `trans_write`, `trans_update_ctag`, `trans_commit` | the steps of `db_resource_update` and `db_resource_delete` |
| `db_collection_new`, `db_collection_remove` | with the foreign key's cascade |
| `prop_reply`, `db_collection_update` | PROPPATCH and setcolnprops: the answer is sent first |
| `method_get`, `method_propfind` | the reads; a listing carries the ctag loaded before |
| `Crash`, `StatementFails`, `CommitFails`, `ListingFails` | a dead process, an error that is not retried, a COMMIT whose result is ignored, a listing cut short |

Bodies and etags are numbers that name the request that brought them: with
`arc4random` no two requests make the same etag (`Arc4Random = TRUE`), without it the
etag depends only on the second the process started.

### AtomicStore and the mapping

A call is pending from the moment its collection row is loaded. An unconditional
write takes effect with its first statement, a conditional one with its COMMIT or when
its comparison fails, a listing with its SELECT. `CalStoreRefinement` maps
`db.res` to the abstract contents, the non-null rows of `db.coln` to the open
collections, and the process's step to the call's phase. What the mapping rules out is
an interleaving whose outcome no single instant explains. A COMMIT that fails and a
listing cut short have no such instant and are not in that run.

### NonceStore and the code

`nonce` is the table with its AUTOINCREMENT ids, which tell apart two rows of the same
value made at different times. `nonce_validate` is the first look; `update_open`,
`update_check`, `update_write` are `db_nonce_update`; `new_open`, `new_insert` are
`db_nonce_new` with its count, cull, repeated INSERT and COMMIT in one step, since
nobody sees the inside of a transaction and nothing is decided there that another
process could change. `accepted` is the history of requests let through whose count was
committed. `NONCEMAX`, the size of a cull and the set of values are constants. The cull
may take any rows, since its statement has no ORDER BY; it may take the very nonce that
is drawn again.

### Accounts and the code

One process is a run of `kcaldav.passwd` (create with -C, own password, another
principal with -u, with or without -n and -e) or a web request (setpass, setemail,
modproxy, delproxy, or any method on one's own or another's calendars). `job` is its
command line or form, `me` the row it loaded, `arg` the id or the right it looked up.
`schema` follows the file and `kcaldav.sql`: absent, made but empty, some tables, all
tables (`db_init` makes the file as the process starts); the owner's row is a further statement. `db_owner_check_or_set` is
`owner_get`, `schema_begin`, `schema_end`, `owner_insert`; `SchemaBusy` is the
retry in `db_exec`, which starts the schema over. `db_prncpl_new` and `db_proxy` are
transactions and one step each. Two history variables: `overtaken` has the requests already
past the proxy check when the right they rely on changed, and `bore` the principals that have
borne the address given to modproxy since that request came (`Noted`, which goes with every step).

### Request and the code

`at` is the step that the request `req` has reached, `st` is `struct state`, `answer` its
status and multistatus responses, and `past` the history of databases since it came.
Each response also records what it was printed for (`about`) and the row shown (`row`).

| Step | Code |
|---|---|
| `main` | `kcaldav.c` up to the first query: method, headers, empty path, `http_paths` |
| `SelectCols`, `SelectRproxies`, `SelectProxies` | the three SELECTs of `db_prncpl_load`, once for the one who asks and once more for the one whose calendars they are |
| `Authenticate`, `Authorise`, `Locate`, `Dispatch` | what `main` decides after them, in its order; the nonce and the digest appear by their outcome (`NonceStore`) |
| `method_get`, `method_propfind`, `method_report` | one SELECT and the answer |
| `propfind_list` | one step for each link of a multiget |
| `Others` | a change by somebody else, as `CalStore` and `Accounts` have them, between any two SELECTs; a row and its ctag, two statements in `db.c` and two steps in `CalStore`, change at once here, where nothing depends on the time of a ctag |

A request that writes or belongs to the JSON pages stops at `method_put` and so on:
what follows is in `CalStore` and `Accounts`, whose `load` and `me` are what is handed over.
A statement that fails (`Fault`) is a 505, or one response of 505 in a multiget, or
ends a listing early. `Paths` writes a name or link as a sequence of pieces: words, `/`, `+`,
blanks, three escapes, a `%` cut short and the script's name, and what decoding and encoding
make of each. Values of properties that neither the database nor the client bears on (content
types, time zones, quotas) are their own names.

### The parsers and the code

`ICal` reads an iCalendar line by line. The recursion of `ical_parsecomp` and
`ical_parsetz` is the sequence of frames `stack`; a frame that ends at the end of the
text is checked as one that ends with its END. A line is a name, a parameter and a value
that is already split; values are taken from small sets of good and bad ones, in which
what a parser tells apart is a field (for a duration its sequence of digits and units).
`icalnode_print` and `ical_line` are in `ICalLines`, over octets: the first or a later
one of a UTF-8 character, a blank, a delimiter; `Width` stands for the 74 at which
`icalnode_puts` folds.

`CaldavParser` takes the events of Expat in any order that a well-formed document
gives, with a text in any number of pieces. Elements and properties are a part of the code's
tables (`calelems`, `calprops`, `propvalids`): the four requests, `prop`, `href`, an unknown
element, and three of the properties, among them the one that `propvalids` checks, since the
code treats the others like `displayname`; `CALPROP__MAX` is included. `Conf` takes characters
out of classes (letter, blank, backslash, `#`, `=`, newline).

## 3. Model checking

`CHECK_DEADLOCK FALSE` everywhere: the bounds on requests and faults stop every
model once they are used up, which is not a deadlock of the program.
`EveryRequestEnds` is what says that nobody is left waiting.

| Run | Instance | Shows |
|---|---|---|
| `sync` | 3 clients, PUT, DELETE, PROPFIND on one resource, 4 requests, one crash or listing cut short | `TypeOK`; `UnchangedCtagMeansUnchanged`; `NoLostUpdate` |
| `coll` | 2 clients, 2 URLs, 3 identifiers, 4 requests, one fault of any kind | `EtagIdentifiesBody`, `NoStrayResources`, `NoMisdirectedWrite` while collections come and go; the inductive invariant `IInv` |
| `live` | 2 clients, all nine kinds of request, 3 requests, one crash or failed statement | `EveryRequestEnds`; `CalStore` implements `AtomicStore` |
| `nonce` | 2 processes, 3 values, room for 2, counts to 2, 4 requests, one fault of any kind | `CountsIncrease`, `LetThroughOnlyIfStored`, `RefusedOnlyIfOvertaken`, `TableBounded`, `EveryRequestEnds` |
| `accounts` | 2 processes, 2 users, 3 addresses (so that one is free to move to), 2 hashes, root and one user id, one fault of any kind | `OnlyOwnerCreates`, `OnlyHolderChanges`, `ProxyActsWithRight`, `RightsGivenByOwner`; the inductive invariant `AccountsSound` |
| `request` | 2 users, up to 3 collections and names of every class, every method, body, depth and kind of credentials; one failed statement; one change by others, three for two chosen requests | `AnswersWereTrue`, `MultigetAnswersEach`, `OnlyTheEntitled`, `HrefsResolve`, `PrivilegesAreTrue`, `MembershipIsMutual`; the inductive invariant `RequestSound` |
| `parsers` | every short text of each parser's alphabet; `Width` 6 | `ReadAsWritten`, `VerdictByContent`, `DurationsRead`, `PrintedIsRead`, `LinesFit`, `CharactersWhole`, `RequestAsWritten`, `SettingsAsWritten` |

Five further runs each show a property that a comment or a manual page of the
repository states and the code does not have (section 5).

**Why these bounds.** Each hazard needs a particular number of actors. The ctag
window takes a writer between its two statements, a lister that loads the row before
and one that looks after: three clients, and a fourth request leaves one of them free
to act again. A misdirected write needs a request in flight, a deletion, a new
collection at the same URL, and another request: 4 requests, 3 identifiers. A lost
update needs the version that both read and the two that write. One fault of any kind is enough because a process
that fails is gone, and what it leaves is seen by the others however they go on; in `sync` a crash stands
for a failed statement too, which leaves the same rows behind. For
the nonces: two copies of a request, a logout, and a request that culls; with room for
two rows the table is full when it matters. For the accounts the hazards are between
two processes (two creators, a password change under an e-mail change, a right
withdrawn under its use, an address that moves between its look-up and the right given), and longer histories are covered by the initial states: any
small database with one or two principals and a right from one to the other. The
theorems of section 4 remove the bounds for every safety property of `sync`, `coll`, `nonce`,
`accounts` and `request`, for the refinement in `live`, and for five of the eight properties of `parsers`.

A request reads the database three or six times before its method is known and once more, or
once for each link, after that. What matters is a change between two of these, so that
one change is enough for most requests. The three
changes of the two crowded requests let a collection be deleted, made again at the same URL and
filled between the look at the name and the look at the rows. The texts given to the parsers
are built from one small alphabet per hazard, and as long as that hazard needs. For `ICal`:
a zone or two defined before or after what names them (6 lines), UNTIL and DTSTART in every order,
the offset of a zone that decides whether an UNTIL fits (7 lines, the TZID included),
components in components, incomplete or repeated, and every value that its parser tells apart.
For `ICalLines`: every pattern of octets, blanks and delimiters around each fold. For
`CaldavParser`: property updates (12 events), links in pieces (9), and any element anywhere
(6). For `Conf`: every line that a setting can be written as, and every malformed one, two at a time.

**Symmetry** is used only in runs without liveness properties: over clients in
`sync` and `coll`, and over processes, names, addresses and hashes in
`accounts`. User ids are not permuted: one of them is root.

**Fairness.** `WF_vars(Serve(p))` for each process: the operating system runs every
process, and a process that waits for the write lock sleeps at random and tries again
(`db_sleep`, `db.c:361`). A request, a fault or a crash is never forced to happen. With a
bounded number of requests, weak fairness is enough, because the lock is eventually free
for good once the others are done; the code makes no promise that one waiter is not
overtaken for ever by an endless stream of others, and `EveryRequestEnds` does not
claim it. What it does claim is that no path, faults included, leaves the lock held.

## 4. Proofs

All are proved with TLAPS for every value of the constants that the named assumptions
(`CalStoreAssumption`, `NonceAssumption`, `AccountsAssumption`, `RequestAssumption`,
`RefinementAssumption`, and for the parsers `WidthAssumption`, `NodesAssumption`,
`NoneAssumption`, `BadAssumption`, `GrammarsAssumption`) allow: any number of processes, URLs, names,
requests and faults, any choice of fault kinds, and texts of any length over any
alphabet. Two theorems assume more, and say so: `Etags` that the build has
`arc4random`, and `Refines` that neither a failed COMMIT nor a listing cut short occurs, since
with either the code does not implement the atomic store (section 5).

| Theorem | States |
|---|---|
| `TypeCorrect` | `TypeOK`, and `JobOK`: what a process holds at each of its steps |
| `Inductive` | `Spec => []IInv` |
| `CtagSync` | `Spec => []UnchangedCtagMeansUnchanged` |
| `NoStray` | `Spec => []NoStrayResources` |
| `ConditionalWrites` | `Spec => NoLostUpdate` |
| `Targets` | `Spec => NoMisdirectedWrite` |
| `Etags` | `Arc4Random => (Spec => []EtagIdentifiesBody)` |
| `Refines` | `Spec => ImplementsAtomicStore`, for crashes and failed statements |
| `NonceTypes` | `NonceStore`: `Spec => []TypeOK` |
| `AtMostOnce` | `Spec => CountsIncrease` |
| `NoStaleNonce` | `Spec => LetThroughOnlyIfStored` |
| `RefusalJustified` | `Spec => RefusedOnlyIfOvertaken` |
| `Bounded` | `Spec => []TableBounded` |
| `Sound`, `TypesOK` | `Accounts`: `Spec => []AccountsSound`, `Spec => []TypeOK` |
| `OneOwner` | `Spec => OnlyOwnerCreates` |
| `HolderChanges` | `Spec => OnlyHolderChanges` |
| `ActsWithRight` | `Spec => ProxyActsWithRight` |
| `RightsGiven` | `Spec => RightsGivenByOwner` |
| `RequestsSound` | `Request`: `Spec => []RequestSound` |
| `TrueAnswers` | `Spec => []AnswersWereTrue` |
| `EachLinkAnswered` | `Spec => []MultigetAnswersEach` |
| `EntitledOnly` | `Spec => []OnlyTheEntitled` |
| `LinksLeadBack` | `Spec => []HrefsResolve` |
| `PrivilegesGranted` | `Spec => []PrivilegesAreTrue` |
| `MembershipMutual` | `Spec => []MembershipIsMutual` |
| `LinesInvariant` | `ICalLines`: `LinesSpec => []LinesInv` |
| `LinesFitHolds` | `LinesSpec => []LinesFit` |
| `CharactersWholeHolds` | `LinesSpec => []CharactersWhole` |
| `PrintedIsReadHolds` | `LinesSpec => []PrintedIsRead` |
| `ICalInvariant` | `ICal`: `ICalSpec => []ICalInv` |
| `DurationsReadHolds` | `ICalSpec => []DurationsRead` |
| `XmlInvariant` | `CaldavParser`: `XmlSpec => []XmlInv` |
| `RequestAsWrittenHolds` | `XmlSpec => []RequestAsWritten` |

**The argument for the calendar store.** `UnchangedCtagMeansUnchanged` is not
inductive by itself: it needs to know that a ctag, once read, has not since gone back
(`SnapshotsOK`); that a row loaded by a process names an identifier already handed
out, so that a deleted collection never comes back under it (`RowsOK`,
`SnapshotsOK`); that while a transaction is open, the committed database differs from the
writer's only in the row that was compared and then in one ctag (`TransOK`), so that a COMMIT
publishes both at once; that the lock and the step of its holder agree (`LockOK`);
and what each process holds (`JobOK`). The conjunction `IInv` is inductive.
`CalStoreProofs` proves the typing half, one lemma per group of actions;
`CalStoreSafety` splits the rest by how a step touches the database: quiet steps, reads,
one autocommit write of a resource, of a collection, a step inside a transaction, a
COMMIT, and a fault. The two action properties follow by listing the only steps that change a
resource (`ResourceWriters`) or a collection row (`CollectionWriters`), and reading
off, from `TransOK` and `TargetsOK`, what those steps knew. That a write never lands in another
collection that has its URL by then (`NoMisdirectedWrite` asks for the number of the row loaded, and that a
new collection's number is nobody's) rests on `NewIsUnknown`: numbers are not given out twice.

**The argument for the nonces.** The stored count is one more than the last count let
through, and larger than all (`CountsOK`); ids are given out once (`IdsOK`); and what was
checked inside the transaction still holds when it writes, because the lock keeps
others out (`CheckedOK`, `LockOK`). A request let through has passed that check, hence
has a larger count than every other with that row. `Bounded` needs only that a full
table is culled by at least one row before it grows by one, and that Stored is finite.

**The argument for etags.** A body is known by the number of the request that brought it, and
with `arc4random` an etag by that same number. `EtagsOK` says that the two agree in every
request under way, in every row and in every copy that a client keeps, so that one etag cannot
stand for two bodies; the step to watch is the COMMIT, which publishes what `WrittenOK` says was
written. Without `arc4random` a request begins with an etag that another may have, and the
theorem fails with it.

**The argument for the refinement.** Given `IInv`, each action of `CalStore` is an action of
`AtomicStore` or a stutter, one lemma per action (`InsertStep`, `CommitStep`, `ListStep`, ...,
gathered in `StepMaps`), each by way of the lemmas that say what an abstract step looks like
through the mapping (`AtomicAsk`, `AtomicEffect`, `AtomicReturn`, `AtomicStutter`, ...). The
interesting ones are `CommitStep`, which needs from `TransOK` that the row compared is still
the committed one, and `BreakStep`: a process that dies leaves a call that took effect or one
that never will.

**The argument for the accounts.** Ids are never reused while a process holds one and names
never change, so that a row that was loaded is still there under its name (`LoadedOK`); one
process makes the tables, and then names the owner (`SchemaOK`), so that whoever is past
`db_owner_check_or_set` is the owner or root and stays so (`ManagerOK`); a right that was looked
up is the one in the table, or the request counts as overtaken (`ActOK`). What a page
is still doing at each step, and what it has asked for (`StageOK`), links these to the job, and
whoever modproxy found by the address it was given bore it (`BearersOK`): that is what
`RightsGiven` needs, since the right is written two statements later, by number, when the address may
have moved. The
action properties follow from the list of those who write at all (`WhoWrites`).

**The argument for requests.** While a request runs, others change the database as they like. What
it holds is a principal as *one* of the databases since it came had it (`Loaded`, `StageOK`), and
a collection that is still there under its number, or was gone at some instant (`KeptOK`):
numbers are not reused, which is all that the last query relies on, as it asks by number. From
these follow, for each kind of response, the row it was printed from and an instant at which
that row was at that URL (the lemmas `...Fine`), and for each 404 an instant without it
(`RowMissing`). `EntitledOnly` reads off `StageOK` that whoever is served was the owner, or had the
right, in the database read last by `SelectProxies`. `PastOK` says that what a listing goes
through ends: without it the order of the responses is not defined.

`LinksLeadBack` is about texts of any length, and rests on `PathsProofs`: the first and the last
slash of a sequence exist (`FirstSlash`, `LastSlash`, from the well-foundedness of the naturals),
escaping piece by piece and putting the results in a row keeps names apart (`Regrouped`), and a link
as printed is cut where it was joined (`TakenApart`, `HomeTakenApart`). `LinkToResource` and its
companions then say that what was printed for a principal, a collection or a resource is decoded to
just that. Names are any texts, except that a principal's has no slash (`RequestAssumption`).

**The argument for printed lines.** The three properties speak of the whole output, the loop of its
last line only. `LinesInv` says of the output so far that its last line is as long as the loop's
column says (`FitOK`), that it ends outside a line break (`EndsOK`), that each break was made between
characters and what comes next starts one (`CutOK`), and that it reaches as many octets of the node's
line as were taken (`Reaches`). To *reach* is a relation: positions in the output, one
for each octet, with nothing but folds in the gaps. `TracedRead` shows that `Joined`, which is how
`ical_line` reads and is defined by recursion, gives what is reached. `WidthAssumption` (at least 6) is what lets
a character of four octets and the blank of its fold fit on a line.

**The argument for durations.** `DurationText` puts up to five numbers and units in a row;
`ical_duration` reads them back by a recursion over positions. The signs are where the code has
them, after the P; a text that begins with its sign fails at the first character (`SignedFirstFails`). `DurationRead` follows the recursion from unit
to unit (`PartRead`, `TRead`): a number is up to its unit, a unit that is not written does not
occur, so that the first number stored for each unit is the only one. The invariant of the parser
itself is small: the component on top is there.

**The argument for requests in XML.** `RequestAsWritten` compares what was read with what a whole document says
in terms of depths and places of its events. `XmlInv` says the same of every prefix: the elements
that are open are those that the document opened last (`Nested`), links and
property names are those that ended so far (`LinksOK`, `PropsOK`), the handlers installed and the buffer are
those of the innermost element (`HandlersOK`, `BufferOK`). A document is extended by one event at a
time, so that most of the lemmas say what an event does to depths and places
(`DepthGrows`, `WithinStable`, `PlaceNew`).

**Recursion in proofs.** No installed prover can use an induction rule, which takes the predicate as a
parameter. What a recursive function yields is instead had from a least counterexample: `Least` (a set of
numbers has a least element, by well-foundedness) gives that the function exists (`FlatExists`,
`DurationExists`), its equation, and what it yields at each argument.

**Checked by TLC only.**

* Liveness (`EveryRequestEnds`, of `CalStore` and `NonceStore`): TLAPS proves neither liveness
  under fairness nor facts about ENABLED.
* `ICal` (`ReadAsWritten`, `VerdictByContent`) and `Conf` (`SettingsAsWritten`): each compares the outcome of
  a whole text with a reference definition, by folds over the text. That is induction over data, and a fold
  has no rule that the provers can use.

## 5. Where the code and its own words differ

| Run | What happens | What is said |
|---|---|---|
| `ctag_lost` | A process that dies, or whose second statement fails, between the row and the ctag leaves a change that no ctag ever shows | `db.c:1573` |
| `deleted` | DELETE with an If-Match that does not match deletes nothing and answers 204 | `db.c:1485`, `kcaldav.8` |
| `fields` | setcolnprops writes all three properties as it loaded them, so one of two concurrent changes is undone | `dynamic.c:147` |
| `duration_print` | A DURATION is parsed in the string that is printed later, and loses its numbers there: `P1D` is handed out as `P1` | `man/ical_print.3:38` |
| `safe_words` | A name with a `+` passes for safe and is listed as it is, and a multiget of the link that was listed finds nothing | `util.c:170` |

Modelled too, without a run of their own.

* In the store: a COMMIT that fails is answered 201 (against `db.c:1620`); a listing cut short
  is sent as complete; without `arc4random` two processes started in one second can make one
  etag for two bodies (`Arc4Random = FALSE`); a PUT into a collection that has just
  gone is answered as a duplicate.
* In the nonces and accounts: requests of one client that arrive out of order are refused as
  replays; a logout whose DELETE fails answers 200; a request whose nonce count could
  not be committed is let through; a proxy statement that fails is answered 200 (against
  `db.c:1038`); a database whose creator died between schema and owner can be claimed by nobody;
  a BUSY amid the schema makes its creation fail; setpass and setemail undo each other when
  they overlap.
* In requests: calendar-proxy-read-for lists those one may write for and
  calendar-proxy-write-for those one may read for (`property.c:109`, `130`); a property that is
  known but not served for this kind of thing is left out instead of being called missing; a
  link of a multiget that fails comes back with the script's name twice and its slashes
  escaped; a PUT to a collection's own URL stores a resource with an empty name, whose GET is a
  404 and whose DELETE removes the collection.
* In the parsers: an empty property to set gets the text of the element before
  it; a closing href outside a request is not foreseen; a configuration line that cannot be parsed
  ends the reading without an error, and a last line without a newline has its last character
  twice; DTSTART at the epoch passes for missing; a duration `PD` or `P1` is
  accepted, and the sign of a duration is taken after its P (`P-1D`) and refused before it
  (`-P1D`, `ical.c:818`), where RFC 2445 4.3.6, which `ical.c:805` names, has it: `DurationsRead`
  states both as they are; in a DAYLIGHT or STANDARD with an offset that is not zero, the comment
  at `ical.c:1180` wants an UNTIL in UTC, the code (1186-1198) takes one of the type of DTSTART
  too, which is local: `UntilTypes`, the reference of `VerdictByContent`, has both; the content of an unknown component belongs to the one around it; a DAYLIGHT
  after a nested VTIMEZONE goes to the zone begun last.

`UnchangedCtagMeansUnchanged` is therefore stated with the window the code has: it
speaks of a collection in which no process is between the two statements
and none has died there (`Settled`). `NoLostUpdate` excludes unconditional DELETE, and
`CountsIncrease` speaks of requests whose count was committed, for the same reason.

## 6. What is not modelled, and why

* The part of `kcaldav.passwd` that adds calendars (-d) and resource files to an existing
  principal (`kcaldav.passwd.c:456`, 493-553): next in the plan.
* The web front end (`*.js`, `*.xml`): it submits the JSON pages, which are modelled. Of those,
  the index and the collection page only print what was loaded, and the validators of single
  form fields (`kvalid_*`) decide before anything else happens.
* `datetime.c`: it is in the repository but no target builds it. The repetition of rules over time is
  there too; `ICal` parses rules.
* `compats.c`, `configure`: replacements for functions that a platform may lack, generated by
  a configuration tool and shared with other projects.
* `test-*.c`: drivers for the parsers without state of their own.
* Quotas (`statvfs`): read, reported, never enforced.
* Memory exhaustion: every allocation that fails ends the process or returns an error, which is a
  `Crash` or a failed statement to the others.
* Logging, the kcgi sandbox and worker processes, TLS, the web server: external.
* Several principals' calendars at once: the tables are keyed by collection and every
  statement names one, so `CalStore` models one principal's; the right to act on
  another's is in `Accounts` and `Request`.
* SQLite itself is taken at its word: autocommit statements and transactions are
  atomic and durable, one writer at a time, foreign keys enforced.

## 7. Plan

1. Done: `CalStore`, `AtomicStore`, the refinement, `NonceStore`, `Accounts`, `Request`, the
   parsers; all safety properties of the first five proved, and the refinement.
2. Done: the properties of `ICalLines` and `CaldavParser` and the durations of `ICal`, for texts of any length.
   `ReadAsWritten` and `VerdictByContent` of `ICal` are next, stated as `RequestAsWritten` is:
   by depths and places instead of folds.
3. `Accounts`: the additions of `kcaldav.passwd` to an existing principal.
4. `Paths` has the cuts and the links; what `http_decode` does to a text that was not
   printed here is next.
