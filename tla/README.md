# A verification project for dso-api

The DSO-API serves the open data of the city of Amsterdam: it reads dataset
schemas, builds Django models, serializers and URLs from them at run time, and
answers list, detail, WFS and vector-tile requests with streamed responses,
under the database role of the end user. This directory holds TLA+ modules that
model the parts of that program where order, failure and caching decide whether
it is right, the TLC configurations that check them, and TLAPS proofs of the
properties that matter most. `PROJECT.json` maps every definition to the lines
of source it stands for.

Paths below are relative to `src/src/` of the repository.

Contents: [1 Inventory](#1-inventory) · [2 Modules](#2-modules) ·
[3 Runs and bounds](#3-runs-and-bounds) · [4 Fairness](#4-fairness) ·
[5 Proofs](#5-proofs) · [6 What the runs found](#6-what-the-runs-found) ·
[7 Assumptions and limits](#7-assumptions-and-limits) ·
[8 Not modelled](#8-not-modelled)

## 1 Inventory

How a list request travels: `dso_api/middleware.py` activates the end user
(`dbroles.py`) → `routers.py` has built the URL and the viewset → the view
(`views/api.py`) checks the parameters, takes the temporal slice (`temporal.py`),
applies the filters (`filters/parser.py`) and the permissions → the paginator
slices the queryset → the list serializer wraps it in an observable and, for
some serializers, a chunking iterator → `views.py` peeks at the first item and
settles the status → the renderer writes head, rows, embedded sections and
footer through a small buffer while the WSGI server iterates. All state below
the router lives in one request; only the router, the connection wrappers and
`DatabaseRoles` survive it.

| Component | State it keeps | Operations | What is hard | Correct when | Where |
|---|---|---|---|---|---|
| End-user database context (`dso_api/dbroles.py`, `middleware.py`, `router.py`, `wsgi.py`) | thread-local current user and original role; per connection wrapper `_active_user_role`; the PostgreSQL session (transaction, role, savepoint) | set, activate and deactivate the end user, `_set_role`, `_revert_role`, receivers of `connection_created`, `request_finished`, `got_request_exception`, the warm-up request | Django's signal order; connections that open late, stay open or are lost; refused `SET ROLE`; a caller's transaction | no query runs under another user's role; nothing switched survives a request; the caller's transaction is kept | `DbRoles` |
| Pagination, streaming, rendering (`rest_framework_dso/pagination.py`, `paginator.py`, `serializers.py`, `renderers.py`, `response.py`) | the page's `_has_next`, the observable's counters, the ids of each embedded result set, the output buffer | paginate, watch rows, drop the sentinel, peek, render, flush, abort | three iterators that pull on each other; status before body; failures after the status | the body is a prefix of the one right rendering, complete, visibly aborted, or closed by the client | `PageResponse`, `ListResponse` |
| Iterators (`rest_framework_dso/iterators.py`, `utils.py`) | rows read ahead; one LRU cache per foreign key | read a chunk, restore from the caches, prefetch, persist | a chunk that is partly cached; eviction while storing; relations that have no cache | no row is served without a relation that is cached; caches spare the queries they can | `ChunkedPrefetch` |
| Field selection and expansion (`rest_framework_dso/fields.py`, `embedding.py`, parameter checks in `serializers.py`) | the tree of dotted names, one scope per serializer | parse, `allow_nested`, `as_nested`, `get_allow_list`, expand, validate | included and excluded names over several levels; three methods that have to agree; errors before streaming | each level shows what was asked for; every mistake is a 400 | `FieldScopes` |
| Dynamic router (`dynamic_api/routers.py`, `urls.py`, `nesting.py`, `datasets.py`) | the registry, the URL lists, the models in the app registry, the cached serializers, Django's URL resolver | import of `urls.py`, `initialize`, `get_urls`, `register`, `reload`, `clear_urls`; nested viewsets and their filters | an import or a reload that fails half-way; a generator used up; a table of datasets that changes meanwhile; nested lookups that accumulate | the URLs are those of one reading of the datasets and lead to models that exist; a nested URL lists the children of what it names | `DatasetUrls`, `UrlConf`, `DynamicRouter`, `NestedRoutes` |
| Query filters (`dynamic_api/filters/*`) | the parsed inputs; the `Q` objects of one request | parse, resolve the field path, check scopes, compile, join with temporal conditions, order | `DISTINCT` over to-many joins; negation over joins; several values of one parameter; joins that are skipped | an object is in the list iff it matches all filters, and once | `QueryFilters` |
| Temporal queries (`dynamic_api/temporal.py`) | the moment and version of each request | parse, filter, filter a relation | half-open intervals; one moment per request; a version filter next to a moment | at every moment at most one version, the same one everywhere | `TemporalSlice` |
| Permissions (`dynamic_api/permissions.py`, `utils.py`) | none, scopes of the token | field and table access, filter access, expands, row-level authorization | access along a path; identifiers that stand for another table's field | nothing inaccessible is read or filtered on | `QueryFilters` (lists), `GeoViews` (tiles, WFS) |
| API views (`dynamic_api/views/api.py`, `rest_framework_dso/views.py`) | none | list, detail, content negotiation, error responses | errors before and after the peek | as pagination | list handler in `ListResponse`, parameter check in `FieldScopes`, `get_queryset` and `get_object` in `TemporalSlice`, permissions and columns in `QueryFilters` |
| Serializer factory (`dynamic_api/serializers/*`) | the factory's cache, cleared by a reload | build serializer classes; choose the iterator | a cache that outlives its models | no cached serializer is of a model that is gone | the cache in `DynamicRouter`; what lists use in `ListResponse`, the sets of fields in `FieldScopes` |
| Vector tiles (`dynamic_api/views/mvt*.py`) | none | permission checks, the layer, a query that cuts the tile into chunks; the first chunk settles 200 or 204 | an error before or after the first chunk; a tile as long as its chunks | a client gets the whole tile or sees that it did not | `GeoViews` |
| WFS (`dynamic_api/views/wfs.py`) | none | a feature type per geometry, its fields and their order, access to all models it reads | several geometries, hidden fields, expanded relations | each type draws its own geometry and shows nothing inaccessible | `GeoViews` |
| OpenAPI, index, documentation (`views/doc.py`, `index.py`, `openapi/`) | none | format schemas as documents | they join the live datasets with the URLs of the last build | the catalogue agrees with the URLs | `IndexEntries`, `DocPage` of `DynamicRouter`; the documents are not modelled |
| Coordinate systems, parsers, exceptions | none | header parsing, error bodies | – | – | only the statuses, in `ListResponse` |
| Settings and commands | process configuration | `USER_ROLE`, replicas, middleware order | – | – | parameters of `DbRoles` |
| Static assets, templates | none | – | – | – | not modelled |

`PROJECT.json` lists the hazards of each part, at the line where they bite,
with the properties that cover them or the reason why none does.

## 2 Modules

### DbRoles — whose role does a query run under?

One worker thread that serves requests one after another. `ctx` holds what
`dbroles.py` keeps: the user of the thread (`email`, `federated`), the role to
return to (`original`), `_active_user_role` per wrapper (`active`) and per
database the PostgreSQL session (`txn`, `role`, `sp` for the savepoint, `err`
for Django's `errors_occurred`). Every method of `DatabaseRoles` is an operator
from context to context (`SetRole`, `Deactivate`, `Activate`, `SetEndUser`), so
that calls compose as in the code and `raised` carries the exception out.

Actions are what happens to a worker: the warm-up call of `wsgi.py` (`WarmUp`,
`EndWarmUp`: it never closes its response), Django's `request_started`
(`StartRequest`, with `close_old_connections`), a token that is refused before
the middleware runs (`RejectToken`), `AuthMiddleware` (`Authenticate`), a
connection that opens late (`Connect`), a refused query, a lost connection, the
start of streaming, `got_request_exception` (`RequestException`) and
`response.close()` (`FinishRequest`). The deployment (replicas, persistent
connections, a caller's transaction around everything) is chosen in `Init` and
never changes.

Properties: `NoForeignRole` (across requests), `SwitchedOnDefault`,
`ResetOnCompletion`, `RoleOnlyInTransaction`, `CallersTransactionKept`.

### PageResponse and ListResponse — a streamed list

`PageResponse` is the promise to the client, in a page: an error status with
nothing of the listing, or 200 and a body that only grows towards *the* complete
rendering, which ends complete, with a visible marker, or because the client left.

`ListResponse` is the machinery: the slice with one sentinel row
(`paginator.py`), `ObservableIterator` and the page that watches it (`it`,
`Watched`), the read-ahead of `ChunkedQuerySetIterator` (`chunk`, `Limit`), the
observers that collect ids for the embedded sections (`ids` in `Serve`), the peek
(`part = "view"` until the first row is `held`), the renderer's position
(`part`, `nr`, `found`), the output buffer (`buffer`, `Emit`) and the exception
path (`Raise`: a status before the peek is over, the marker afterwards). Any
database round trip or serializer call may raise, and the client may leave
wherever the generator yields. All three formats, paginated or not, with any
subset of the embedded fields, and both iterators, are requests of `Init`.

`KeepsPromise` is the refinement: `Complete` computes the page from the rows
alone, without slices, sentinels or chunks, and `Promise` maps it to the abstract
variables. `FooterKnows` (the next link is known and right), `EmbedsMatchPage`
(the ids come from all rows of the page and never from the sentinel),
`StatusAfterFirstRow`, `BoundedMemory` (next to the output buffer one chunk of rows is held, or one row of a list without
prefetches, and all that was read beyond the rows sent, the sentinel included, fits in the two) and `AlwaysEnds` say
what the refinement does not show by itself.

### ChunkedPrefetch — the caches between chunks

`ListResponse` takes prefetching as one step that may fail. This module opens
it: `ChunkedQuerySetIterator` with `loaded` (which relations of which row are in
memory), `caches` (`_fk_caches`, the most recently used key first; `Uses` is what looking up and
storing one key after the other makes of one of them) and the steps of `__iter__` and `_add_prefetches`: `ReadChunk`, `Restore`, `Prefetch`,
`Persist`, `Serve`, `EndChunk`. References may be NULL, shared or dangling, and
a relation gets its cache only when a first object is found.
`CachedFksLoaded`, `RepeatIsFree` and `NoNeedlessPrefetch` are its properties.

### FieldScopes — what `_fields`, `_expand` and `_expandScope` show

`req` holds the parameters: a set of signed dotted names, and the expand
parameters. A scope of `FieldsToDisplay` is a place in the tree of names or one
of its two constants; `AllowNested`, `AsNested`, `Keep` and `Invalid` are its
methods. `ExpandTree` is the tree of `ExpandScope`, with the automatic one
(`AllPaths`: `MaxLevels` deep and never straight back). `Validate` is the check
of `DSOQueryParamSerializer`, `Parse` the parsing of both parameters, `Build`
the construction of one serializer — one per embedded level, all of them before
the first row is read — and `RefuseBuild` its refusal. `shown` records what each
level will show: body fields, columns of nested tables, links and sections.

`ShownAsAsked` compares every level with `AskedHere`, which reads the names
directly, without tree, scopes or constants (plain fields with subfields, such as `naam.foo`, are left out of it: nothing
in the code checks the subfields, see [6](#6-what-the-runs-found)); `SectionsWereAsked` and
`MistakesRefused` cover the sections of lists and the errors.

Where a request is odd, the code's answer is in the model but no property judges
it: detail pages show sections of relations that `_fields` leaves out (empty on
the first level, complete on the second); a name mentioned as a whole and in
part (`stad,stad.naam`, outside `Clear`) is only shown in part; an included plain name next to a part of a nested table drops that
table, or that plain field (`Ordered`); an unknown parent (`foo.bar`) is ignored; and the example of
`_expandScope` with `_fields` in `fields.md` is refused by
`validate_nested_expand_scope`.

### TemporalSlice — which versions a request shows

`data` holds a main and a related table, both functions from keys
`<<identifier, version>>`; the main rows carry a foreign key, a loose relation and a
many-to-many relation. `Initial` (`views/api.py`) fixes `now`, the `request._now`
that `get_request_date` keeps; `Tick` lets time pass between any two queries.
`Query` is the main list or detail page (`Rows`: the slice unless a version was
given, the version, the filter through the loose relation, the two meanings of
the key in the URL; `First`: the detail page's choice), `Link` the `_links` of one
row, `Embed` the query of one embedded section. `Slice` and `Valid` are
`TemporalTableQuery`; `SelfLink` is the request that a row's self link makes.

`OneMoment` and `OneVersion` say what a time slice promises. What does not follow
the query is left out of them explicitly (`FollowingMain`, `FollowingRel`): a
main row asked for by its version, and the foreign key that a detail page embeds,
which the code takes unfiltered from the row's `_links`. `SectionsMatchLinks`
relates two queries of the same relation, `FilteredIsShown` a filter and the
section it filters by, `SelfLinksReturn` this request and the next one.

Where the code's answer is odd but no property judges it: with `geldigOp=*` a
detail page shows the version with the lowest key, and the self link of every
version leads there; a version and a slice together give a self link with the
slice only.

### DatasetUrls, UrlConf and DynamicRouter — which URLs does a worker serve?

`DatasetUrls` derives, as pure operators, the URL patterns of one reading of the
table of datasets: `BuildDbViewsets`, `BuildDocViews`, `BuildOpenapiViews`,
`BuildIndexViews`, `BuildMvtViews` and `BuildWfsViews` are the methods of
`routers.py` with the same names. Which versions a service gets differs: the
OpenAPI pages only those whose API is enabled, the others all of them, and the
models of the default version exist twice.

`UrlConf` is the promise: the served URLs are the static routes and *everything* of
*one* reading, or the static routes only, and they change in one step.

`DynamicRouter` is one worker. Its state is the process (is `urls.py` imported, which
task runs and how far it is, the models in Django's app registry by the number `gen` of
the build that made them, the builds with cached serializers), the router's
attributes, and the `urlpatterns` of `urls.py`. A build is taken apart where an exception
or another process can come in between: `BeginImport` or `BeginReload`, `BuildModels`
(which reads the datasets), `BuildViews`, `RefreshUrls`; with DEBUG a build can also
stop at incorrect models (`StopAtModelErrors`). `FailImport` has the handler of
`initialize()`, which removes the models again; `FailReload` has none, as in the code. Exceptions after that
handler, while the first URLs are put together, are left out (see [7](#7-assumptions-and-limits)).
`ImportSchema` changes the table of datasets at any time. `GetUrls` is the chain of
lists in which the documentation pages come from a generator that can be used once
(`docsRead`).

`OneReading` is the refinement. `RoutesLive` relates the URLs to the models behind
them between builds, unless the last reload was cut off, `NoLeftovers` one build to the next, `CatalogueComplete` the index and the
documentation pages, which read the *live* datasets, to the URLs of the last build.
`ComesUp`: a worker whose import failed starts in the end.

Where the code's behaviour is odd but no property judges it: after a reload that
raised, the old URLs lead to models that are gone until a later reload or
`clear_urls()` (`aborted`; `RoutesLive` and `NoLeftovers` except it explicitly);
`_delete_created_objects` does not reset the documentation generator; the
documentation page of a dataset that links to one without an API is a server error
(`DocPage`), and so is one of a dataset that got a version since the last build.

### NestedRoutes — which rows does a nested URL list?

`_build_nested_viewsets` calls itself for the subresources of subresources: `stack`
holds its frames. Registering a subresource assigns the basename and the lookups to
the loop's own variables, so the next sibling builds on them; the model keeps that.
`EveryPathOnce` says that all declared paths get a URL, or that the build is
refused because two paths reach one table. `Listed` follows the captured lookups
like Django would, `Below` follows the declared parents; `EldestListChildren` says that they
agree when every table below the first level is the first subresource of its parent, also below a
younger sibling of the first level: `Captures` takes the lookups from the end of the list, where they are right.
`nested_younger` shows that they do not agree for a younger sibling on the second level or deeper, `d` next to `c` in
the URL `a/b/d`: the place of its parent's parent holds the lookup that `c` left.

### QueryFilters — which rows does a list have?

One list request from the permission check over `limit_queryset_for_scopes`, the parsing of
parameters and headers, `_compile_filters` one parameter at a time, `filter_queryset` and
the ordering, to the rows of the SQL query. `ParseFilterPath` walks the schema; `OrmPath`
decides which join is left out; `TranslateRawValue` and `TranslateLookup` are the
conversions and the choice of the SQL lookup; `TemporalFilters` adds the conditions on
loose relations and `WalksOverMany` asks for `DISTINCT`. `QueryRows` is what Django and
PostgreSQL make of it, one join after the other (`Joined`, `Extensions`): each path of relations is joined once, outer where a
relation may be empty.

`AnswersAsDocumented` compares the listed objects with `Means`, the meaning that `filtering.md` gives each
parameter. It is stated without anything of the engine: `Named` is the value of a path when *every* relation of it is
followed, a loose relation refers to the last version only (`Outdated`), and the values come from the request, not from
the conversions of the code. Where the documentation is silent, or the code is known to differ from it,
`Undecided` says for which values and objects; each of these cases is listed in [6](#6-what-the-runs-found). A filter
`holds`, `fails` or is `open` for an object (`Verdict`): all objects for which all filters hold must be listed, and
no object for which one fails. `EachRowOnce` says that no object is listed twice, which orderings over a relation to many refute (`query_sort`; `SortsToOne` excludes them); `ColumnsPermitted` that no column is read or compared, by a filter or by the ordering,
that the scopes exclude, also where a stored identifier stands for a field of another table. The primary key of the list
is excepted: Django's `only()` always reads it (`PrimaryKey`). What Django refuses of a query, such as `[like]` on a relation
whose join is skipped, comes after all parameters were compiled (`DjangoRefuses`, `refusal`).

### GeoViews — tiles and feature types

A tile is the sequence of its octets. `SetupTile`, `CreateLayer`, `ExecuteQuery`, `FetchChunk`
and `EndOfTile` are the steps of one request; `NextChunk` is the recursive part of the SQL that
cuts the tile. `TileWhole`: what arrives is an initial part of the tile, all of it with 200, and
204 only when there is nothing. For WFS, `TypesOf` makes a feature type for each geometry,
`FeatureFields` its fields in order, `CheckPermissions` the access to all models it reads;
`OwnGeometryFirst` says that map programs, which draw the first geometry, draw the one that
the type is named for, and that nothing inaccessible is shown.

## 3 Runs and bounds

| Run | Instance | Shows |
|---|---|---|
| `roles` (pass) | `MCDbRoles`: an account with a role, an employee without, an outsider; default and up to two replicas; persistent or not; caller's transaction or not | the five properties and `TypeOK` over any sequence of requests |
| `roles_late` (violation) | same | `LateConnectionsSwitched` fails with replicas |
| `listing` (pass) | `MCListResponse`: 0–7 rows, pages of 3, page numbers 0–3 and a non-number, highest served page 2, chunks of 2, buffer of 1, two embeds | refinement, safety and termination |
| `chunks` (pass) | `MCChunkedPrefetch`: chunks of up to 4 rows (caches of 2), keys two objects, one dangling, NULL; a second foreign key; a to-many relation | caches are bounded, sound and useful |
| `fields` (pass) | `MCFieldScopes`: three tables, 28 signed names, up to 3 at a time, 14 expand settings, list and detail | each level shows what was asked for |
| `temporal` (pass) | `MCTemporalSlice`: 3 main rows of 2 identifiers, a related identifier with 2 versions, 32 databases, moments 0–2, every combination of URL, version, slice and filter | one moment, one version, sections, filters and self links that agree |
| `router` (pass) | `MCDynamicRouter`: two datasets, one below a sub path and linked to the other, with one or two versions, an API that is on or off, or absent; one static route; 2 builds, 1 exception | the URLs, the models behind them and the catalogue over any order of builds, failures, schema imports and restarts |
| `nested` (pass) | `MCNestedRoutes`: every schema over four tables with up to two subresources each, three objects | one URL per path, and the right rows along first subresources below the first level |
| `nested_younger` (violation) | same | `ListsChildren` fails for younger siblings from the second level on |
| `query` (pass) | `MCQueryFilters`: seven tables with a relation of every sort; 48 parameters, in pairs with and without scopes, and one at a time as a header with five orderings, four sets of scopes and both coordinate systems; three contents of the database | the answers, once each, from permitted columns |
| `query_sort` (violation) | same, with orderings over relations to several rows | `EachRowOnce` fails when sorting |
| `geo` (pass) | `MCGeoViews`: chunks of 3, tiles of up to 7 octets; four tables with up to two geometries and relations of every sort | whole tiles, own geometries |

Why the bounds are enough:

* `DbRoles` has no counters: TLC visits every reachable state of the instance,
  for histories of any length. Three accounts are the three kinds that
  `activate_end_user` tells apart, with two of them `NoForeignRole` can already
  fail; two replicas give a wrapper with a stale role and another one that
  connects later. The proofs remove the bound.
* `MaxRows` = 7 with `PageSize` = 3 gives an empty list, a partial, an exactly
  full and an over-full page, on the first and the last served page number, and
  rows behind the sentinel. `ChunkSize` = 2 puts chunk borders inside the page,
  at its end and at the sentinel. `BufferSize` = 1 lets a failure hit a full and
  an empty buffer. The embeds share objects between rows and with the sentinel's
  row, leave a row without reference, have a dangling key and an M2M row with two
  objects. `MaxPage` stands for 100.
* `ChunkSize` = 4 is the smallest size whose caches hold more than one object
  and fewer than a chunk can refer to. The number of chunks is unbounded.
* In `FieldScopes` a disagreement needs a name, a sibling and a deeper or
  oppositely signed name, hence three. Paths reach the third level (`inStad.inLand.naam`),
  a relation to the same table, a temporal table, a reverse relation, an unknown
  name, a subfield of a plain field, and a second minus sign. `FieldParams` contains all subsets of up to
  three names.
* In `TemporalSlice` three moments are one before, at and after a change of
  version. The databases have successive versions with and without a gap, related
  versions that change at the same or another moment and may have ended, and rows
  without relations. A wrong moment or interval end shows with two versions.

* In `DynamicRouter`, two datasets are one that changes and one that it links to; two builds are one and
  the next, and one exception hits the first or the second. Every stage can be the last one. The proofs
  remove these bounds.
* Four tables are the least that give a younger sibling with a subresource of its own below another
  table; six schemas per table make both orders of siblings.
* In `QueryFilters` a wrong join, condition or `DISTINCT` needs two filters that share a relation, or a filter
  and an ordering; hence pairs. The paths are up to three relations deep, of every sort. Each lookup is there, each type of column, and
  the pairs of them for which the code has a case of its own: `[isnull]`, `[in]` and `[not]` of date-times, booleans, points,
  arrays, identifiers whose join is skipped with `[like]`, `[isempty]` and `[not]`, direct filters on relations to many. Not every
  lookup is used with every type. Buildings 1 to 3 have related rows that are present, absent,
  shared, of several versions, current or not.
* In `GeoViews` tiles of 0 to 7 octets with chunks of 3 are empty, shorter than a chunk, exactly one or two chunks,
  and one octet more. The proof removes the bound.

Deadlock checking is off where a behaviour is one request, or one registration of nested URLs, that ends, and in `router`,
where nobody has to send a request. It is on in `roles`: a worker never stops.

## 4 Fairness

Two properties need it.

`AlwaysEnds`: `FairSpec` of `ListResponse` is weak fairness of
`ended = "no" /\ Work`: the WSGI server keeps asking for the next piece of a
response that it has not closed, and every database call returns or raises.
Failures (`IterationFails`, `SectionFails`) and `ClientGone` are not fair: nothing
obliges them to happen, and termination does not rely on them.

`ComesUp`: weak fairness of `Build` in `DynamicRouter`, the steps of a build that has begun and the import of
`urls.py` that the next request starts: requests, and the health check of the deployment, keep coming.
Reloads, schema imports and failures are not fair.

## 5 Proofs

`DbRolesProofs` proves, for any accounts, roles and replicas that satisfy the
assumptions of `DbRoles`, that `Spec` implies `TypeOK` and all five safety
properties. None of them is inductive as it stands. `IInv` (also in `DbRoles`,
next to the properties) adds what every handler keeps:

* `Sound(ctx)` — a session is switched only when its wrapper says so and only in
  a transaction, and the only role ever remembered as the original is the role
  after LOGIN. Without it a stale `active` could hide a switched session.
* `TransactionOwned(ctx)` — a transaction of the default connection is the
  caller's, with the original role remembered while switched, or begun by
  `_set_role`, with no original. It is what makes `deactivate_end_user` choose
  rightly between `COMMIT` and `SET ROLE`.
* `DeploymentInv` and `PhaseInv` — which connections may be open in which phase,
  and that in each working phase the thread's user is the request's or nobody.

The argument: one lemma per handler (`DeactivateSound`, `SetRoleSound`,
`ActivateSound`, `CloseOldSound`, `SetEndUserSound` and their `...Owned`
companions) shows that it keeps `Sound` and `TransactionOwned` for *any* context
it is called with; `RoleForChoice` that a role that was set is the one that the
request should have; `NextInv` goes through the actions, and `SpecInv` combines
the two with temporal logic.

`ChunkedPrefetchProofs` proves `TypeOK`, `CachedFksLoaded`, `RepeatIsFree` and the action property
`NoNeedlessPrefetch`, for any relations, keys and chunk size. Its `IInv` adds that only foreign keys have
caches; that between `Prefetch` and `Persist` the whole chunk is loaded (otherwise `Persist` could give a
cache to a relation that rows lack); and that once a chunk may be served, each cache has the chunk's objects, if
they fit. `RestoreSound` is the heart of `CachedFksLoaded`: when `_restore_caches` spares a chunk the prefetch,
no row lacks a cached relation. The heart of `RepeatIsFree` is what any series of uses makes of the
least-recently-used dict (`UsedKeeps`, `Stores`, `LooksUp`, by induction over the keys): the keys of this series stand
first (`Fresh`), and either all of them are there or the dict is full of nothing else. By counting, the
second cannot be when the objects of the chunk fit (`FullHasAll`).

`ListResponseProofs` proves `TypeOK`, `FooterKnows`, `EmbedsMatchPage`, `StatusAfterFirstRow`, `BoundedMemory` and the
refinement `KeepsPromise` (the safety of `PageResponse`) for any number of rows,
any page, chunk and buffer, and any failure. The heart of its `IInv` is `Counted` (the iterator is at its end after
the last row of the slice, and `hasNext` says whether that was the sentinel), `ReadAhead` (the chunk has the
kept rows behind those that were passed on) and `Collected` (the keys are those of the rows that were passed on): `FooterKnows`
alone is not inductive, because the footer only reads what the iterator counted long before. `SliceFacts` relates
the slice to the page, `ServeKeeps` and `ReadRowKeeps` are the steps with content, and `EmitKeeps` and
`AbortKeeps` say that what was put out stays, wherever the buffer is flushed. For the refinement, what was
put out followed by what is still to be rendered is the complete page, in every step: `Complete` speaks of the rows
alone, so each part of the renderer has a lemma that relates the rest of the machinery to the rest of the page.

`TemporalSliceProofs` proves `TypeOK`, `OneMoment`, `OneVersion`,
`SectionsMatchLinks`, `FilteredIsShown` and `SelfLinksReturn` for any tables whose versions do not overlap
(`DatabasesAssumption`), keys that are pairs of an identifier and a version (`KeysAssumption`), any requests and any clock. `IInv` adds that everything
that follows the query is in the slice of one `Moment` (`FromSlice`), that this moment
is fixed before anything is shown (`Started`), where links and section come
from (`LinksKnown`), and that the shown rows are the answer to the request at the moment of its query (`Answered`), which
`SelfLinksReturn` compares with the answer to the request of a self link. `SliceSingle` is the lemma that makes one version of one
moment: it fails for closed intervals.

`GeoViewsProofs` proves `TileWhole` for any size of chunks and tiles. `IInv` says that the body is
the part of the tile before the next chunk (`Sent`), and what the status tells of it. The step with content is
`FetchIInv`; `OctetsContinued` is the lemma about sequences it rests on. It also proves `OwnGeometryFirst`, for any
tables whose relations lead to tables of the dataset and whose fields have names (`TablesAssumption`).
Filtered and flattened sequences are handled through where their elements come from (`From`): `FlattenFrom` and
`OnlyFrom` show that origins keep their order and that nothing is lost. Hence the first geometry of a feature type comes
from a field before, or at, its own geometry, where all other geometries were taken out (`OwnFirst`). `WfsInv` says
that the types that are checked were built with the geometry they draw (`TypeDraws`).

`DynamicRouterProofs` proves `TypeOK`, `RoutesLive`, `NoLeftovers`, `CatalogueComplete` and the refinement `OneReading`,
for any datasets, links, rows and number of builds and failures; `RoutesLive` and `NoLeftovers` with the exception of a reload that was cut off. `IInv` adds to `RoutesLive`: in which phase which attributes are empty
(`Phase`, `Models`), that the lists of the router are `Empty` or `Full`, that is those of *one* reading with the
models of that build (`Lists`), and when cached serializers are those of living models (`Cached`). One lemma
per action shows that it is kept. `UrlsAtRefresh` is the heart: when the URLs change, the lists are empty or
full, and the documentation generator was not used. `ServicesHaveModels` needs that a default version is one of the
versions (`ConstantsAssumption`). For the refinement, `StartOverRefines`, `ReadRefines`,
`RefreshRefines` and `ClearUrlsRefines` map the steps; all others stutter. `CatalogueComplete` compares
the URLs with the live datasets, so `Catalogue` says of which datasets the URLs of the last build are.

For nested routes the same module proves `EveryPathOnce` and `EldestListChildren`, for any finite set of tables, any schemas in which
no table is below itself (`SchemasAssumption`: otherwise the recursion of the code has no end), any foreign keys and objects. `NestedInv` says what a stack of
half-finished loops stands for: the frames are those of one path (`FramesOnPath`), and the paths without a route are those that leave it
for a table that a loop has still to visit (`RoutesAreRest`, `Pending`); `TurnTakesPath` shows that a turn of a loop takes one
path from these and no other. Of the lookups it says that those of a loop that has not turned yet end with the chain of foreign keys of each
parent (`LookupsFit`), which is all that paths of first subresources use (`NewLookupsFit`);
`ChainsAnswer` shows that such lookups find the objects below the named ones, by induction over the chain.

`FieldScopesProofs` proves `TypeOK`, `ShownAsAsked`, `SectionsWereAsked` and `MistakesRefused` for any schema
whose relations lead to tables of it (`SchemaAssumption`), any dotted names of any depth and any expands, with a name for
no field that is no name (`ParamsAssumption`). `AskedHere` reads the names and the code walks its tree with two
constants, so `IInv` says which scope each place gets: the node of its path when some name goes through it,
and the constant that allows everything when none does and the place was asked for (`ScopeKept` shows that
`as_nested` keeps this). `LevelMeans` and `KeepMeans` then say, for either kind of scope, that
`get_allow_list` keeps what was asked for. Relations are followed along paths of any length: `RouteUnfolds` and
`RoutesAgree` are the inductions that make the table of a longer path the target of the shorter one. The attempt
to prove `ShownAsAsked` failed at first, for a good reason: it does not hold for plain fields with subfields, of
which the instance for TLC had none then.

`QueryFiltersProofs` proves `ColumnsPermitted` and `EachRowOnce`, for any schema whose relations lead to tables
that have an identifier (`SchemaAssumption`), any parameters, headers and scopes (`RequestsAssumption`), and any
contents in which keys are unique and an identifier has one version that is current (`DatabasesAssumption`). `QueryInv` says where
conditions come from (`ConditionsOfWalks`): each one is compiled from a walk through the schema of which every
field passed the check of the scopes, and the query is `distinct` if one of them is over many. `ColumnsPermitted` alone is not inductive, as a
condition no longer tells which fields the code checked. `WalkOfPath` relates `_parse_filter_path` to such walks, by
induction over the names; `OrmPathPermitted` is why the last join may be left out, although the column that is compared then is
not the one that was checked. For `EachRowOnce`, the joins of a query have a bound
(`JoinsBounded`: `Max` of the depths exists), and without `DISTINCT` no condition is over many, other than a loose relation at the end of its path, whose
version the condition itself fixes. Then all rows that are joined to one main row are the same (`RowsAreJoined`, `ConditionDetermines`,
`SameRow`, by induction over the depth). With `DISTINCT`, rows differ in the main row or in the columns of the ordering, and the former
determines the latter (`SortsDetermine`). The theorem has
a hypothesis, `SortsToOne`: no ordering goes over a relation to many or a loose one. Without it `EachRowOnce` is false, as the run
`query_sort` shows; the constants of `query` satisfy it, which TLC checks (`SortsAssumption` of `MCQueryFilters`).

Some proof modules begin with the lemmas `Induction`, over a *set* of numbers, and `LeastElement`: the recursive
functions that the modules use in place of folds need them, and the induction theorems of the library take
an operator as parameter, which the installed provers cannot instantiate.

Only model-checked: liveness (`AlwaysEnds`, `ComesUp`), which is beyond the prover, and
`AnswersAsDocumented`. `Means` and `Undecided` are stated for the kinds of parameters that the instance has; for others, such as a whole array
without `[contains]`, the documentation says nothing to compare with (`filtering.md`). A theorem would need hypotheses that exclude
these, next to types of all values and the absence of dangling references; what it would rest on is proved (`WalkOfPath`, `JoinsOfPath`, `RowsAreJoined`). The
assumptions on the constants, on which the proofs rest, are evaluated by TLC in the runs.

## 6 What the runs found

Each is a run that expects a violation, with the line it contradicts quoted in
`PROJECT.json`.

1. **Late connections under the LOGIN role** (`roles_late`, `dbroles.py:134`).
   With replicas, a wrapper whose connection was closed keeps `_active_user_role`. The
   next connection through it takes the revert branch, which forgets the user of
   the *current* request, so that later connections of that request are not switched.
2. **Nested URLs of younger siblings** (`nested_younger`, `routers.py:360`). A subresource
   that is not the first one of its table gets the lookups of its sibling too. `get_parent_prefix` takes the lookups
   from the end, so that on the first level this does no harm, nor below such a sibling. From the second level on, the
   URL of a younger sibling has the lookup of its elder sibling in the place of an upper parent (`a/b/d` compares the
   identifier of `a` through `d` and the field of `c`): Django refuses it, or it filters by the wrong relation.
3. **Repeated objects when sorting** (`query_sort`, `filters/backends.py:64`). An ordering over
   a loose or to-many relation shows an object once per related row; a `DISTINCT` that a filter adds
   does not help, as it compares the columns of the ordering too.

Further differences between the code and what a document, comment or test says of it,
met while modelling. The models follow the code; no property judges these, and no run shows them:

* External accounts without a role are refused (`dbroles.py:165`);
  `dev-docs/source/database.rst` says that they fall back to the anonymous role.
* Page 100 of a longer list links to page 101 (`paginator.py:149`), which
  `pagination.py:51` refuses. `FooterKnows` holds the footer to the rows that there are.
* When all cached foreign keys of a later chunk are restored, relations without a cache (all to-many
  ones, and those that were NULL so far) are not prefetched for that chunk (`iterators.py:101`).
* `?_fields=regimes` gives empty rows of a nested table, `?_fields=regimes.dagen` complete
  ones (`serializers.py:442`, `docs/rest/fields.md`).
* `?_fields=code,naam.foo` leaves out the plain field `naam`, `?_fields=naam.foo` shows it and all others; `foo` is
  not looked up in either (`fields.py:41`, `fields.py:238`). Met when proving `ShownAsAsked`.
* A list with only dotted excluded names in `_fields` loses the embedded sections of the other relations
  (`fields.py:144`); an unknown name next to an expand is a server error (`serializers.py:792`).
* Filters, cases that `Undecided` leaves open: `[not]` and `[in]` of a date-time compare days only (`parser.py:381`);
  `[not]` and `[isempty]` behind a relation drop the rows without related object; `[not]` over a relation to many asks
  for one object that differs, not for all; `[isnull]` behind a loose relation also looks at versions that are not the
  last one, save for a date-time, whose lookup is `date__isnull` (`parser.py:322`): then rows without a version are
  dropped; `[in]` and the comparisons of identifiers heed case, the other text lookups do not.
* Filters, refusals and direct filters on relations: a direct filter on a reverse or many-to-many relation passes a list to an exact lookup
  (`parser.py:449`), which is a server error for numbers and matches no text; `[like]` and `[isempty]` of an
  identifier whose join is skipped are refused, as a comment says (`parser.py:268`); `[isnull]` of a geometry is always refused and
  `[not]` of a point is a server error, though `get_allowed_lookups` offers both; negative
  values of type `number` are refused; a filter on an object field without identifiers is a server error; `[in]`
  and `[not]` of a composite relation take the characters of the text for a list; points in RD need a header,
  though the documentation says the values tell.
* A `Dso-Geldig-Op` header is skipped by the filters and not read by `TemporalTableQuery`.
* Tiles show all versions of temporal tables, WFS those of one moment; the layer ids of TileJSON are model names,
  the layer in the tile is `default`; the SQL that cuts the tile has no outer `ORDER BY` and relies on the order in which
  PostgreSQL returns a recursive query.
* The M2M section of a page joins through its table without `DISTINCT`, so an object that two rows
  of the page share may be there twice (`fields.py:505`).

## 7 Assumptions and limits

* `DbRoles`: `DATABASE_SET_ROLE` is on; one thread per worker (state is
  thread-local); within a caller's transaction queries succeed; a refused query
  leaves the view by an exception. Django's and PostgreSQL's behaviour (signals,
  `close_old_connections`, `SET LOCAL`, savepoints) is modelled as the code uses it.
* `ListResponse`: the database does not change during a request and returns rows
  in one order; embedded objects come in the order of their identifiers; the
  server notices that a client has gone where the generator yields. Detail pages,
  nested embedded sections and the browsable HTML page are left out.
* `ChunkedPrefetch`: the LRU dictionary is a library, modelled by its use here.
  Lookups over several relations (`a__b`) count as one relation.
* `FieldScopes`: names are split at commas and dots into paths of at least one name. Everything is accessible to the user. Left out are the
  embedding inside CSV rows, GeoJSON (which refuses every expand), summary links,
  the `xId` fields, inner `schema` and `self` links, and invalid values of `_expand`.
  `validate_expand_scope` is left out: of the scopes that pass the check before
  it, it only refuses some that `ExpandScope` refuses as well.
* `TemporalSlice`: both tables have the same dimension, and their content does not
  change during a request (the code promises no snapshot). Version numbers
  have one digit, so that the order of keys is the order of versions. Left out:
  tables without dimensions (`DISTINCT ON`), tables with different dimensions,
  temporal through tables, paging and access checks.
* `DynamicRouter`: one worker and one thread. A pattern stands for its variants (with and without slash, list
  and detail, the files of a service). `MaxBuilds` and `MaxFailures` bound the counters. A second
  `initialize()` on a router in use, which nothing calls, is left out. So is an exception of the URL stage of an import
  (`router.urls`, `urls.py:53`), which comes after the handler of `initialize()` and would leave the models: the stage
  only puts together the paths, versions and viewsets that the earlier ones made.
* The properties of `DynamicRouter` about URLs and models except the time after a reload that was cut off by an exception: the old
  URLs then lead to deleted models, until the next build.
* `NestedRoutes`: one base table; objects and their foreign keys are arbitrary but the same for every schema.
* `QueryFilters`: one moment, at which a version is current or not; words instead of texts, whole units instead of
  coordinates, patterns as the set of words they match. Distances (`[within]`), geometries other than points, subfields of
  objects, the sort direction, and reverse relations to tables whose identifier is a text that is no primary key are left out. Django's joins are modelled for the conditions of this code.
* `GeoViews`: all tables of the tile requests have a geometry; the tables that relations lead to are tables of the dataset. The rows of WFS answers and the protocol are in
  django-gisserver; related columns of WFS types are not subject to row-level authorization, as in the code, and the embedded columns of a
  related table need access to the fields only, not to that table; `OwnGeometryFirst` asks for no more.
  `DescribeFeatureType` requests are left out.
  `_get_requested_models` names `DescribeFeatureType` twice, so that GetFeature builds all types: modelled so.

## 8 Not modelled

* **`filter_unauthorized_expands`** (`permissions.py`): which expands of a request are dropped without the
  scopes for them. What a client sees when an error comes late is in `ListResponse`.
* **Detail pages and nested embedded sections** of the streaming model: detail pages are rendered in one
  piece; nested sections repeat the machinery of the first level.
* **The documents**: OpenAPI, TileJSON, capabilities, index and documentation pages are made of the schema by
  formatting; only their agreement with the URLs is modelled.
* **Coordinate systems, parsers, exceptions, templates, static files**: no state and no order of steps.
* **Settings and commands**: parameters of the models; the commands import schemas, which `ImportSchema` stands for.
* **schematools, Django, django-gisserver**: modelled only as the code uses them, and marked external in the map.
