---------------------------- MODULE DynamicRouter ----------------------------
(***************************************************************************)
(* The dynamic router of one worker process (routers.py) and the URLconf   *)
(* that is made from it (urls.py).  The first request imports urls.py,     *)
(* which builds models, viewsets and URLs from the table of datasets; an   *)
(* import that fails is tried again by the next request.  reload() builds  *)
(* them anew and clear_urls() removes them; tests and developers call      *)
(* these.  The table of datasets changes at any time, by schema imports.   *)
(*                                                                         *)
(* Models are told apart by the build that made them, gen.                 *)
(***************************************************************************)
EXTENDS DatasetUrls, Naturals

CONSTANTS
    StaticRoute,    \* what register() may add by hand
    InitializeDynamicViewsets,  \* the setting
    Debug,          \* the setting
    MaxBuilds,      \* bound: the builds of models in the life of a process
    MaxFailures,    \* bound: the exceptions during builds
    NoUrls          \* the router has no attribute _urls

ASSUME BoundsAssumption ==
    /\ MaxBuilds \in Nat /\ MaxFailures \in Nat
    /\ MaxFailures < MaxBuilds
    /\ {InitializeDynamicViewsets, Debug} \subseteq BOOLEAN

VARIABLES
    db,             \* the table of datasets
    migrated,       \* that table exists
    \* the process
    loaded,         \* urls.py is imported
    task,           \* "none", "import" or "reload"
    stage,          \* of the task: "models", "views", "urls"
    aborted,        \* the last reload() ended with an exception
    snap,           \* the datasets as the last build read them
    gen,            \* the number of builds
    alive,          \* the builds whose models are in the app registry
    cached,         \* the builds whose models have cached serializers
    failures,
    \* the router
    allModels,      \* all_models: pairs of a dataset and a version
    staticRoutes,   \* static_routes
    registry,       \* registry, without the static routes
    registryGen,    \* the build of the models in registry
    docUrls,        \* _doc_urls, what the generator yields ...
    docsRead,       \* ... unless it was used up
    viewUrls,       \* _openapi_urls, _index_urls, _mvt_urls and _wfs_urls
    cachedUrls,     \* _urls, a set or NoUrls
    \* urls.py
    urlpatterns,
    patternsGen     \* the build of the models that urlpatterns leads to

process == <<loaded, task, stage, aborted, snap, gen, alive, cached, failures>>
routes == <<staticRoutes, registry, registryGen, docUrls, docsRead, viewUrls>>
router == <<allModels, routes, cachedUrls>>
urls == <<urlpatterns, patternsGen>>
vars == <<db, migrated, process, router, urls>>

ViewKind == {"openapi", "index", "mvt", "wfs"}
Nothing == [d \in Dataset |-> Absent]
Gen == 0 .. MaxBuilds
StaticUrls == {<<"static", r, DEFAULT>> : r \in staticRoutes}
NoViewUrls == [k \in ViewKind |-> {}]

\* DynamicRouter.__init__
NewRouter ==
    /\ allModels = {} /\ staticRoutes = {} /\ registry = {} /\ registryGen = 0
    /\ docUrls = {} /\ docsRead = FALSE
    /\ viewUrls = NoViewUrls
    /\ cachedUrls = NoUrls

NewProcess ==
    /\ loaded = FALSE
    /\ task = "none" /\ stage = "models" /\ aborted = FALSE
    /\ snap = Nothing /\ gen = 0 /\ alive = {} /\ cached = {}
    /\ urlpatterns = {} /\ patternsGen = 0

ResetRouter ==
    /\ allModels' = {} /\ staticRoutes' = {} /\ registry' = {} /\ registryGen' = 0
    /\ docUrls' = {} /\ docsRead' = FALSE
    /\ viewUrls' = NoViewUrls
    /\ cachedUrls' = NoUrls

Init ==
    /\ db \in Databases
    /\ migrated \in BOOLEAN
    /\ ~migrated => db = Nothing
    /\ NewProcess
    /\ failures = 0
    /\ NewRouter

-----------------------------------------------------------------------------
\* The table of datasets, written by other processes.

ImportSchema(d) ==
    /\ migrated
    /\ \E rows \in Databases :
        /\ rows # db
        /\ \A e \in Dataset \ {d} : rows[e] = db[e]
        /\ db' = rows
    /\ UNCHANGED <<migrated, process, router, urls>>

Migrate ==
    /\ ~migrated
    /\ migrated' = TRUE
    /\ UNCHANGED <<db, process, router, urls>>

-----------------------------------------------------------------------------
\* The steps of a build.

\* Mutant: a URLconf without the table of datasets is not imported.
BeginImportMigrated ==
    /\ ~loaded /\ migrated
    /\ task = "none"
    /\ ResetRouter
    /\ task' = "import"
    /\ stage' = IF InitializeDynamicViewsets THEN "models" ELSE "urls"
    /\ snap' = Nothing
    /\ UNCHANGED <<db, migrated, loaded, aborted, gen, alive, cached, failures, urls>>

\* The first request, or the one after a failed import, executes urls.py.
BeginImport ==
    /\ ~loaded
    /\ task = "none"
    /\ ResetRouter
    /\ task' = "import"
    /\ stage' = IF InitializeDynamicViewsets /\ migrated THEN "models" ELSE "urls"
    /\ snap' = Nothing
    /\ UNCHANGED <<db, migrated, loaded, aborted, gen, alive, cached, failures, urls>>

\* remove_dynamic_models(), which tells the serializer factories.
RemoveDynamicModels ==
    /\ alive' = {}
    /\ cached' = {}

DeleteCreatedObjects ==
    /\ registry' = {} /\ registryGen' = 0
    /\ viewUrls' = NoViewUrls
    /\ cachedUrls' = NoUrls
    /\ allModels' = {}
    /\ RemoveDynamicModels
    /\ UNCHANGED <<staticRoutes, docUrls, docsRead>>

BeginReload ==
    /\ loaded /\ migrated
    /\ task = "none"
    /\ gen < MaxBuilds
    /\ DeleteCreatedObjects
    /\ task' = "reload"
    /\ stage' = "models"
    /\ aborted' = TRUE      \* until refresh_urls() is done
    /\ UNCHANGED <<db, migrated, loaded, snap, gen, failures, urls>>

\* The datasets are read and their models are built, old entries overwritten.
BuildDbModels(datasets) ==
    /\ gen < MaxBuilds
    /\ snap' = db
    /\ gen' = gen + 1
    /\ alive' = alive \cup {gen + 1}
    /\ cached' = {}
    /\ allModels' = {m \in allModels : m[1] \notin datasets} \cup ModelsOf(db, datasets)

BuildModels ==
    /\ task # "none" /\ stage = "models"
    /\ migrated
    /\ BuildDbModels(DbDatasets(db))
    /\ stage' = "views"
    /\ UNCHANGED <<db, migrated, loaded, task, aborted, failures, routes, cachedUrls, urls>>

\* Mutant: a second build keeps the generator of the first one.
BuildViewsKeepDocs ==
    /\ task # "none" /\ stage = "views"
    /\ registry' = BuildDbViewsets(allModels, snap)
    /\ registryGen' = gen
    /\ cached' = IF registry' = {} THEN cached ELSE cached \cup {gen}
    /\ docUrls' = BuildDocViews(snap)
    /\ viewUrls' = [openapi |-> BuildOpenapiViews(snap), index |-> BuildIndexViews(snap),
                    mvt |-> BuildMvtViews(snap), wfs |-> BuildWfsViews(snap)]
    /\ cachedUrls' = NoUrls
    /\ stage' = "urls"
    /\ UNCHANGED <<db, migrated, loaded, task, aborted, snap, gen, alive, failures,
                   allModels, staticRoutes, docsRead, urlpatterns, patternsGen>>

\* All lists are complete before the first one is assigned.
BuildViews ==
    /\ task # "none" /\ stage = "views"
    /\ registry' = BuildDbViewsets(allModels, snap)
    /\ registryGen' = gen
    /\ cached' = IF registry' = {} THEN cached ELSE cached \cup {gen}
    /\ docUrls' = BuildDocViews(snap)
    /\ docsRead' = FALSE
    /\ viewUrls' = [openapi |-> BuildOpenapiViews(snap), index |-> BuildIndexViews(snap),
                    mvt |-> BuildMvtViews(snap), wfs |-> BuildWfsViews(snap)]
    /\ cachedUrls' = NoUrls
    /\ stage' = "urls"
    /\ UNCHANGED <<db, migrated, loaded, task, aborted, snap, gen, alive, failures,
                   allModels, staticRoutes, urls>>

\* With DEBUG, incorrect models end the build without an error.
StopAtModelErrors ==
    /\ Debug
    /\ task # "none" /\ stage = "views"
    /\ stage' = "urls"
    /\ UNCHANGED <<db, migrated, loaded, task, aborted, snap, gen, alive, cached, failures,
                   router, urls>>

\* router.urls: the lists are chained, and the generator of the documentation
\* pages has nothing more to give afterwards.
GetUrls ==
    UNION {StaticUrls, registry, IF docsRead THEN {} ELSE docUrls,
           UNION {viewUrls[k] : k \in ViewKind}}

RouterUrls == IF cachedUrls = NoUrls THEN GetUrls ELSE cachedUrls

ReadRouterUrls ==
    /\ cachedUrls' = RouterUrls
    /\ docsRead' = (docsRead \/ cachedUrls = NoUrls)

\* The end of the import, or refresh_urls() of a reload.
RefreshUrls ==
    /\ task # "none" /\ stage = "urls"
    /\ ReadRouterUrls
    /\ urlpatterns' = RouterUrls
    /\ patternsGen' = registryGen
    /\ loaded' = TRUE
    /\ task' = "none"
    /\ aborted' = FALSE
    /\ UNCHANGED <<db, migrated, stage, snap, gen, alive, cached, failures,
                   allModels, staticRoutes, registry, registryGen, docUrls, viewUrls>>

\* An exception while models or viewsets are built leaves some of them behind.
RaiseIn(left) ==
    \/ /\ stage = "models"
       /\ \/ UNCHANGED <<snap, gen, alive, cached, allModels>>
          \/ \E datasets \in SUBSET DbDatasets(db) : BuildDbModels(datasets)
    \/ /\ stage = "views"
       /\ cached' = cached \cup left
       /\ UNCHANGED <<snap, gen, alive, allModels>>

\* reload() has no handler: its caller gets the exception.
FailReload ==
    /\ task = "reload"
    /\ failures < MaxFailures
    /\ \E left \in {{}, {gen}} : RaiseIn(left)
    /\ failures' = failures + 1
    /\ task' = "none"
    /\ UNCHANGED <<db, migrated, loaded, stage, aborted, routes, cachedUrls, urls>>

\* Mutant: the handler leaves the models.
FailImportKeepModels ==
    /\ task = "import"
    /\ stage # "urls"
    /\ failures < MaxFailures
    /\ gen' \in gen .. (IF stage = "models" /\ gen < MaxBuilds THEN gen + 1 ELSE gen)
    /\ failures' = failures + 1
    /\ task' = "none"
    /\ stage' = "models"
    /\ snap' = Nothing
    /\ ResetRouter
    /\ UNCHANGED <<db, migrated, loaded, aborted, alive, cached, urls>>

\* initialize() cleans up and raises; Python drops the half-imported urls.py.  The stage
\* "urls" comes after its handler: it puts together what the earlier stages made, and
\* exceptions there, which would leave the models, are not modelled.
FailImport ==
    /\ task = "import"
    /\ stage # "urls"
    /\ failures < MaxFailures
    /\ gen' \in gen .. (IF stage = "models" /\ gen < MaxBuilds THEN gen + 1 ELSE gen)
    /\ RemoveDynamicModels
    /\ failures' = failures + 1
    /\ task' = "none"
    /\ stage' = "models"
    /\ snap' = Nothing
    /\ ResetRouter
    /\ UNCHANGED <<db, migrated, loaded, aborted, urls>>

-----------------------------------------------------------------------------
\* Other uses of the router, between builds.

IsInitialized == allModels # {} \/ registry # {}

\* clear_urls(), as the fixture of the tests calls it.
ClearUrls ==
    /\ loaded /\ task = "none"
    /\ IsInitialized
    /\ registry' = {} /\ registryGen' = 0
    /\ viewUrls' = NoViewUrls
    /\ allModels' = {}
    /\ RemoveDynamicModels
    /\ urlpatterns' = UNION {StaticUrls, IF docsRead THEN {} ELSE docUrls}
    /\ patternsGen' = 0
    /\ cachedUrls' = urlpatterns'
    /\ docsRead' = TRUE
    /\ aborted' = FALSE
    /\ UNCHANGED <<db, migrated, loaded, task, stage, snap, gen, failures,
                   staticRoutes, docUrls>>

Register(r) ==
    /\ loaded /\ task = "none"
    /\ r \notin staticRoutes
    /\ staticRoutes' = staticRoutes \cup {r}
    /\ cachedUrls' = NoUrls
    /\ UNCHANGED <<db, migrated, process, allModels, registry, registryGen, docUrls,
                   docsRead, viewUrls, urls>>

\* Anyone who looks at router.urls.
Inspect ==
    /\ loaded /\ task = "none"
    /\ ReadRouterUrls
    /\ UNCHANGED <<db, migrated, process, allModels, staticRoutes, registry, registryGen,
                   docUrls, viewUrls, urls>>

\* A list or detail request of a table makes serializers when they are not cached.
ServeTable ==
    /\ loaded /\ task = "none"
    /\ \E url \in urlpatterns : url[1] = "table"
    /\ cached' = cached \cup {patternsGen}
    /\ UNCHANGED <<db, migrated, loaded, task, stage, aborted, snap, gen, alive, failures,
                   router, urls>>

Restart ==
    /\ loaded /\ task = "none"
    /\ loaded' = FALSE
    /\ stage' = "models" /\ aborted' = FALSE
    /\ snap' = Nothing /\ gen' = 0
    /\ RemoveDynamicModels
    /\ urlpatterns' = {} /\ patternsGen' = 0
    /\ ResetRouter
    /\ UNCHANGED <<db, migrated, task, failures>>

-----------------------------------------------------------------------------
\* Views that combine the live table of datasets with the URLs of the worker.

Services == {"mvt", "wfs", "openapi", "docs"}

\* get_version_endpoints: the versions of a dataset in the index; one URL that
\* does not resolve empties the list.
IndexEntries(d) ==
    LET names == db[d].open \cup {db[d].default, DEFAULT}
    IN  {v \in names : db[d].db /\ \A k \in Services, w \in names : <<k, d, w>> \in urlpatterns}

\* DatasetDocView for one of its URLs: the status of the page.
DocPage(d, v) ==
    LET row == db[d]
        links == {<<"docs", e, DEFAULT>> : e \in Links[d]}
        services == {"openapi"} \cup {k \in {"mvt", "wfs"} : row.geo}
    IN  IF row = Absent THEN 404
        ELSE IF ~(row.api /\ row.db) THEN 404
        ELSE IF /\ v \in row.versions \cup {DEFAULT}
                /\ links \subseteq urlpatterns
                /\ {<<k, d, v>> : k \in services} \subseteq urlpatterns
             THEN 200 ELSE 500

-----------------------------------------------------------------------------
Build == BeginImport \/ BuildModels \/ BuildViews \/ StopAtModelErrors \/ RefreshUrls

Next ==
    \/ \E d \in Dataset : ImportSchema(d)
    \/ Migrate
    \/ Build
    \/ FailReload \/ FailImport
    \/ BeginReload \/ ClearUrls \/ Inspect \/ ServeTable
    \/ \E r \in StaticRoute : Register(r)
    \/ Restart

Spec == Init /\ [][Next]_vars /\ WF_vars(Build)

-----------------------------------------------------------------------------
\* Properties.

Kind == {"table", "docs", "docs-wfs", "static"} \cup ViewKind
Pattern == Kind \X (Dataset \cup StaticRoute \cup UNION {SubPaths[d] : d \in Dataset})
                \X (Version \cup {DEFAULT})

\* The type of the state of the worker.
TypeOK ==
    /\ db \in Databases /\ snap \in Databases
    /\ {migrated, loaded, aborted, docsRead} \subseteq BOOLEAN
    /\ task \in {"none", "import", "reload"} /\ stage \in {"models", "views", "urls"}
    /\ {gen, registryGen, patternsGen} \subseteq Gen
    /\ alive \subseteq Gen /\ cached \subseteq Gen
    /\ failures \in 0 .. MaxFailures
    /\ allModels \subseteq Dataset \X (Version \cup {DEFAULT})
    /\ staticRoutes \subseteq StaticRoute
    /\ UNION {registry, docUrls, urlpatterns} \subseteq Pattern
    /\ viewUrls \in [ViewKind -> SUBSET Pattern]
    /\ cachedUrls = NoUrls \/ cachedUrls \subseteq Pattern

\* Between builds, unless a reload was cut off.
Settled == loaded /\ task = "none" /\ ~aborted

\* Between builds, unless the last reload was cut off, no URL leads to models that
\* are gone: the viewsets are those of the models in the app registry, and the tile
\* and WFS views find the models of their dataset and version in all_models
\* (routers.py, mvt.py and wfs.py).  After a reload that an exception cut off, the old
\* URLs do lead to deleted models, until the next build ends.
RoutesLive ==
    Settled =>
        /\ (\E url \in urlpatterns : url[1] = "table") => patternsGen \in alive
        /\ \A url \in urlpatterns : url[1] \in {"mvt", "wfs"} => <<url[2], url[3]>> \in allModels

\* Half a build leaves nothing that the next one trips over: a failed import
\* leaves no models, models of two builds never exist together, and no cached
\* serializer outlives its model.
NoLeftovers ==
    /\ ~loaded /\ task = "none" => alive = {}
    /\ Cardinality(alive) <= 1
    /\ ~aborted => cached \subseteq alive

\* The pages about a dataset that has not changed since the URLs were built agree with
\* the URLs, of which there are those of four services: the index shows it with all its
\* enabled versions, and each has a documentation page that renders, as long as the
\* datasets that it links to have an API.
CatalogueComplete ==
    Settled /\ patternsGen # 0 =>
        \A d \in ApiDatasets(db) :
            db[d] = snap[d] /\ db[d].default \in db[d].open =>
                LET versions == db[d].open \cup {DEFAULT}
                IN  /\ IndexEntries(d) = versions
                    /\ db = snap /\ Links[d] \subseteq ApiDatasets(db) =>
                        \A v \in versions :
                            <<"docs", d, v>> \in urlpatterns /\ DocPage(d, v) = 200

\* The worker publishes one whole reading of the database at a time, whatever
\* fails, is reloaded or is looked at in between ("Atomically copy the new
\* viewset registrations", routers.py).
Abstract == INSTANCE UrlConf WITH read <- snap, static <- staticRoutes, served <- urlpatterns
OneReading == Abstract!Spec

\* A worker whose URLconf failed to import does get up again, as long as requests
\* keep trying and the failures end.
ComesUp == ~loaded ~> loaded
=============================================================================
