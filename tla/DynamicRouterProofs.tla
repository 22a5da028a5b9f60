------------------------- MODULE DynamicRouterProofs -------------------------
(***************************************************************************)
(* Proofs about the dynamic router: for every table of datasets and every  *)
(* number of builds and failures, the worker serves one whole reading of   *)
(* the database, no URL leads to models that are gone unless a reload was  *)
(* cut off, no failed import leaves models behind, and the pages of the    *)
(* catalogue agree with the URLs that they link to.  And, from the section *)
(* on nested routes on, for every schema: all paths of subresources get    *)
(* one URL, and those of first subresources list what they should.         *)
(***************************************************************************)
EXTENDS DynamicRouter, NestedRoutes, FiniteSetTheorems, SequenceTheorems,
        WellFoundedInduction, TLAPS

\* A task that has not built the viewsets yet.
Before == task # "none" /\ stage \in {"models", "views"}

DbModels == ModelsOf(snap, DbDatasets(snap))

AllViewUrls ==
  [openapi |-> BuildOpenapiViews(snap), index |-> BuildIndexViews(snap),
   mvt |-> BuildMvtViews(snap), wfs |-> BuildWfsViews(snap)]

\* The lists of the router hold nothing, or everything of one reading.
Empty ==
  /\ registry = {}
  /\ viewUrls = NoViewUrls
  /\ docsRead \/ docUrls = {}

Full ==
  /\ registry = BuildDbViewsets(allModels, snap) /\ registryGen = gen
  /\ viewUrls = AllViewUrls
  /\ ~docsRead /\ docUrls = BuildDocViews(snap)
  /\ allModels = DbModels /\ alive = {gen}

Types ==
  /\ db \in Databases /\ snap \in Databases
  /\ loaded \in BOOLEAN /\ aborted \in BOOLEAN /\ docsRead \in BOOLEAN
  /\ task \in {"none", "import", "reload"}
  /\ stage \in {"models", "views", "urls"}

Phase ==
  /\ ~loaded => ~aborted /\ urlpatterns = {}
  /\ task = "import" => ~loaded
  /\ task = "reload" => loaded /\ aborted
  /\ task # "none" => cachedUrls = NoUrls
  /\ loaded /\ (task = "none" \/ Before) => docsRead

Models ==
  /\ alive \subseteq {gen}
  /\ ~loaded /\ task = "none" => alive = {}
  /\ task # "none" /\ stage = "models" => alive = {} /\ allModels = {}
  /\ task # "none" /\ stage = "views" => alive = {gen} /\ allModels = DbModels

Lists ==
  /\ Before => Empty
  /\ task # "none" /\ stage = "urls" => Empty \/ Full

Cached == cached \subseteq alive \/ (aborted /\ task = "none")

IInv == Types /\ Phase /\ Models /\ Lists /\ Cached /\ RoutesLive

USE DEF Before, Empty, Full, DbModels, AllViewUrls, NoViewUrls

-----------------------------------------------------------------------------
\* What the lists hold.

\* In the database a default version is one of the versions.
LEMMA DefaultIsVersion ==
  ASSUME NEW rows \in Databases, NEW d \in DbDatasets(rows)
  PROVE  rows[d].default \in rows[d].versions
<1>1. d \in Dataset /\ rows[d] \in Rows[d]
  BY ConstantsAssumption DEF DbDatasets, Databases
<1> QED
  BY <1>1, ConstantsAssumption

\* The models of datasets without an API give no viewsets.
LEMMA ViewsetsOfApi ==
  ASSUME NEW rows
  PROVE  BuildDbViewsets(ModelsOf(rows, DbDatasets(rows)), rows)
           = BuildDbViewsets(ModelsOf(rows, ApiDatasets(rows)), rows)
BY DEF BuildDbViewsets, ModelsOf, ApiDatasets

\* The patterns of tiles and WFS name datasets and versions that have models.
LEMMA ServicesHaveModels ==
  ASSUME NEW rows \in Databases,
         NEW url \in BuildMvtViews(rows) \cup BuildWfsViews(rows)
  PROVE  <<url[2], url[3]>> \in ModelsOf(rows, DbDatasets(rows))
<1>1. PICK d \in ApiDatasets(rows) : url[2] = d /\ url[3] \in rows[d].versions \cup {DEFAULT}
  BY DEF BuildMvtViews, BuildWfsViews, PerVersion, EveryVersion
<1>2. d \in DbDatasets(rows)
  BY DEF ApiDatasets
<1>3. url[3] \in ModelVersions(rows[d])
  BY <1>1, <1>2, DefaultIsVersion DEF ModelVersions
<1> QED
  BY <1>1, <1>2, <1>3 DEF ModelsOf

\* Lists that hold nothing give the static routes only.
LEMMA UrlsOfEmpty ==
  ASSUME Empty
  PROVE  GetUrls = StaticUrls
BY DEF GetUrls

\* Full lists give everything of the reading.
LEMMA UrlsOfFull ==
  ASSUME Full
  PROVE  GetUrls = UNION {StaticUrls, BuildDbViewsets(DbModels, snap), BuildDocViews(snap),
                          BuildOpenapiViews(snap), BuildIndexViews(snap),
                          BuildMvtViews(snap), BuildWfsViews(snap)}
<1>1. UNION {viewUrls[k] : k \in ViewKind}
        = UNION {BuildOpenapiViews(snap), BuildIndexViews(snap),
                 BuildMvtViews(snap), BuildWfsViews(snap)}
  BY DEF ViewKind
<1> QED
  BY <1>1 DEF GetUrls

-----------------------------------------------------------------------------
\* The invariant.

LEMMA NothingIsDatabase == Nothing \in Databases
<1>1. Nothing \in [Dataset -> (UNION {Rows[d] : d \in Dataset}) \cup {Absent}]
  BY DEF Nothing
<1> QED
  BY <1>1 DEF Nothing, Databases

LEMMA InitIInv == Init => IInv
BY NothingIsDatabase
   DEF Init, NewProcess, NewRouter, IInv, Types, Phase, Models, Lists, Cached, RoutesLive, Settled

\* Steps that leave the worker alone.
LEMMA OutsideIInv ==
  ASSUME IInv, UNCHANGED <<process, router, urls>>, db' \in Databases
  PROVE  IInv'
BY DEF process, routes, router, urls, IInv, Types, Phase, Models, Lists, Cached, RoutesLive, Settled

LEMMA BeginImportIInv == IInv /\ BeginImport => IInv'
<1> SUFFICES ASSUME IInv, BeginImport PROVE IInv'
  OBVIOUS
<1> USE DEF BeginImport, ResetRouter, urls, IInv, Types, Phase
<1>1. Types'
  BY NothingIsDatabase
<1>2. Phase'
  OBVIOUS
<1>3. Models'
  BY DEF Models
<1>4. Lists'
  BY DEF Lists
<1>5. Cached'
  BY DEF Models, Cached
<1>6. RoutesLive'
  BY DEF RoutesLive, Settled
<1> QED
  BY <1>1, <1>2, <1>3, <1>4, <1>5, <1>6

LEMMA BeginReloadIInv == IInv /\ BeginReload => IInv'
BY DEF BeginReload, DeleteCreatedObjects, RemoveDynamicModels, urls,
       IInv, Types, Phase, Models, Lists, Cached, RoutesLive, Settled

LEMMA BuildModelsIInv == IInv /\ BuildModels => IInv'
<1> SUFFICES ASSUME IInv, BuildModels PROVE IInv'
  OBVIOUS
<1>1. allModels' = ModelsOf(db, DbDatasets(db)) /\ alive' = {gen'} /\ snap' = db
  BY DEF BuildModels, BuildDbModels, IInv, Models
<1> QED
  BY <1>1 DEF BuildModels, BuildDbModels, routes, urls,
       IInv, Types, Phase, Models, Lists, Cached, RoutesLive, Settled

LEMMA BuildViewsIInv == IInv /\ BuildViews => IInv'
<1> SUFFICES ASSUME IInv, BuildViews PROVE IInv'
  OBVIOUS
<1> USE DEF BuildViews, urls, IInv, Types, Phase
<1>1. Types'
  BY NothingIsDatabase
<1>2. Phase'
  OBVIOUS
<1>3. Models'
  BY DEF Models
<1>4. Lists'
  BY DEF Models, Lists
<1>5. Cached'
  BY DEF Models, Cached
<1>6. RoutesLive'
  BY DEF RoutesLive, Settled
<1> QED
  BY <1>1, <1>2, <1>3, <1>4, <1>5, <1>6

LEMMA StopAtModelErrorsIInv == IInv /\ StopAtModelErrors => IInv'
BY DEF StopAtModelErrors, routes, router, urls,
       IInv, Types, Phase, Models, Lists, Cached, RoutesLive, Settled

LEMMA FailReloadIInv == IInv /\ FailReload => IInv'
BY DEF FailReload, RaiseIn, BuildDbModels, routes, urls,
       IInv, Types, Phase, Models, Lists, Cached, RoutesLive, Settled

LEMMA FailImportIInv == IInv /\ FailImport => IInv'
<1> SUFFICES ASSUME IInv, FailImport PROVE IInv'
  OBVIOUS
<1> USE DEF FailImport, RemoveDynamicModels, ResetRouter, urls, IInv, Types, Phase
<1>1. Types'
  BY NothingIsDatabase
<1>2. Phase'
  OBVIOUS
<1>3. Models'
  BY DEF Models
<1>4. Lists'
  BY DEF Lists
<1>5. Cached'
  BY DEF Models, Cached
<1>6. RoutesLive'
  BY DEF RoutesLive, Settled
<1> QED
  BY <1>1, <1>2, <1>3, <1>4, <1>5, <1>6

LEMMA RestartIInv == IInv /\ Restart => IInv'
BY NothingIsDatabase
   DEF Restart, RemoveDynamicModels, ResetRouter,
       IInv, Types, Phase, Models, Lists, Cached, RoutesLive, Settled

LEMMA ClearUrlsIInv == IInv /\ ClearUrls => IInv'
<1> SUFFICES ASSUME IInv, ClearUrls PROVE IInv'
  OBVIOUS
<1> USE DEF ClearUrls, RemoveDynamicModels, IInv, Types, Phase
<1>1. Types'
  BY NothingIsDatabase
<1>2. Phase'
  OBVIOUS
<1>3. Models'
  BY DEF Models
<1>4. Lists'
  BY DEF Lists
<1>5. Cached'
  BY DEF Models, Cached
<1>6. RoutesLive'
  BY DEF StaticUrls, RoutesLive, Settled
<1> QED
  BY <1>1, <1>2, <1>3, <1>4, <1>5, <1>6

LEMMA RegisterIInv == \A r \in StaticRoute : IInv /\ Register(r) => IInv'
BY DEF Register, process, urls,
       IInv, Types, Phase, Models, Lists, Cached, RoutesLive, Settled

LEMMA InspectIInv == IInv /\ Inspect => IInv'
<1> SUFFICES ASSUME IInv, Inspect PROVE IInv'
  OBVIOUS
<1> USE DEF Inspect, ReadRouterUrls, process, urls, IInv, Types, Phase
<1>1. Types'
  BY NothingIsDatabase
<1>2. Phase'
  OBVIOUS
<1>3. Models'
  BY DEF Models
<1>4. Lists'
  BY DEF Lists
<1>5. Cached'
  BY DEF Models, Cached
<1>6. RoutesLive'
  BY DEF RoutesLive, Settled
<1> QED
  BY <1>1, <1>2, <1>3, <1>4, <1>5, <1>6

LEMMA ServeTableIInv == IInv /\ ServeTable => IInv'
BY DEF ServeTable, router, routes, urls,
       IInv, Types, Phase, Models, Lists, Cached, RoutesLive, Settled

\* The kinds of the patterns.
LEMMA Kinds ==
  ASSUME NEW rows, NEW models
  PROVE  /\ \A url \in BuildDbViewsets(models, rows) : url[1] = "table"
         /\ \A url \in BuildDocViews(rows) : url[1] \in {"docs", "docs-wfs"}
         /\ \A url \in BuildOpenapiViews(rows) : url[1] = "openapi"
         /\ \A url \in BuildIndexViews(rows) : url[1] = "index"
         /\ \A url \in StaticUrls : url[1] = "static"
BY DEF BuildDbViewsets, BuildDocViews, BuildOpenapiViews, BuildIndexViews, StaticUrls, PerVersion

\* The URLs change here: to the static ones or to those of a whole reading.
LEMMA UrlsAtRefresh ==
  ASSUME IInv, RefreshUrls
  PROVE  \/ Empty /\ urlpatterns' = StaticUrls
         \/ Full /\ urlpatterns' = UNION {StaticUrls, BuildDbViewsets(DbModels, snap),
                      BuildDocViews(snap), BuildOpenapiViews(snap), BuildIndexViews(snap),
                      BuildMvtViews(snap), BuildWfsViews(snap)}
<1>1. urlpatterns' = GetUrls
  BY DEF RefreshUrls, RouterUrls, IInv, Phase
<1>2. Empty \/ Full
  BY DEF RefreshUrls, IInv, Lists
<1>3. CASE Empty
  BY <1>1, <1>3, UrlsOfEmpty
<1>4. CASE Full
  BY <1>1, <1>4, UrlsOfFull
<1> QED
  BY <1>2, <1>3, <1>4

LEMMA RefreshUrlsIInv == IInv /\ RefreshUrls => IInv'
<1> SUFFICES ASSUME IInv, RefreshUrls PROVE IInv'
  OBVIOUS
<1>1. (Types /\ Phase /\ Models /\ Lists /\ Cached)'
  BY DEF RefreshUrls, ReadRouterUrls, IInv, Types, Phase, Models, Lists, Cached
<1>2. ASSUME NEW url \in urlpatterns', url[1] \in {"table", "mvt", "wfs"}
      PROVE  Full /\ (url[1] # "table" => url \in BuildMvtViews(snap) \cup BuildWfsViews(snap))
  <2> HIDE DEF Empty, Full, DbModels
  <2> QED  BY <1>2, UrlsAtRefresh, Kinds
<1>3. RoutesLive'
  <2>1. ASSUME NEW url \in urlpatterns', url[1] = "table"
        PROVE  patternsGen' \in alive'
    BY <1>2, <2>1 DEF RefreshUrls
  <2>2. ASSUME NEW url \in urlpatterns', url[1] \in {"mvt", "wfs"}
        PROVE  <<url[2], url[3]>> \in allModels'
    BY <1>2, <2>2, ServicesHaveModels DEF RefreshUrls, IInv, Types
  <2> QED
    BY <2>1, <2>2 DEF RoutesLive
<1> QED
  BY <1>1, <1>3 DEF IInv

\* Every step preserves IInv.
LEMMA NextIInv == IInv /\ [Next]_vars => IInv'
<1> SUFFICES ASSUME IInv, [Next]_vars PROVE IInv'
  OBVIOUS
<1>1. ASSUME NEW d \in Dataset, ImportSchema(d) PROVE IInv'
  BY <1>1, OutsideIInv DEF ImportSchema
<1>2. CASE Migrate
  BY <1>2, OutsideIInv DEF Migrate, IInv, Types
<1>3. CASE UNCHANGED vars
  BY <1>3, OutsideIInv DEF vars, IInv, Types
<1>4. CASE Build
  BY <1>4, BeginImportIInv, BuildModelsIInv, BuildViewsIInv, StopAtModelErrorsIInv,
     RefreshUrlsIInv DEF Build
<1>5. CASE FailReload \/ FailImport \/ BeginReload \/ Restart
  BY <1>5, FailReloadIInv, FailImportIInv, BeginReloadIInv, RestartIInv
<1>6. CASE ClearUrls \/ Inspect \/ ServeTable
  BY <1>6, ClearUrlsIInv, InspectIInv, ServeTableIInv
<1> QED
  BY <1>1, <1>2, <1>3, <1>4, <1>5, <1>6, RegisterIInv DEF Next

THEOREM Invariance == Spec => []IInv
BY InitIInv, NextIInv, PTL DEF Spec

-----------------------------------------------------------------------------
\* The types.

ModelKeys == Dataset \X (Version \cup {DEFAULT})

\* A row of the table that is in use.
LEMMA RowFacts ==
  ASSUME NEW rows \in Databases, NEW d \in DbDatasets(rows)
  PROVE  /\ d \in Dataset /\ rows[d] # Absent
         /\ rows[d].versions \subseteq Version /\ rows[d].open \subseteq rows[d].versions
         /\ rows[d].default \in rows[d].versions
<1>1. d \in Dataset /\ rows[d] \in Rows[d] /\ rows[d] # Absent
  BY ConstantsAssumption DEF DbDatasets, Databases
<1>2. rows[d] \in Row /\ rows[d].open \subseteq rows[d].versions
      /\ rows[d].default \in rows[d].versions
  BY <1>1, ConstantsAssumption
<1> QED
  BY <1>1, <1>2 DEF Row

LEMMA ModelTypes ==
  ASSUME NEW rows \in Databases, NEW datasets, datasets \subseteq DbDatasets(rows)
  PROVE  ModelsOf(rows, datasets) \subseteq ModelKeys
<1> SUFFICES ASSUME NEW d \in datasets, NEW v \in ModelVersions(rows[d])
             PROVE  <<d, v>> \in ModelKeys
  BY DEF ModelsOf
<1>1. v \in rows[d].versions \cup {DEFAULT}
  BY DEF ModelVersions
<1> QED
  BY <1>1, RowFacts DEF ModelKeys

\* What the views are built for: datasets or sub paths, with a version.
LEMMA PatternTypes ==
  ASSUME NEW rows \in Databases, NEW models, models \subseteq ModelKeys
  PROVE  /\ BuildDbViewsets(models, rows) \subseteq Pattern
         /\ BuildDocViews(rows) \subseteq Pattern
         /\ BuildOpenapiViews(rows) \subseteq Pattern
         /\ BuildIndexViews(rows) \subseteq Pattern
         /\ BuildMvtViews(rows) \subseteq Pattern
         /\ BuildWfsViews(rows) \subseteq Pattern
<1>1. ASSUME NEW kind \in Kind, NEW d \in Dataset, NEW v \in Version \cup {DEFAULT}
      PROVE  <<kind, d, v>> \in Pattern
  BY DEF Pattern
<1>2. ASSUME NEW d \in ApiDatasets(rows)
      PROVE  /\ d \in Dataset
             /\ rows[d].versions \cup {DEFAULT} \subseteq Version \cup {DEFAULT}
             /\ rows[d].open \cup {DEFAULT} \subseteq Version \cup {DEFAULT}
  BY RowFacts DEF ApiDatasets
<1>3. Kind = {"table", "docs", "docs-wfs", "static", "openapi", "index", "mvt", "wfs"}
  BY DEF Kind, ViewKind
<1>4. BuildDbViewsets(models, rows) \subseteq Pattern
  <2>1. \A m \in models : m[1] \in Dataset /\ m[2] \in Version \cup {DEFAULT}
    BY DEF ModelKeys
  <2> QED
    BY <1>1, <1>3, <2>1 DEF BuildDbViewsets
<1>5. BuildDocViews(rows) \subseteq Pattern
  BY <1>1, <1>2, <1>3 DEF BuildDocViews, PerVersion, EveryVersion
<1>6. BuildOpenapiViews(rows) \subseteq Pattern
  BY <1>1, <1>2, <1>3 DEF BuildOpenapiViews, PerVersion, OpenVersions
<1>7. BuildMvtViews(rows) \subseteq Pattern /\ BuildWfsViews(rows) \subseteq Pattern
  BY <1>1, <1>2, <1>3 DEF BuildMvtViews, BuildWfsViews, PerVersion, EveryVersion
<1>8. BuildIndexViews(rows) \subseteq Pattern
  BY <1>2, <1>3 DEF BuildIndexViews, Pattern
<1> QED
  BY <1>4, <1>5, <1>6, <1>7, <1>8

LEMMA StaticTypes == staticRoutes \subseteq StaticRoute => StaticUrls \subseteq Pattern
BY DEF StaticUrls, Pattern, Kind

LEMMA UrlTypes == TypeOK => RouterUrls \subseteq Pattern
BY StaticTypes DEF TypeOK, RouterUrls, GetUrls

\* The router without anything in it.
LEMMA NothingTypes == 0 \in Gen /\ 0 \in 0 .. MaxFailures /\ NoViewUrls \in [ViewKind -> SUBSET Pattern]
BY BoundsAssumption DEF Gen

LEMMA InitTypeOK == Init => TypeOK
BY NothingTypes, NothingIsDatabase DEF Init, NewProcess, NewRouter, TypeOK

LEMMA BuildTypes == IInv /\ TypeOK /\ (BuildModels \/ FailReload) => TypeOK'
<1> SUFFICES ASSUME IInv, TypeOK, BuildModels \/ FailReload
             PROVE  TypeOK'
  OBVIOUS
<1> USE DEF TypeOK
<1>1. ASSUME NEW datasets \in SUBSET DbDatasets(db), BuildDbModels(datasets)
      PROVE  /\ snap' \in Databases /\ gen' \in Gen /\ alive' \subseteq Gen /\ cached' \subseteq Gen
             /\ allModels' \subseteq ModelKeys
  <2>1. ModelsOf(db, datasets) \subseteq ModelKeys
    BY ModelTypes
  <2>2. gen' \in Gen
    BY <1>1, BoundsAssumption DEF BuildDbModels, Gen
  <2> QED
    BY <1>1, <2>1, <2>2 DEF BuildDbModels, ModelKeys
<1>2. CASE BuildModels
  BY <1>1, <1>2 DEF BuildModels, routes, urls, ModelKeys
<1>3. CASE FailReload
  <2>1. failures' \in 0 .. MaxFailures
    BY <1>3, BoundsAssumption DEF FailReload
  <2>2. /\ snap' \in Databases /\ gen' \in Gen /\ alive' \subseteq Gen /\ cached' \subseteq Gen
        /\ allModels' \subseteq ModelKeys
    BY <1>1, <1>3 DEF FailReload, RaiseIn, ModelKeys
  <2> QED
    BY <1>3, <2>1, <2>2 DEF FailReload, routes, urls, ModelKeys
<1> QED
  BY <1>2, <1>3

LEMMA FailImportTypes == TypeOK /\ FailImport => TypeOK'
<1> SUFFICES ASSUME TypeOK, FailImport
             PROVE  TypeOK'
  OBVIOUS
<1>1. gen' \in Gen /\ failures' \in 0 .. MaxFailures
  BY BoundsAssumption DEF TypeOK, FailImport, Gen
<1> QED
  BY <1>1, NothingTypes, NothingIsDatabase
     DEF TypeOK, FailImport, RemoveDynamicModels, ResetRouter, urls

LEMMA BuildViewsTypes == TypeOK /\ BuildViews => TypeOK'
<1> SUFFICES ASSUME TypeOK, BuildViews
             PROVE  TypeOK'
  OBVIOUS
<1>1. /\ registry' \subseteq Pattern /\ docUrls' \subseteq Pattern
      /\ viewUrls' \in [ViewKind -> SUBSET Pattern]
  BY PatternTypes DEF TypeOK, BuildViews, ViewKind, ModelKeys
<1> QED
  BY <1>1 DEF TypeOK, BuildViews, urls

LEMMA NextTypeOK == IInv /\ TypeOK /\ [Next]_vars => TypeOK'
<1> SUFFICES ASSUME IInv, TypeOK, [Next]_vars
             PROVE  TypeOK'
  OBVIOUS
<1>1. ASSUME NEW d \in Dataset, ImportSchema(d) PROVE TypeOK'
  BY <1>1 DEF ImportSchema, process, router, routes, urls, TypeOK
<1>2. CASE Migrate \/ StopAtModelErrors \/ UNCHANGED vars
  BY <1>2 DEF Migrate, StopAtModelErrors, vars, process, router, routes, urls, TypeOK
<1>3. CASE BeginImport \/ Restart
  BY <1>3, NothingTypes, NothingIsDatabase
     DEF BeginImport, Restart, RemoveDynamicModels, ResetRouter, urls, TypeOK
<1>4. CASE BeginReload
  BY <1>4, NothingTypes
     DEF BeginReload, DeleteCreatedObjects, RemoveDynamicModels, urls, TypeOK
<1>5. CASE RefreshUrls \/ Inspect
  BY <1>5, UrlTypes DEF RefreshUrls, Inspect, ReadRouterUrls, process, urls, TypeOK
<1>6. CASE ClearUrls
  <2>1. urlpatterns' \subseteq Pattern
    BY <1>6, StaticTypes DEF ClearUrls, TypeOK
  <2>2. registryGen' \in Gen /\ patternsGen' \in Gen /\ viewUrls' \in [ViewKind -> SUBSET Pattern]
    BY <1>6, NothingTypes DEF ClearUrls
  <2> QED
    BY <1>6, <2>1, <2>2 DEF ClearUrls, RemoveDynamicModels, TypeOK
<1>7. CASE ServeTable
  BY <1>7 DEF ServeTable, router, routes, urls, TypeOK
<1>8. ASSUME NEW r \in StaticRoute, Register(r) PROVE TypeOK'
  BY <1>8 DEF Register, process, urls, TypeOK
<1> QED
  BY <1>1, <1>2, <1>3, <1>4, <1>5, <1>6, <1>7, <1>8,
     BuildTypes, FailImportTypes, BuildViewsTypes DEF Next, Build

\* For all tables of datasets, every URL pattern names a dataset, a sub path or
\* a static route, and every variable keeps its type.
THEOREM TypeCorrect == Spec => []TypeOK
BY InitTypeOK, NextTypeOK, Invariance, PTL DEF Spec

-----------------------------------------------------------------------------
\* The catalogue.

AllUrls(rows) ==
  UNION {BuildDocViews(rows), BuildOpenapiViews(rows), BuildMvtViews(rows), BuildWfsViews(rows)}

\* The URLs that lead to models come from the reading that is still the last one.
Catalogue ==
  /\ Before => registryGen = 0
  /\ task # "none" /\ stage = "urls" => registryGen = 0 \/ Full
  /\ Settled /\ patternsGen # 0 => AllUrls(snap) \subseteq urlpatterns

CInv == IInv /\ Catalogue

LEMMA InitCatalogue == Init => Catalogue
BY DEF Init, NewProcess, NewRouter, Catalogue, Settled

LEMMA RefreshCatalogue == CInv /\ RefreshUrls => Catalogue'
<1> SUFFICES ASSUME CInv, RefreshUrls
             PROVE  Catalogue'
  OBVIOUS
<1>1. task' = "none" /\ snap' = snap /\ patternsGen' = registryGen /\ task # "none" /\ stage = "urls"
  BY DEF RefreshUrls
<1>2. CASE registryGen = 0
  BY <1>1, <1>2 DEF Catalogue
<1>3. CASE Full
  <2>1. urlpatterns' = GetUrls
    BY DEF RefreshUrls, RouterUrls, CInv, IInv, Phase
  <2>2. AllUrls(snap) \subseteq urlpatterns'
    BY <1>3, <2>1, UrlsOfFull DEF AllUrls
  <2>3. AllUrls(snap)' = AllUrls(snap)
    BY <1>1 DEF AllUrls, BuildDocViews, BuildOpenapiViews, BuildMvtViews, BuildWfsViews, PerVersion,
                EveryVersion, OpenVersions, ApiDatasets, DbDatasets
  <2> QED
    BY <1>1, <2>2, <2>3 DEF Catalogue
<1> QED
  BY <1>1, <1>2, <1>3 DEF CInv, Catalogue

LEMMA NextCatalogue == CInv /\ [Next]_vars => CInv'
<1> SUFFICES ASSUME CInv, [Next]_vars
             PROVE  Catalogue'
  BY NextIInv DEF CInv
<1>0. IInv /\ Catalogue
  BY DEF CInv
<1>1. ASSUME UNCHANGED <<process, router, urls>>
      PROVE  Catalogue'
  BY <1>0, <1>1 DEF process, router, routes, urls, Catalogue, Settled
<1>2. ASSUME NEW d \in Dataset, ImportSchema(d) PROVE Catalogue'
  BY <1>1, <1>2 DEF ImportSchema
<1>3. CASE Migrate \/ UNCHANGED vars
  BY <1>1, <1>3 DEF Migrate, vars
<1>4. CASE BeginImport \/ Restart
  BY <1>0, <1>4 DEF BeginImport, Restart, ResetRouter, IInv, Phase, Catalogue, Settled
<1>5. CASE BeginReload
  BY <1>0, <1>5 DEF BeginReload, DeleteCreatedObjects, Catalogue, Settled
<1>6. CASE BuildModels
  BY <1>0, <1>6 DEF BuildModels, BuildDbModels, routes, Catalogue, Settled
<1>7. CASE BuildViews
  <2>1. Lists' /\ Models'
    BY NextIInv DEF CInv, IInv
  <2> QED
    BY <1>0, <1>7 DEF BuildViews, IInv, Models, Catalogue, Settled
<1>8. CASE StopAtModelErrors
  BY <1>0, <1>8 DEF StopAtModelErrors, router, routes, Catalogue, Settled
<1>9. CASE FailReload \/ FailImport
  BY <1>0, <1>9 DEF FailReload, FailImport, IInv, Phase, Catalogue, Settled
<1>10. CASE ClearUrls
  BY <1>10 DEF ClearUrls, Catalogue, Settled
<1>11. CASE Inspect
  BY <1>0, <1>11 DEF Inspect, process, urls, Catalogue, Settled
<1>12. CASE ServeTable
  BY <1>0, <1>12 DEF ServeTable, router, urls, Catalogue, Settled
<1>13. ASSUME NEW r \in StaticRoute, Register(r) PROVE Catalogue'
  BY <1>0, <1>13 DEF Register, process, urls, Catalogue, Settled
<1> QED
  BY <1>2, <1>3, <1>4, <1>5, <1>6, <1>7, <1>8, <1>9, <1>10, <1>11, <1>12, <1>13,
     RefreshCatalogue DEF Next, Build

LEMMA CatalogueInvariance == Spec => []CInv
<1>1. Init => CInv
  BY InitIInv, InitCatalogue DEF CInv
<1> QED
  BY <1>1, NextCatalogue, PTL DEF Spec

\* The four services of a dataset that has an API.
LEMMA ServiceUrls ==
  ASSUME NEW rows, NEW d \in ApiDatasets(rows), NEW v \in rows[d].open \cup {DEFAULT},
         rows[d].open \subseteq rows[d].versions
  PROVE  \A k \in Services : <<k, d, v>> \in AllUrls(rows)
<1>1. v \in rows[d].versions \cup {DEFAULT}
  OBVIOUS
<1>2. <<"docs", d, v>> \in BuildDocViews(rows)
  BY <1>1 DEF BuildDocViews, PerVersion, EveryVersion
<1>3. <<"openapi", d, v>> \in BuildOpenapiViews(rows)
  BY DEF BuildOpenapiViews, PerVersion, OpenVersions
<1>4. <<"mvt", d, v>> \in BuildMvtViews(rows)
  BY <1>1 DEF BuildMvtViews, PerVersion, EveryVersion
<1>5. <<"wfs", d, v>> \in BuildWfsViews(rows)
  BY <1>1 DEF BuildWfsViews, PerVersion, EveryVersion
<1> QED
  BY <1>2, <1>3, <1>4, <1>5 DEF Services, AllUrls

\* For all tables of datasets: what the index and the documentation show of a
\* dataset that did not change since the URLs were built agrees with those URLs.
THEOREM CatalogueCompleteHolds == Spec => []CatalogueComplete
<1>1. ASSUME CInv, Settled, patternsGen # 0, NEW d \in ApiDatasets(db),
             db[d] = snap[d], db[d].default \in db[d].open
      PROVE  LET versions == db[d].open \cup {DEFAULT}
             IN  /\ IndexEntries(d) = versions
                 /\ db = snap /\ Links[d] \subseteq ApiDatasets(db) =>
                      \A v \in versions :
                        <<"docs", d, v>> \in urlpatterns /\ DocPage(d, v) = 200
  <2>1. /\ d \in DbDatasets(db) /\ d \in ApiDatasets(snap) /\ db[d].api /\ db[d].db
        /\ db[d] # Absent /\ db[d].open \subseteq db[d].versions
    <3>1. d \in DbDatasets(db) /\ db[d].api /\ db[d].db
      BY DEF ApiDatasets, DbDatasets
    <3>2. db[d] # Absent /\ db[d].open \subseteq db[d].versions
      BY <1>1, <3>1, RowFacts DEF CInv, IInv, Types
    <3>3. d \in ApiDatasets(snap)
      BY <1>1, <3>1 DEF ApiDatasets, DbDatasets
    <3> QED
      BY <3>1, <3>2, <3>3
  <2>2. ASSUME NEW v \in db[d].open \cup {DEFAULT}, NEW k \in Services
        PROVE  <<k, d, v>> \in urlpatterns
    BY <1>1, <2>1, ServiceUrls DEF CInv, Catalogue
  <2>3. IndexEntries(d) = db[d].open \cup {DEFAULT}
    BY <1>1, <2>1, <2>2 DEF IndexEntries
  <2>4. ASSUME db = snap, Links[d] \subseteq ApiDatasets(db), NEW v \in db[d].open \cup {DEFAULT}
        PROVE  <<"docs", d, v>> \in urlpatterns /\ DocPage(d, v) = 200
    <3>1. ASSUME NEW e \in Links[d]
          PROVE  <<"docs", e, DEFAULT>> \in urlpatterns
      <4>1. e \in ApiDatasets(snap)
        BY <2>4
      <4>2. snap[e].open \subseteq snap[e].versions
        BY <1>1, <4>1, RowFacts DEF ApiDatasets, CInv, IInv, Types
      <4> QED
        BY <1>1, <4>1, <4>2, ServiceUrls DEF Services, CInv, Catalogue
    <3>2. <<"docs", d, v>> \in urlpatterns /\ <<"openapi", d, v>> \in urlpatterns
          /\ <<"mvt", d, v>> \in urlpatterns /\ <<"wfs", d, v>> \in urlpatterns
      BY <2>2 DEF Services
    <3>3. v \in db[d].versions \cup {DEFAULT}
      BY <2>1
    <3> QED
      BY <2>1, <3>1, <3>2, <3>3 DEF DocPage
  <2> QED
    BY <2>3, <2>4
<1>2. CInv => CatalogueComplete
  BY <1>1 DEF CatalogueComplete
<1> QED
  BY <1>2, CatalogueInvariance, PTL

\* Between builds, and unless the last reload was cut off by an exception, no URL
\* leads to models that are gone, however many imports failed and builds, clearings
\* and reloads followed each other before: viewsets are of the models in the app
\* registry, and tiles and WFS find the models of their dataset and version.
THEOREM RoutesLiveHolds == Spec => []RoutesLive
BY Invariance, PTL DEF IInv

\* A failed import leaves no models, models of two builds never exist together,
\* and no cached serializer outlives its model unless a reload was cut off.
THEOREM NoLeftoversHolds == Spec => []NoLeftovers
<1>1. IInv => NoLeftovers
  <2> SUFFICES ASSUME IInv PROVE NoLeftovers
    OBVIOUS
  <2>1. alive = {} \/ alive = {gen}
    BY DEF IInv, Models
  <2>2. Cardinality(alive) \in {0, 1}
    BY <2>1, FS_EmptySet, FS_Singleton
  <2> QED
    BY <2>2 DEF IInv, Models, Cached, NoLeftovers
<1> QED
  BY Invariance, <1>1, PTL

-----------------------------------------------------------------------------
\* The refinement.

\* Both modules extend DatasetUrls: what they derive from a reading is the same.
LEMMA CompleteIsFull ==
  Abstract!Complete(snap) = UNION {BuildDbViewsets(DbModels, snap), BuildDocViews(snap),
                                   BuildOpenapiViews(snap), BuildIndexViews(snap),
                                   BuildMvtViews(snap), BuildWfsViews(snap)}
<1>1. Abstract!ApiDatasets(snap) = ApiDatasets(snap)
  BY DEF Abstract!ApiDatasets, ApiDatasets, Abstract!DbDatasets, DbDatasets
<1>2. /\ Abstract!BuildDocViews(snap) = BuildDocViews(snap)
      /\ Abstract!BuildOpenapiViews(snap) = BuildOpenapiViews(snap)
      /\ Abstract!BuildIndexViews(snap) = BuildIndexViews(snap)
      /\ Abstract!BuildMvtViews(snap) = BuildMvtViews(snap)
      /\ Abstract!BuildWfsViews(snap) = BuildWfsViews(snap)
  BY <1>1 DEF Abstract!BuildDocViews, BuildDocViews, Abstract!BuildOpenapiViews,
       BuildOpenapiViews, Abstract!BuildIndexViews, BuildIndexViews, Abstract!BuildMvtViews,
       BuildMvtViews, Abstract!BuildWfsViews, BuildWfsViews, Abstract!PerVersion, PerVersion,
       Abstract!EveryVersion, EveryVersion, Abstract!OpenVersions, OpenVersions
<1>3. Abstract!BuildDbViewsets(Abstract!ModelsOf(snap, ApiDatasets(snap)), snap)
        = BuildDbViewsets(DbModels, snap)
  BY <1>1, ViewsetsOfApi
     DEF Abstract!BuildDbViewsets, BuildDbViewsets, Abstract!ModelsOf, ModelsOf,
         Abstract!ModelVersions, ModelVersions
<1> QED
  BY <1>1, <1>2, <1>3 DEF Abstract!Complete

LEMMA InitRefines == Init => Abstract!Init
BY DEF Init, NewProcess, NewRouter, Abstract!Init, Abstract!Nothing, Nothing,
       Abstract!Databases, Databases

\* The URLs change at once, to those of the last reading or to the static ones.
LEMMA RefreshRefines == IInv /\ RefreshUrls => [Abstract!Next]_(Abstract!vars)
<1> SUFFICES ASSUME IInv, RefreshUrls PROVE Abstract!Publish \/ Abstract!Withdraw
  BY DEF Abstract!Next
<1>1. UNCHANGED <<db, snap, staticRoutes>>
  BY DEF RefreshUrls
<1>2. Abstract!StaticUrls(staticRoutes) = StaticUrls
  BY DEF Abstract!StaticUrls, StaticUrls
<1>3. \/ urlpatterns' = StaticUrls
      \/ urlpatterns' = StaticUrls \cup Abstract!Complete(snap)
  <2> HIDE DEF Empty, Full, DbModels
  <2> QED  BY UrlsAtRefresh, CompleteIsFull
<1> QED
  BY <1>1, <1>2, <1>3 DEF Abstract!Publish, Abstract!Withdraw

LEMMA ClearUrlsRefines == IInv /\ ClearUrls => Abstract!Withdraw
BY DEF ClearUrls, Abstract!Withdraw, Abstract!StaticUrls, StaticUrls, IInv, Phase

LEMMA StartOverRefines ==
  IInv /\ (BeginImport \/ FailImport \/ Restart) => Abstract!StartOver
BY DEF BeginImport, FailImport, Restart, ResetRouter, urls, Abstract!StartOver,
       Abstract!Nothing, Nothing, IInv, Phase

\* A build reads the database, also one that raises after that.
LEMMA ReadRefines ==
  BuildModels \/ FailReload => Abstract!Read \/ UNCHANGED Abstract!vars
BY DEF BuildModels, FailReload, RaiseIn, BuildDbModels, routes, urls, Abstract!Read,
       Abstract!vars

LEMMA StepRefines == IInv /\ [Next]_vars => [Abstract!Next]_(Abstract!vars)
<1> SUFFICES ASSUME IInv, [Next]_vars
             PROVE  Abstract!Next \/ UNCHANGED Abstract!vars
  OBVIOUS
<1>1. ASSUME NEW d \in Dataset, ImportSchema(d) PROVE Abstract!ChangeDatabase
  BY <1>1 DEF ImportSchema, process, router, routes, urls, Abstract!ChangeDatabase,
       Abstract!Databases, Databases
<1>2. ASSUME NEW r \in StaticRoute, Register(r) PROVE Abstract!AddRoute
  BY <1>2 DEF Register, process, urls, Abstract!AddRoute
<1>3. CASE Migrate \/ Inspect \/ ServeTable \/ StopAtModelErrors \/ BuildViews
           \/ BeginReload \/ UNCHANGED vars
  BY <1>3 DEF Migrate, Inspect, ServeTable, StopAtModelErrors, BuildViews, BeginReload,
       DeleteCreatedObjects, process, router, routes, urls, vars, Abstract!vars
<1> QED
  BY <1>1, <1>2, <1>3, RefreshRefines, ClearUrlsRefines, StartOverRefines, ReadRefines
     DEF Next, Build, Abstract!Next

\* For all databases, failures and orders of calls, the URLs of the worker are
\* always those of one whole reading of the database, or the static ones.
THEOREM OneReadingHolds == Spec => OneReading
BY InitRefines, StepRefines, Invariance, PTL DEF Spec, OneReading, Abstract!Spec

(***************************************************************************)
(* Induction over the natural numbers, for a set instead of a predicate,   *)
(* which every prover can use.                                             *)
(***************************************************************************)
LEMMA Induction ==
  ASSUME NEW T, 0 \in T, \A n \in Nat : n \in T => n + 1 \in T
  PROVE  Nat \subseteq T
<1> DEFINE R == OpToRel(<, Nat)
           C == Nat \ T
<1> SUFFICES ASSUME C # {}
             PROVE  FALSE
  OBVIOUS
<1>1. \A m, n \in Nat : <<m, n>> \in R <=> m < n
  BY DEF OpToRel
<1>2. IsWellFoundedOn(R, Nat)
  BY NatLessThanWellFounded
<1> HIDE DEF R
<1>3. PICK n \in C : \A m \in C : ~(<<m, n>> \in R)
  BY <1>2, WFMin
<1>4. n - 1 \in Nat /\ n - 1 \notin T /\ n - 1 < n
  BY <1>3
<1> QED
  BY <1>1, <1>3, <1>4

(***************************************************************************)
(* Nested routes: what a lookup reaches.                                    *)
(***************************************************************************)
\* The recursive function of Reached exists: a lookup goes from field to field.
LEMMA ReachedUnfolds ==
  ASSUME NEW lookup \in Seq(Table \X Table), NEW object
  PROVE  /\ Reached(lookup, object)[0] = object
         /\ \A i \in 1 .. Len(lookup) :
              Reached(lookup, object)[i] = ForeignKeys[lookup[i]][Reached(lookup, object)[i - 1]]
<1> DEFINE At(f, i) == IF i = 0 THEN object ELSE ForeignKeys[lookup[i]][f[i - 1]]
           Is(f, n) == f = [i \in 0 .. n |-> At(f, i)]
           T == {n \in Nat : n <= Len(lookup) => \E f : Is(f, n)}
<1>1. 0 \in T
  <2>1. Is([i \in 0 .. 0 |-> object], 0)
    OBVIOUS
  <2> QED
    BY <2>1
<1>2. ASSUME NEW n \in Nat, n \in T
      PROVE  n + 1 \in T
  <2> SUFFICES ASSUME n + 1 <= Len(lookup)
               PROVE  \E f : Is(f, n + 1)
    OBVIOUS
  <2>1. PICK f : Is(f, n)
    BY <1>2
  <2>2. PICK g : g = [i \in 0 .. n + 1 |-> IF i = n + 1 THEN At(f, i) ELSE f[i]]
    OBVIOUS
  <2>3. \A i \in 0 .. n : g[i] = f[i] /\ f[i] = At(f, i)
    <3>1. \A i \in 0 .. n : f[i] = At(f, i)
      <4> HIDE DEF At
      <4> QED
        BY <2>1
    <3>2. \A i \in 0 .. n : g[i] = f[i]
      <4> HIDE DEF At
      <4>1. \A i \in 0 .. n : i \in 0 .. n + 1 /\ i # n + 1
        OBVIOUS
      <4> QED
        BY <2>2, <4>1
    <3> QED
      BY <3>1, <3>2
  <2>4. \A i \in 0 .. n + 1 : g[i] = At(g, i)
    <3> SUFFICES ASSUME NEW i \in 0 .. n + 1
                 PROVE  g[i] = At(g, i)
      OBVIOUS
    <3>1. i # 0 => i - 1 \in 0 .. n
      OBVIOUS
    <3>2. At(f, i) = At(g, i)
      BY <2>3, <3>1
    <3>3. g[i] = At(f, i)
      <4>1. CASE i = n + 1
        BY <2>2, <4>1
      <4>2. CASE i # n + 1
        <5>1. i \in 0 .. n
          BY <4>2
        <5> QED
          BY <2>3, <5>1
      <4> QED
        BY <4>1, <4>2
    <3> QED
      BY <3>2, <3>3
  <2>5. Is(g, n + 1)
    BY <2>2, <2>4
  <2> QED
    BY <2>5
<1>3. Len(lookup) \in T
  <2> HIDE DEF T
  <2> QED
    BY <1>1, <1>2, Induction
<1>4. PICK f : Is(f, Len(lookup))
  BY <1>3
<1>5. Is(Reached(lookup, object), Len(lookup))
  BY <1>4 DEF Reached
<1>6. \A i \in 0 .. Len(lookup) : Reached(lookup, object)[i] = At(Reached(lookup, object), i)
  <2> HIDE DEF At
  <2> QED
    BY <1>5
<1>7. Len(lookup) \in Nat
  OBVIOUS
<1> QED
  BY <1>6, <1>7

\* The fields from the last table of a path up to the table at i.
Chain(p, i) == [j \in 1 .. Len(p) - i |-> <<p[Len(p) - j + 1], p[Len(p) - j]>>]

LEMMA ChainTyped ==
  ASSUME NEW p \in Seq(Table), NEW i \in 1 .. Len(p) - 1
  PROVE  Chain(p, i) \in Seq(Table \X Table) /\ Len(Chain(p, i)) = Len(p) - i
<1>1. Len(p) - i \in Nat
  OBVIOUS
<1>2. \A j \in 1 .. Len(p) - i : <<p[Len(p) - j + 1], p[Len(p) - j]>> \in Table \X Table
  OBVIOUS
<1> QED
  BY <1>1, <1>2 DEF Chain

\* A chain to a table further up begins with the fields of a shorter one.
LEMMA ChainsAgree ==
  ASSUME NEW p \in Seq(Table), NEW i \in 1 .. Len(p) - 1, NEW object
  PROVE  \A j \in 0 .. Len(p) - i :
           Reached(Chain(p, i), object)[j] = Reached(Chain(p, 1), object)[j]
<1> DEFINE f == Reached(Chain(p, i), object)
           g == Reached(Chain(p, 1), object)
           T == {n \in Nat : n <= Len(p) - i => f[n] = g[n]}
<1>1. /\ f[0] = object
      /\ \A j \in 1 .. Len(p) - i : f[j] = ForeignKeys[Chain(p, i)[j]][f[j - 1]]
  <2>1. Chain(p, i) \in Seq(Table \X Table) /\ Len(Chain(p, i)) = Len(p) - i
    BY ChainTyped
  <2> QED
    BY <2>1, ReachedUnfolds
<1>2. /\ g[0] = object
      /\ \A j \in 1 .. Len(p) - 1 : g[j] = ForeignKeys[Chain(p, 1)[j]][g[j - 1]]
  <2>1. 1 \in 1 .. Len(p) - 1
    OBVIOUS
  <2>2. Chain(p, 1) \in Seq(Table \X Table) /\ Len(Chain(p, 1)) = Len(p) - 1
    BY <2>1, ChainTyped
  <2> QED
    BY <2>2, ReachedUnfolds
<1>3. \A j \in 1 .. Len(p) - i : j \in 1 .. Len(p) - 1 /\ Chain(p, i)[j] = Chain(p, 1)[j]
  BY DEF Chain
<1> HIDE DEF f, g
<1>4. 0 \in T
  BY <1>1, <1>2
<1>5. ASSUME NEW n \in Nat, n \in T
      PROVE  n + 1 \in T
  <2> SUFFICES ASSUME n + 1 <= Len(p) - i
               PROVE  f[n + 1] = g[n + 1]
    OBVIOUS
  <2>1. n + 1 \in 1 .. Len(p) - i /\ (n + 1) - 1 = n
    OBVIOUS
  <2>2. f[n] = g[n]
    BY <1>5, <2>1
  <2> QED
    BY <1>1, <1>2, <1>3, <2>1, <2>2
<1>6. \A n \in Nat : n \in T
  <2> HIDE DEF T
  <2> QED
    BY <1>4, <1>5, Induction
<1>7. \A j \in 0 .. Len(p) - i : f[j] = g[j]
  BY <1>6
<1> QED
  BY <1>7 DEF f, g

\* The object that a chain reaches after some fields is the one that the URL names
\* there, on condition that this is so for each table in turn.
LEMMA ReachedIsNamed ==
  ASSUME NEW p \in Seq(Table), Len(p) >= 2,
         NEW values \in [1 .. Len(p) - 1 -> Object], NEW o \in Object,
         o \in Below(p, values)
           \/ \A i \in 1 .. Len(p) - 1 : Follow(Chain(p, i), o) = values[i]
  PROVE  \A j \in 1 .. Len(p) - 1 :
           /\ Reached(Chain(p, 1), o)[j] = values[Len(p) - j]
           /\ ForeignKeys[<<p[Len(p) - j + 1], p[Len(p) - j]>>]
                         [Append(values, o)[Len(p) - j + 1]] = values[Len(p) - j]
<1> DEFINE m == Len(p)
           g == Reached(Chain(p, 1), o)
           chain == Append(values, o)
           fk(i) == <<p[i + 1], p[i]>>
<1>1. m \in Nat /\ 1 \in 1 .. m - 1
  OBVIOUS
<1>2. values \in Seq(Object) /\ Len(values) = m - 1 /\ DOMAIN values = 1 .. m - 1
  BY <1>1
<1>3. chain[m] = o /\ \A i \in 1 .. m - 1 : chain[i] = values[i]
  BY <1>1, <1>2
<1>4. g[0] = o /\ \A j \in 1 .. m - 1 : g[j] = ForeignKeys[fk(m - j)][g[j - 1]]
  <2>1. Chain(p, 1) \in Seq(Table \X Table) /\ Len(Chain(p, 1)) = m - 1
    BY <1>1, ChainTyped
  <2>2. /\ g[0] = o
        /\ \A j \in 1 .. Len(Chain(p, 1)) : g[j] = ForeignKeys[Chain(p, 1)[j]][g[j - 1]]
    BY <2>1, ReachedUnfolds
  <2>3. \A j \in 1 .. m - 1 : Chain(p, 1)[j] = fk(m - j)
    BY <1>1 DEF Chain
  <2> QED
    BY <2>1, <2>2, <2>3
<1>5. CASE \A i \in 1 .. m - 1 : Follow(Chain(p, i), o) = values[i]
  <2>1. \A i \in 1 .. m - 1 : g[m - i] = values[i]
    <3> SUFFICES ASSUME NEW i \in 1 .. m - 1
                 PROVE  g[m - i] = values[i]
      OBVIOUS
    <3>1. Follow(Chain(p, i), o) = Reached(Chain(p, i), o)[m - i]
      BY ChainTyped DEF Follow
    <3>2. m - i \in 0 .. m - i
      BY <1>1
    <3> QED
      BY <1>5, <3>1, <3>2, ChainsAgree
  <2>2. \A j \in 0 .. m - 1 : g[j] = chain[m - j]
    <3> SUFFICES ASSUME NEW j \in 0 .. m - 1
                 PROVE  g[j] = chain[m - j]
      OBVIOUS
    <3>1. CASE j = 0
      BY <1>1, <1>3, <1>4, <3>1
    <3>2. CASE j # 0
      <4>1. m - j \in 1 .. m - 1 /\ m - (m - j) = j
        BY <1>1, <3>2
      <4> QED
        BY <1>3, <2>1, <4>1
    <3> QED
      BY <3>1, <3>2
  <2> SUFFICES ASSUME NEW j \in 1 .. m - 1
               PROVE  g[j] = values[m - j] /\ ForeignKeys[fk(m - j)][chain[m - j + 1]] = values[m - j]
    BY <1>1
  <2>3. m - j \in 1 .. m - 1 /\ m - (m - j) = j /\ j - 1 \in 0 .. m - 1 /\ m - (j - 1) = m - j + 1
    BY <1>1
  <2>4. g[j] = values[m - j]
    BY <2>1, <2>3
  <2>5. g[j - 1] = chain[m - j + 1]
    BY <2>2, <2>3
  <2> QED
    BY <1>4, <2>4, <2>5
<1>6. CASE o \in Below(p, values)
  <2>1. \A i \in 1 .. m - 1 : ForeignKeys[fk(i)][chain[i + 1]] = values[i]
    BY <1>2, <1>6 DEF Below
  <2> DEFINE T == {n \in Nat : n <= m - 1 => g[n] = chain[m - n]}
  <2>2. 0 \in T
    BY <1>1, <1>3, <1>4
  <2>3. ASSUME NEW n \in Nat, n \in T
        PROVE  n + 1 \in T
    <3> SUFFICES ASSUME n + 1 <= m - 1
                 PROVE  g[n + 1] = chain[m - (n + 1)]
      OBVIOUS
    <3>1. /\ n + 1 \in 1 .. m - 1 /\ (n + 1) - 1 = n /\ n <= m - 1
          /\ m - (n + 1) \in 1 .. m - 1 /\ m - (n + 1) + 1 = m - n
      BY <1>1
    <3>2. g[n] = chain[m - n]
      BY <2>3, <3>1
    <3>3. g[n + 1] = ForeignKeys[fk(m - (n + 1))][chain[m - n]]
      BY <1>4, <3>1, <3>2
    <3>4. ForeignKeys[fk(m - (n + 1))][chain[m - n]] = values[m - (n + 1)]
      BY <2>1, <3>1
    <3> QED
      BY <1>3, <3>1, <3>3, <3>4
  <2>4. \A n \in Nat : n \in T
    <3> HIDE DEF T
    <3> QED
      BY <2>2, <2>3, Induction
  <2> SUFFICES ASSUME NEW j \in 1 .. m - 1
               PROVE  g[j] = values[m - j] /\ ForeignKeys[fk(m - j)][chain[m - j + 1]] = values[m - j]
    BY <1>1
  <2>5. m - j \in 1 .. m - 1 /\ j \in Nat /\ j <= m - 1
    BY <1>1
  <2>6. g[j] = chain[m - j]
    BY <2>4, <2>5
  <2>7. ForeignKeys[fk(m - j)][chain[m - j + 1]] = values[m - j]
    BY <2>1, <2>5
  <2> QED
    BY <1>3, <2>5, <2>6, <2>7
<1> QED
  BY <1>1, <1>5, <1>6

\* A URL whose lookups are the chains of its path answers with what is below the
\* objects that it names.
LEMMA ChainsAnswer ==
  ASSUME NEW route, route.tables \in Seq(Table), Len(route.tables) >= 2,
         route.captures = [i \in 1 .. Len(route.tables) - 1 |-> Chain(route.tables, i)]
  PROVE  Answers(route)
<1> DEFINE p == route.tables
           m == Len(p)
<1>1. m \in Nat /\ p \in Seq(Table) /\ m >= 2 /\ DOMAIN route.captures = 1 .. m - 1
  OBVIOUS
<1>2. \A i \in 1 .. m - 1 : route.captures[i] = Chain(p, i)
  OBVIOUS
<1> HIDE DEF p
<1>3. ASSUME NEW i \in 1 .. m - 1
      PROVE  Resolves(Chain(p, i), p[m])
  <2>1. /\ Len(Chain(p, i)) = m - i
        /\ \A j \in 1 .. m - i : Chain(p, i)[j] = <<p[m - j + 1], p[m - j]>>
    BY <1>1, ChainTyped DEF Chain
  <2>2. 1 \in 1 .. m - i /\ m - 1 + 1 = m
    BY <1>1
  <2>3. Chain(p, i)[1][1] = p[m]
    BY <2>1, <2>2
  <2>4. ASSUME NEW j \in 1 .. (m - i) - 1
        PROVE  Chain(p, i)[j + 1][1] = Chain(p, i)[j][2]
    <3>1. j \in 1 .. m - i /\ j + 1 \in 1 .. m - i /\ m - (j + 1) + 1 = m - j
      BY <1>1
    <3> QED
      BY <2>1, <3>1
  <2> QED
    BY <2>1, <2>3, <2>4 DEF Resolves
<1>4. ASSUME NEW values \in [1 .. m - 1 -> Object], NEW o \in Object
      PROVE  o \in Listed(route, values) <=> o \in Below(p, values)
  <2>1. o \in Listed(route, values) <=> \A i \in 1 .. m - 1 : Follow(Chain(p, i), o) = values[i]
    BY <1>1, <1>2 DEF Listed
  <2> DEFINE g == Reached(Chain(p, 1), o)
             chain == Append(values, o)
  <2>2. ASSUME o \in Listed(route, values) \/ o \in Below(p, values)
        PROVE  \A i \in 1 .. m - 1 :
                 /\ g[m - i] = values[i]
                 /\ ForeignKeys[<<p[i + 1], p[i]>>][chain[i + 1]] = values[i]
    <3>1. \A j \in 1 .. m - 1 :
            /\ g[j] = values[m - j]
            /\ ForeignKeys[<<p[m - j + 1], p[m - j]>>][chain[m - j + 1]] = values[m - j]
      BY <1>1, <2>1, <2>2, ReachedIsNamed
    <3> SUFFICES ASSUME NEW i \in 1 .. m - 1
                 PROVE  /\ g[m - i] = values[i]
                        /\ ForeignKeys[<<p[i + 1], p[i]>>][chain[i + 1]] = values[i]
      OBVIOUS
    <3>2. m - i \in 1 .. m - 1 /\ m - (m - i) = i
      BY <1>1
    <3> HIDE DEF g, chain
    <3> QED
      BY <3>1, <3>2
  <2>3. ASSUME o \in Listed(route, values)
        PROVE  o \in Below(p, values)
    BY <2>2, <2>3 DEF Below
  <2>4. ASSUME o \in Below(p, values)
        PROVE  o \in Listed(route, values)
    <3> SUFFICES ASSUME NEW i \in 1 .. m - 1
                 PROVE  Follow(Chain(p, i), o) = values[i]
      BY <2>1
    <3>1. Follow(Chain(p, i), o) = Reached(Chain(p, i), o)[m - i]
      BY <1>1, ChainTyped DEF Follow
    <3>2. m - i \in 0 .. m - i
      BY <1>1
    <3>3. Reached(Chain(p, i), o)[m - i] = g[m - i]
      BY <1>1, <3>2, ChainsAgree
    <3>4. g[m - i] = values[i]
      BY <2>2, <2>4
    <3> QED
      BY <3>1, <3>3, <3>4
  <2> QED
    BY <2>3, <2>4
<1>5. \A values \in [1 .. m - 1 -> Object] : Listed(route, values) = Below(p, values)
  BY <1>4 DEF Listed, Below
<1> QED
  BY <1>1, <1>2, <1>3, <1>5 DEF Answers, p

(***************************************************************************)
(* Nested routes: the invariant. The frames on the stack are those of one   *)
(* path down from the base table. What their loops have still to do is what *)
(* is missing among the routes; and only the loop of a frame that has not   *)
(* turned yet has the lookups of its parents.                              *)
(***************************************************************************)
Column == Table \X Table
FrameType == [items : Seq(Table), todo : Seq(Table), basename : Seq(Table),
              lookups : Seq(Seq(Column))]
RouteType == [tables : Seq(Table), basename : Seq(Table), captures : Seq(Seq(Column))]

NestedTypes ==
  /\ subresources \in Schemas
  /\ stack \in Seq(FrameType)
  /\ nested \subseteq RouteType
  /\ refused \in BOOLEAN

Subs(t) == {subresources[t][j] : j \in DOMAIN subresources[t]}

\* A path from the base table, of one table or more.
Down(p) ==
  /\ p \in Seq(Table)
  /\ Len(p) >= 1
  /\ p[1] = Base
  /\ \A i \in 1 .. Len(p) - 1 : p[i + 1] \in Subs(p[i])

Waiting(k) == {stack[k].todo[j] : j \in DOMAIN stack[k].todo}

\* A path begins with another one.
Begins(p, q) == Len(p) <= Len(q) /\ \A i \in 1 .. Len(p) : p[i] = q[i]

\* A path that leaves the one of the frames for a table that waits.
Pending(p) ==
  \E k \in DOMAIN stack :
    /\ k < Len(p)
    /\ Begins(stack[k].items, p)
    /\ p[k + 1] \in Waiting(k)

FramesOnPath ==
  \A k \in DOMAIN stack :
    /\ Len(stack[k].items) = k
    /\ Down(stack[k].items)
    /\ \A i, j \in DOMAIN stack[k].todo : stack[k].todo[i] = stack[k].todo[j] => i = j
    /\ Waiting(k) \subseteq Subs(stack[k].items[k])
    /\ \A i \in 1 .. k - 1 :
         /\ Begins(stack[i].items, stack[k].items)
         /\ stack[k].items[i + 1] \notin Waiting(i)

RoutesAreRest ==
  /\ IsFiniteSet(nested)
  /\ {r.tables : r \in nested} = {p \in Paths : ~Pending(p)}
  /\ \A r, s \in nested : r.tables = s.tables => r = s
  /\ \A r \in nested :
       Len(r.basename) >= 1 /\ r.basename[Len(r.basename)] = r.tables[Len(r.tables)]

Refusal ==
  refused =>
    /\ stack # <<>>
    /\ \E p, q \in Paths : p # q /\ p[Len(p)] = q[Len(q)]

\* The last lookups of a frame are the chains of its path, one for each table but the last.
LookupsFit(frame) ==
  LET n == Len(frame.items) - 1
  IN  Eldest(frame.items) =>
        \A i \in 1 .. n : frame.lookups[Len(frame.lookups) - n + i] = Chain(frame.items, i)

\* The loop of a frame has passed the first subresource of its table.
Turned(k) == subresources[stack[k].items[k]][1] \notin Waiting(k)

LookupsOfFrames ==
  \A k \in DOMAIN stack :
    /\ Len(stack[k].lookups) >= k - 1
    /\ \/ stack[k].todo = subresources[stack[k].items[k]] /\ LookupsFit(stack[k])
       \/ Turned(k)

CapturesOfRoutes ==
  \A r \in nested :
    Eldest(r.tables) =>
      r.captures = [i \in 1 .. Len(r.tables) - 1 |-> Chain(r.tables, i)]

NestedInv ==
  /\ NestedTypes
  /\ FramesOnPath
  /\ RoutesAreRest
  /\ Refusal
  /\ LookupsOfFrames
  /\ CapturesOfRoutes

LEMMA SchemaTyped ==
  ASSUME subresources \in Schemas
  PROVE  /\ subresources \in [Table -> Seq(Table)]
         /\ \A t \in Table : Subs(t) \subseteq Table
<1>1. subresources \in [Table -> Seq(Table)]
  BY SchemasAssumption
<1>2. \A t \in Table : subresources[t] \in Seq(Table)
  BY <1>1
<1> QED
  BY <1>1, <1>2 DEF Subs

\* As no table is below itself, a path has no more tables than there are.
LEMMA PathsAreDown ==
  ASSUME subresources \in Schemas
  PROVE  \A p : p \in Paths <=> Down(p) /\ Len(p) >= 2
<1> DEFINE C == Cardinality(Table)
<1>1. PICK depth \in [Table -> 1 .. C] :
        \A t \in Table : \A i \in DOMAIN subresources[t] : depth[subresources[t][i]] > depth[t]
  BY SchemasAssumption
<1>2. C \in Nat
  BY SchemasAssumption, FS_CardinalityType
<1>3. ASSUME NEW p, Down(p)
      PROVE  Len(p) <= C
  <2>1. p \in Seq(Table) /\ Len(p) \in Nat /\ Len(p) >= 1
    BY <1>3 DEF Down
  <2> DEFINE T == {n \in Nat : n + 1 <= Len(p) => depth[p[n + 1]] >= n + 1}
  <2>2. 0 \in T
    <3>1. p[1] \in Table
      BY <2>1
    <3> QED
      BY <1>1, <1>2, <3>1
  <2>3. ASSUME NEW n \in Nat, n \in T
        PROVE  n + 1 \in T
    <3> SUFFICES ASSUME n + 2 <= Len(p)
                 PROVE  depth[p[n + 2]] >= n + 2
      OBVIOUS
    <3>1. /\ n + 1 \in 1 .. Len(p) - 1 /\ n + 1 \in 1 .. Len(p) /\ n + 2 \in 1 .. Len(p)
          /\ (n + 1) + 1 = n + 2
      BY <2>1
    <3>2. p[n + 1] \in Table /\ p[n + 2] \in Table
      BY <2>1, <3>1
    <3>3. p[n + 2] \in Subs(p[n + 1])
      BY <1>3, <3>1 DEF Down
    <3>4. depth[p[n + 2]] > depth[p[n + 1]]
      BY <1>1, <3>2, <3>3 DEF Subs
    <3>5. depth[p[n + 1]] >= n + 1
      BY <2>1, <2>3, <3>1
    <3>6. depth[p[n + 1]] \in Int /\ depth[p[n + 2]] \in Int
      BY <1>1, <1>2, <3>2
    <3> QED
      BY <3>4, <3>5, <3>6
  <2>4. \A n \in Nat : n \in T
    <3> HIDE DEF T
    <3> QED
      BY <2>2, <2>3, Induction
  <2>5. depth[p[Len(p)]] >= Len(p)
    <3>1. Len(p) - 1 \in Nat /\ Len(p) - 1 + 1 = Len(p)
      BY <2>1
    <3> QED
      BY <2>4, <3>1
  <2>6. p[Len(p)] \in Table
    BY <2>1
  <2> QED
    BY <1>1, <1>2, <2>1, <2>5, <2>6
<1>4. ASSUME NEW p, p \in Paths
      PROVE  Down(p) /\ Len(p) >= 2
  <2>1. PICK n \in 2 .. C : p \in [1 .. n -> Table]
    BY <1>4 DEF Paths
  <2>2. p \in Seq(Table) /\ Len(p) = n
    BY <2>1
  <2>3. p[1] = Base
    BY <1>4 DEF Paths
  <2>4. \A i \in 1 .. Len(p) - 1 :
          \E j \in DOMAIN subresources[p[i]] : subresources[p[i]][j] = p[i + 1]
    BY <1>4 DEF Paths
  <2>5. \A i \in 1 .. Len(p) - 1 : p[i + 1] \in Subs(p[i])
    BY <2>4 DEF Subs
  <2> QED
    BY <2>1, <2>2, <2>3, <2>5 DEF Down
<1>5. ASSUME NEW p, Down(p), Len(p) >= 2
      PROVE  p \in Paths
  <2>1. p \in Seq(Table) /\ Len(p) \in 2 .. C
    <3>1. p \in Seq(Table) /\ Len(p) \in Nat
      BY <1>5 DEF Down
    <3>2. Len(p) <= C
      BY <1>3, <1>5
    <3> QED
      BY <1>2, <1>5, <3>1, <3>2
  <2>2. p \in [1 .. Len(p) -> Table]
    BY <2>1
  <2>3. p \in UNION {[1 .. n -> Table] : n \in 2 .. C}
    BY <2>1, <2>2
  <2>4. \A i \in 1 .. Len(p) - 1 :
          \E j \in DOMAIN subresources[p[i]] : subresources[p[i]][j] = p[i + 1]
    BY <1>5 DEF Down, Subs
  <2> QED
    BY <1>5, <2>3, <2>4 DEF Paths, Down
<1> QED
  BY <1>4, <1>5

\* At the start all paths wait.
LEMMA InitNested ==
  NestedInit => NestedInv
<1> SUFFICES ASSUME NestedInit
             PROVE  NestedInv
  OBVIOUS
<1>1. /\ subresources \in Schemas /\ nested = {} /\ refused = FALSE
      /\ stack = <<Frame(<<Base>>, <<Base>>, <<>>)>>
  BY DEF NestedInit
<1>2. DOMAIN stack = {1} /\ stack[1] = [items |-> <<Base>>, todo |-> subresources[Base],
                                         basename |-> <<Base>>, lookups |-> <<>>]
  BY <1>1 DEF Frame
<1>3. Base \in Table /\ subresources[Base] \in Seq(Table)
  BY <1>1, SchemaTyped, ForeignKeysAssumption
<1>4. NestedTypes
  <2>1. stack[1] \in FrameType
    BY <1>2, <1>3 DEF FrameType
  <2>2. stack \in Seq(FrameType)
    BY <1>1, <1>2, <2>1
  <2> QED
    BY <1>1, <2>2 DEF NestedTypes
<1>5. Waiting(1) = Subs(Base)
  BY <1>2 DEF Waiting, Subs
<1>6. FramesOnPath
  <2>1. Down(<<Base>>)
    BY <1>3 DEF Down
  <2>2. \A i, j \in DOMAIN subresources[Base] : subresources[Base][i] = subresources[Base][j] => i = j
    BY <1>1, <1>3, SchemasAssumption
  <2> QED
    BY <1>2, <1>5, <2>1, <2>2 DEF FramesOnPath
<1>7. RoutesAreRest
  <2>1. ASSUME NEW p \in Paths
        PROVE  Pending(p)
    <3>1. Down(p) /\ Len(p) >= 2
      BY <1>1, PathsAreDown
    <3>2. p \in Seq(Table) /\ p[1] = Base /\ p[2] \in Subs(p[1])
      BY <3>1 DEF Down
    <3>3. Begins(<<Base>>, p)
      BY <3>1, <3>2 DEF Begins
    <3> QED
      BY <1>2, <1>5, <3>1, <3>2, <3>3 DEF Pending
  <2>2. IsFiniteSet(nested)
    BY <1>1, FS_EmptySet
  <2> QED
    BY <1>1, <2>1, <2>2 DEF RoutesAreRest
<1>8. Refusal /\ CapturesOfRoutes
  BY <1>1 DEF Refusal, CapturesOfRoutes
<1>9. LookupsOfFrames
  <2>1. Len(stack[1].items) = 1 /\ Len(stack[1].lookups) = 0
    BY <1>2
  <2>2. LookupsFit(stack[1])
    BY <2>1 DEF LookupsFit
  <2> QED
    BY <1>2, <2>1, <2>2 DEF LookupsOfFrames
<1> QED
  BY <1>4, <1>6, <1>7, <1>8, <1>9 DEF NestedInv

(***************************************************************************)
(* Nested routes: one turn of a loop.                                       *)
(***************************************************************************)
NewName == Head(Top.todo)
NewPath == Append(Top.items, NewName)
NewBasename == Append(Top.basename, NewName)
NewLookups == Lookups(<<NewName, Top.items[Len(Top.items)]>>, Top.lookups)
NewRoute == [tables |-> NewPath, basename |-> NewBasename,
             captures |-> Captures(Top.items, NewLookups)]

\* The running frame, and what a turn of its loop takes from it.
LEMMA TurnTyped ==
  ASSUME NestedInv, stack # <<>>, Top.todo # <<>>,
         NEW n, n = Len(stack)
  PROVE  /\ n \in Nat /\ n >= 1 /\ DOMAIN stack = 1 .. n /\ Top = stack[n]
         /\ Top \in FrameType /\ Len(Top.items) = n
         /\ NewName \in Table /\ NewName \in Waiting(n) /\ NewName \in Subs(Top.items[n])
         /\ NewPath \in Seq(Table) /\ Len(NewPath) = n + 1 /\ NewPath[n + 1] = NewName
         /\ \A i \in 1 .. n : NewPath[i] = Top.items[i]
         /\ NewBasename \in Seq(Table) /\ Len(NewBasename) >= 1
         /\ NewBasename[Len(NewBasename)] = NewName
<1>1. n \in Nat /\ n >= 1 /\ DOMAIN stack = 1 .. n /\ Top = stack[n] /\ n \in 1 .. n
  BY DEF NestedInv, NestedTypes, Top
<1>2. Top \in FrameType
  BY <1>1 DEF NestedInv, NestedTypes
<1>3. Top.items \in Seq(Table) /\ Top.todo \in Seq(Table) /\ Top.basename \in Seq(Table)
  BY <1>2 DEF FrameType
<1>4. Len(Top.items) = n /\ Waiting(n) \subseteq Subs(Top.items[n])
  BY <1>1 DEF NestedInv, FramesOnPath
<1>5. 1 \in DOMAIN Top.todo /\ NewName = Top.todo[1] /\ NewName \in Table
  BY <1>3 DEF NewName
<1>6. NewName \in Waiting(n)
  BY <1>1, <1>5 DEF Waiting
<1>7. /\ NewPath \in Seq(Table) /\ Len(NewPath) = n + 1 /\ NewPath[n + 1] = NewName
      /\ \A i \in 1 .. n : NewPath[i] = Top.items[i]
  BY <1>1, <1>3, <1>4, <1>5 DEF NewPath
<1>8. /\ NewBasename \in Seq(Table) /\ Len(NewBasename) >= 1
      /\ NewBasename[Len(NewBasename)] = NewName
  BY <1>3, <1>5 DEF NewBasename
<1> QED
  BY <1>1, <1>2, <1>4, <1>5, <1>6, <1>7, <1>8

\* The path of the new route is one of the schema that waited, and has no route yet.
LEMMA NewPathWaits ==
  ASSUME NestedInv, stack # <<>>, Top.todo # <<>>
  PROVE  /\ Down(NewPath) /\ NewPath \in Paths /\ Pending(NewPath)
         /\ \A r \in nested : r.tables # NewPath
<1> DEFINE n == Len(stack)
<1>1. /\ n \in Nat /\ n >= 1 /\ DOMAIN stack = 1 .. n /\ Top = stack[n]
      /\ Top \in FrameType /\ Len(Top.items) = n
      /\ NewName \in Table /\ NewName \in Waiting(n) /\ NewName \in Subs(Top.items[n])
      /\ NewPath \in Seq(Table) /\ Len(NewPath) = n + 1 /\ NewPath[n + 1] = NewName
      /\ \A i \in 1 .. n : NewPath[i] = Top.items[i]
  BY TurnTyped
<1> HIDE DEF n
<1>2. n \in DOMAIN stack /\ n < Len(NewPath) /\ Down(Top.items)
  BY <1>1 DEF NestedInv, FramesOnPath
<1>3. Down(NewPath)
  <2>1. NewPath[1] = Base
    BY <1>1, <1>2 DEF Down
  <2>2. ASSUME NEW i \in 1 .. n
        PROVE  NewPath[i + 1] \in Subs(NewPath[i])
    <3>1. CASE i = n
      BY <1>1, <3>1
    <3>2. CASE i # n
      <4>1. i \in 1 .. n - 1 /\ i + 1 \in 1 .. n
        BY <1>1, <3>2
      <4> QED
        BY <1>1, <1>2, <4>1 DEF Down
    <3> QED
      BY <3>1, <3>2
  <2> QED
    BY <1>1, <2>1, <2>2 DEF Down
<1>4. NewPath \in Paths
  BY <1>1, <1>3, PathsAreDown DEF NestedInv, NestedTypes
<1>5. Pending(NewPath)
  BY <1>1, <1>2 DEF Pending, Begins
<1> QED
  BY <1>3, <1>4, <1>5 DEF NestedInv, RoutesAreRest

\* The lookups grow by one.
LEMMA LookupsTyped ==
  ASSUME NestedInv, stack # <<>>, Top.todo # <<>>,
         NEW n, n = Len(stack), NEW l, l = Len(Top.lookups)
  PROVE  /\ l \in Nat /\ l >= n - 1
         /\ NewLookups \in Seq(Seq(Column)) /\ Len(NewLookups) = l + 1
         /\ NewLookups[l + 1] = <<<<NewName, Top.items[n]>>>>
         /\ \A i \in 1 .. l : NewLookups[i] = <<<<NewName, Top.items[n]>>>> \o Top.lookups[i]
<1> DEFINE field == <<NewName, Top.items[n]>>
           longer == [i \in DOMAIN Top.lookups |-> <<field>> \o Top.lookups[i]]
<1>1. /\ n \in Nat /\ n >= 1 /\ DOMAIN stack = 1 .. n /\ Top = stack[n]
      /\ Top \in FrameType /\ Len(Top.items) = n /\ NewName \in Table
  BY TurnTyped
<1>2. Top.lookups \in Seq(Seq(Column)) /\ Top.items \in Seq(Table)
  BY <1>1 DEF FrameType
<1>3. field \in Column /\ n \in DOMAIN stack
  BY <1>1, <1>2 DEF Column
<1>4. l \in Nat /\ l >= n - 1 /\ DOMAIN Top.lookups = 1 .. l
  BY <1>1, <1>2, <1>3 DEF NestedInv, LookupsOfFrames
<1>5. \A i \in 1 .. l : <<field>> \o Top.lookups[i] \in Seq(Column)
  <2>1. <<field>> \in Seq(Column)
    BY <1>3
  <2>2. \A i \in 1 .. l : Top.lookups[i] \in Seq(Column)
    BY <1>2, <1>4
  <2> HIDE DEF field
  <2> QED
    BY <2>1, <2>2
<1> HIDE DEF field
<1>6. longer \in Seq(Seq(Column)) /\ Len(longer) = l
  BY <1>4, <1>5
<1>7. \A i \in 1 .. l : longer[i] = <<field>> \o Top.lookups[i]
  BY <1>4
<1>8. <<field>> \in Seq(Column)
  BY <1>3
<1>9. NewLookups = Append(longer, <<field>>)
  BY <1>1 DEF NewLookups, Lookups, field
<1> HIDE DEF longer
<1>10. /\ NewLookups \in Seq(Seq(Column)) /\ Len(NewLookups) = l + 1
       /\ NewLookups[l + 1] = <<field>>
       /\ \A i \in 1 .. l : NewLookups[i] = longer[i]
  BY <1>4, <1>6, <1>8, <1>9
<1> QED
  BY <1>4, <1>7, <1>10 DEF field

\* The route that a turn registers, and what it makes of the stack.
LEMMA TurnShape ==
  ASSUME NestedInv, RegisterSubresource, ~refused',
         NEW n, n = Len(stack)
  PROVE  /\ stack # <<>> /\ Top.todo # <<>>
         /\ NewRoute \in RouteType
         /\ nested' = nested \cup {NewRoute} /\ UNCHANGED <<subresources, refused>>
         /\ stack' \in Seq(FrameType) /\ DOMAIN stack' = 1 .. n + 1
         /\ \A k \in 1 .. n - 1 : stack'[k] = stack[k]
         /\ stack'[n].items = Top.items /\ stack'[n].todo = Tail(Top.todo)
         /\ stack'[n + 1].items = NewPath /\ stack'[n + 1].todo = subresources[NewName]
         /\ stack'[n].lookups = NewLookups /\ stack'[n + 1].lookups = NewLookups
<1> DEFINE rest == [items |-> Top.items, todo |-> Tail(Top.todo),
                    basename |-> NewBasename, lookups |-> NewLookups]
           deeper == [items |-> NewPath, todo |-> subresources[NewName],
                      basename |-> NewBasename, lookups |-> NewLookups]
<1>1. stack # <<>> /\ Top.todo # <<>>
  BY DEF RegisterSubresource
<1>2. /\ n \in Nat /\ n >= 1 /\ DOMAIN stack = 1 .. n /\ Top = stack[n]
      /\ Top \in FrameType /\ Len(Top.items) = n /\ NewName \in Table
      /\ NewPath \in Seq(Table) /\ Len(NewPath) = n + 1 /\ NewPath[n + 1] = NewName
      /\ NewBasename \in Seq(Table)
  BY <1>1, TurnTyped
<1>3. /\ NewLookups \in Seq(Seq(Column)) /\ Len(NewLookups) = Len(Top.lookups) + 1
      /\ Len(Top.lookups) \in Nat /\ Len(Top.lookups) >= n - 1
  BY <1>1, LookupsTyped
<1>4. rest \in FrameType
  <2>1. Top.items \in Seq(Table) /\ Tail(Top.todo) \in Seq(Table)
    BY <1>1, <1>2 DEF FrameType
  <2> QED
    BY <1>2, <1>3, <2>1 DEF FrameType
<1>5. deeper \in FrameType
  <2>1. subresources[NewName] \in Seq(Table)
    BY <1>2, SchemaTyped DEF NestedInv, NestedTypes
  <2> QED
    BY <1>2, <1>3, <2>1 DEF FrameType
<1>6. NewRoute \in RouteType
  <2>1. Top.items \in Seq(Table) /\ DOMAIN Top.items = 1 .. n
    BY <1>2 DEF FrameType
  <2>2. \A i \in 1 .. n : NewLookups[Len(NewLookups) - n + i] \in Seq(Column)
    <3> SUFFICES ASSUME NEW i \in 1 .. n
                 PROVE  NewLookups[Len(NewLookups) - n + i] \in Seq(Column)
      OBVIOUS
    <3>1. Len(NewLookups) - n + i \in 1 .. Len(NewLookups)
      BY <1>2, <1>3
    <3> QED
      BY <1>3, <3>1
  <2>3. Captures(Top.items, NewLookups) \in Seq(Seq(Column))
    BY <1>2, <2>1, <2>2 DEF Captures
  <2> QED
    BY <1>2, <2>3 DEF NewRoute, RouteType
<1>7. /\ nested' = nested \cup {NewRoute} /\ UNCHANGED <<subresources, refused>>
      /\ stack' = [stack EXCEPT ![n] = rest] \o <<deeper>>
  <2>1. Frame(NewPath, NewBasename, NewLookups) = deeper
    BY <1>2 DEF Frame
  <2>2. /\ nested' = nested \cup {NewRoute} /\ UNCHANGED <<subresources, refused>>
        /\ stack' = [stack EXCEPT ![n] = rest] \o <<Frame(NewPath, NewBasename, NewLookups)>>
    BY DEF RegisterSubresource, NewRoute, NewPath, NewBasename, NewLookups, NewName
  <2> QED
    BY <2>1, <2>2
<1> HIDE DEF rest, deeper
<1>8. /\ [stack EXCEPT ![n] = rest] \in Seq(FrameType) /\ Len([stack EXCEPT ![n] = rest]) = n
      /\ \A k \in 1 .. n : [stack EXCEPT ![n] = rest][k] = IF k = n THEN rest ELSE stack[k]
  BY <1>2, <1>4 DEF NestedInv, NestedTypes
<1>9. /\ stack' \in Seq(FrameType) /\ Len(stack') = n + 1 /\ DOMAIN stack' = 1 .. n + 1
      /\ \A k \in 1 .. n : stack'[k] = [stack EXCEPT ![n] = rest][k]
      /\ stack'[n + 1] = deeper
  BY <1>2, <1>5, <1>7, <1>8
<1>10. stack'[n] = rest /\ \A k \in 1 .. n - 1 : stack'[k] = stack[k]
  <2>1. n \in 1 .. n /\ \A k \in 1 .. n - 1 : k \in 1 .. n /\ k # n
    BY <1>2
  <2>2. \A k \in 1 .. n : stack'[k] = IF k = n THEN rest ELSE stack[k]
    BY <1>8, <1>9
  <2> QED
    BY <2>1, <2>2
<1>11. /\ rest.items = Top.items /\ rest.todo = Tail(Top.todo) /\ rest.lookups = NewLookups
       /\ deeper.items = NewPath /\ deeper.todo = subresources[NewName]
       /\ deeper.lookups = NewLookups
  BY DEF rest, deeper
<1> QED
  BY <1>1, <1>6, <1>7, <1>9, <1>10, <1>11

\* What waits after a turn: one table less in the frame, and all below that table.
LEMMA TurnWaiting ==
  ASSUME NestedInv, RegisterSubresource, ~refused',
         NEW n, n = Len(stack)
  PROVE  /\ \A k \in 1 .. n - 1 : Waiting(k)' = Waiting(k)
         /\ Waiting(n)' = Waiting(n) \ {NewName}
         /\ Waiting(n + 1)' = Subs(NewName)
         /\ \A i, j \in DOMAIN stack'[n].todo : stack'[n].todo[i] = stack'[n].todo[j] => i = j
<1> DEFINE todo == Top.todo
<1>1. /\ stack # <<>> /\ todo # <<>>
      /\ \A k \in 1 .. n - 1 : stack'[k] = stack[k]
      /\ stack'[n].todo = Tail(todo) /\ stack'[n + 1].todo = subresources[NewName]
  BY TurnShape
<1>2. /\ n \in Nat /\ n >= 1 /\ DOMAIN stack = 1 .. n /\ Top = stack[n] /\ n \in 1 .. n
      /\ todo \in Seq(Table)
  BY <1>1, TurnTyped DEF FrameType
<1>3. \A i, j \in DOMAIN todo : todo[i] = todo[j] => i = j
  BY <1>2 DEF NestedInv, FramesOnPath
<1>4. NewName = todo[1] /\ Waiting(n) = {todo[j] : j \in DOMAIN todo}
  BY <1>1, <1>2 DEF NewName, Waiting
<1> HIDE DEF todo
<1> DEFINE l == Len(todo)
<1>5. l \in Nat /\ l >= 1 /\ DOMAIN todo = 1 .. l
  BY <1>1, <1>2
<1>6. /\ DOMAIN Tail(todo) = 1 .. l - 1
      /\ \A j \in 1 .. l - 1 : Tail(todo)[j] = todo[j + 1]
  BY <1>1, <1>2, <1>5
<1>7. \A k \in 1 .. n - 1 : Waiting(k)' = Waiting(k)
  BY <1>1 DEF Waiting
<1>8. Waiting(n + 1)' = Subs(NewName)
  BY <1>1 DEF Waiting, Subs
<1>9. Waiting(n)' = {Tail(todo)[j] : j \in 1 .. l - 1}
  BY <1>1, <1>6 DEF Waiting
<1>10. Waiting(n)' = Waiting(n) \ {NewName}
  <2>1. ASSUME NEW j \in 1 .. l - 1
        PROVE  Tail(todo)[j] \in Waiting(n) \ {NewName}
    <3>1. j + 1 \in DOMAIN todo /\ 1 \in DOMAIN todo /\ j + 1 # 1
      BY <1>5
    <3> QED
      BY <1>3, <1>4, <1>6, <3>1
  <2>2. ASSUME NEW j \in DOMAIN todo, todo[j] # NewName
        PROVE  \E i \in 1 .. l - 1 : Tail(todo)[i] = todo[j]
    <3>1. j # 1 /\ j - 1 \in 1 .. l - 1 /\ (j - 1) + 1 = j
      BY <1>4, <1>5, <2>2
    <3>2. Tail(todo)[j - 1] = todo[j]
      BY <1>6, <3>1
    <3> QED
      BY <3>1, <3>2
  <2>3. \A t \in Waiting(n)' : t \in Waiting(n) \ {NewName}
    BY <1>9, <2>1
  <2>4. \A t \in Waiting(n) \ {NewName} : t \in Waiting(n)'
    <3> SUFFICES ASSUME NEW j \in DOMAIN todo, todo[j] # NewName
                 PROVE  todo[j] \in Waiting(n)'
      BY <1>4
    <3>1. PICK i \in 1 .. l - 1 : Tail(todo)[i] = todo[j]
      BY <2>2
    <3> QED
      BY <1>9, <3>1
  <2> QED
    BY <2>3, <2>4
<1>11. \A i, j \in DOMAIN Tail(todo) : Tail(todo)[i] = Tail(todo)[j] => i = j
  <2> SUFFICES ASSUME NEW i \in 1 .. l - 1, NEW j \in 1 .. l - 1, Tail(todo)[i] = Tail(todo)[j]
               PROVE  i = j
    BY <1>6
  <2>1. i + 1 \in DOMAIN todo /\ j + 1 \in DOMAIN todo
    BY <1>5
  <2>2. i + 1 = j + 1
    BY <1>3, <1>6, <2>1
  <2> QED
    BY <1>5, <2>2
<1> QED
  BY <1>1, <1>7, <1>8, <1>10, <1>11

LEMMA TurnKeepsFrames ==
  ASSUME NestedInv, RegisterSubresource, ~refused'
  PROVE  FramesOnPath'
<1>0. PICK n : n = Len(stack)
  OBVIOUS
<1>1. /\ stack # <<>> /\ Top.todo # <<>> /\ UNCHANGED subresources
      /\ DOMAIN stack' = 1 .. n + 1
      /\ \A k \in 1 .. n - 1 : stack'[k] = stack[k]
      /\ stack'[n].items = Top.items
      /\ stack'[n + 1].items = NewPath /\ stack'[n + 1].todo = subresources[NewName]
  BY <1>0, TurnShape
<1>2. /\ n \in Nat /\ n >= 1 /\ DOMAIN stack = 1 .. n /\ Top = stack[n] /\ n \in DOMAIN stack
      /\ Len(Top.items) = n
      /\ NewName \in Table
      /\ NewPath \in Seq(Table) /\ Len(NewPath) = n + 1 /\ NewPath[n + 1] = NewName
      /\ \A i \in 1 .. n : NewPath[i] = Top.items[i]
  BY <1>0, <1>1, TurnTyped
<1>3. /\ \A k \in 1 .. n - 1 : Waiting(k)' = Waiting(k)
      /\ Waiting(n)' = Waiting(n) \ {NewName}
      /\ Waiting(n + 1)' = Subs(NewName)
      /\ \A i, j \in DOMAIN stack'[n].todo : stack'[n].todo[i] = stack'[n].todo[j] => i = j
  BY <1>0, TurnWaiting
<1>4. Down(NewPath)
  BY <1>1, NewPathWaits
<1>5. \A p : Down(p)' <=> Down(p)
  BY <1>1 DEF Down, Subs
<1>6. \A t : Subs(t)' = Subs(t)
  BY <1>1 DEF Subs
<1>7. \A k \in 1 .. n : stack'[k].items = stack[k].items /\ Waiting(k)' \subseteq Waiting(k)
  <2> SUFFICES ASSUME NEW k \in 1 .. n
               PROVE  stack'[k].items = stack[k].items /\ Waiting(k)' \subseteq Waiting(k)
    OBVIOUS
  <2>1. CASE k = n
    BY <1>1, <1>2, <1>3, <2>1
  <2>2. CASE k \in 1 .. n - 1
    BY <1>1, <1>3, <2>2
  <2> QED
    BY <1>2, <2>1, <2>2
<1>8. \A k \in 1 .. n :
        /\ Len(stack[k].items) = k
        /\ Down(stack[k].items)
        /\ \A i, j \in DOMAIN stack[k].todo : stack[k].todo[i] = stack[k].todo[j] => i = j
        /\ Waiting(k) \subseteq Subs(stack[k].items[k])
        /\ \A i \in 1 .. k - 1 :
             /\ Begins(stack[i].items, stack[k].items)
             /\ stack[k].items[i + 1] \notin Waiting(i)
  BY <1>2 DEF NestedInv, FramesOnPath
<1>9. ASSUME NEW k \in 1 .. n
      PROVE  /\ Len(stack'[k].items) = k
             /\ Down(stack'[k].items)
             /\ \A i, j \in DOMAIN stack'[k].todo : stack'[k].todo[i] = stack'[k].todo[j] => i = j
             /\ Waiting(k)' \subseteq Subs(stack'[k].items[k])
             /\ \A i \in 1 .. k - 1 :
                  /\ Begins(stack'[i].items, stack'[k].items)
                  /\ stack'[k].items[i + 1] \notin Waiting(i)'
  <2>1. /\ Len(stack'[k].items) = k
        /\ Down(stack'[k].items)
        /\ Waiting(k)' \subseteq Subs(stack'[k].items[k])
    BY <1>7, <1>8
  <2>2. \A i, j \in DOMAIN stack'[k].todo : stack'[k].todo[i] = stack'[k].todo[j] => i = j
    <3>1. CASE k = n
      BY <1>3, <3>1
    <3>2. CASE k \in 1 .. n - 1
      BY <1>1, <1>8, <3>2
    <3> QED
      BY <1>2, <3>1, <3>2
  <2>3. ASSUME NEW i \in 1 .. k - 1
        PROVE  /\ Begins(stack'[i].items, stack'[k].items)
               /\ stack'[k].items[i + 1] \notin Waiting(i)'
    <3>1. i \in 1 .. n
      BY <1>2
    <3> QED
      BY <1>7, <1>8, <3>1
  <2> QED
    BY <2>1, <2>2, <2>3
<1>10. /\ Len(stack'[n + 1].items) = n + 1
       /\ Down(stack'[n + 1].items)
       /\ \A i, j \in DOMAIN stack'[n + 1].todo : stack'[n + 1].todo[i] = stack'[n + 1].todo[j] => i = j
       /\ Waiting(n + 1)' \subseteq Subs(stack'[n + 1].items[n + 1])
  <2>1. \A i, j \in DOMAIN subresources[NewName] :
          subresources[NewName][i] = subresources[NewName][j] => i = j
    BY <1>2, SchemasAssumption DEF NestedInv, NestedTypes
  <2> QED
    BY <1>1, <1>2, <1>3, <1>4, <2>1
<1>11. ASSUME NEW i \in 1 .. n
       PROVE  /\ Begins(stack'[i].items, stack'[n + 1].items)
              /\ stack'[n + 1].items[i + 1] \notin Waiting(i)'
  <2>1. Begins(stack[i].items, Top.items) /\ Len(stack[i].items) = i
    <3>1. CASE i = n
      BY <1>2, <1>8, <3>1 DEF Begins
    <3>2. CASE i \in 1 .. n - 1
      BY <1>2, <1>8, <3>2
    <3> QED
      BY <1>2, <3>1, <3>2
  <2>2. Begins(stack'[i].items, stack'[n + 1].items)
    BY <1>1, <1>2, <1>7, <2>1 DEF Begins
  <2>3. stack'[n + 1].items[i + 1] \notin Waiting(i)'
    <3>1. CASE i = n
      BY <1>1, <1>2, <1>3, <3>1
    <3>2. CASE i \in 1 .. n - 1
      <4>1. i + 1 \in 1 .. n
        BY <1>2, <3>2
      <4> QED
        BY <1>1, <1>2, <1>3, <1>8, <3>2, <4>1
    <3> QED
      BY <1>2, <3>1, <3>2
  <2> QED
    BY <2>2, <2>3
<1> QED
  <2> SUFFICES ASSUME NEW k \in 1 .. n + 1
               PROVE  /\ Len(stack'[k].items) = k
                      /\ Down(stack'[k].items)
                      /\ \A i, j \in DOMAIN stack'[k].todo :
                           stack'[k].todo[i] = stack'[k].todo[j] => i = j
                      /\ Waiting(k)' \subseteq Subs(stack'[k].items[k])
                      /\ \A i \in 1 .. k - 1 :
                           /\ Begins(stack'[i].items, stack'[k].items)
                           /\ stack'[k].items[i + 1] \notin Waiting(i)'
    BY <1>1, <1>5, <1>6 DEF FramesOnPath, Begins
  <2>1. CASE k \in 1 .. n
    BY <1>9, <2>1
  <2>2. CASE k = n + 1
    BY <1>2, <1>10, <1>11, <2>2
  <2> QED
    BY <1>2, <2>1, <2>2

\* A turn takes one path from those that wait, the one of its route.
LEMMA TurnTakesPath ==
  ASSUME NestedInv, RegisterSubresource, ~refused', NEW p, Down(p)
  PROVE  Pending(p)' <=> Pending(p) /\ p # NewPath
<1>0. PICK n : n = Len(stack)
  OBVIOUS
<1>1. /\ stack # <<>> /\ Top.todo # <<>>
      /\ DOMAIN stack' = 1 .. n + 1
      /\ \A k \in 1 .. n - 1 : stack'[k] = stack[k]
      /\ stack'[n].items = Top.items
      /\ stack'[n + 1].items = NewPath
  BY <1>0, TurnShape
<1>2. /\ n \in Nat /\ n >= 1 /\ DOMAIN stack = 1 .. n /\ Top = stack[n] /\ n \in DOMAIN stack
      /\ Len(Top.items) = n
      /\ NewName \in Waiting(n)
      /\ NewPath \in Seq(Table) /\ Len(NewPath) = n + 1 /\ NewPath[n + 1] = NewName
      /\ \A i \in 1 .. n : NewPath[i] = Top.items[i]
  BY <1>0, <1>1, TurnTyped
<1>3. /\ \A k \in 1 .. n - 1 : Waiting(k)' = Waiting(k)
      /\ Waiting(n)' = Waiting(n) \ {NewName}
      /\ Waiting(n + 1)' = Subs(NewName)
  BY <1>0, TurnWaiting
<1>4. p \in Seq(Table) /\ Len(p) \in Nat
  BY DEF Down
<1>5. \A k \in 1 .. n - 1 : k + 1 \in 1 .. n /\ Top.items[k + 1] \notin Waiting(k)
  BY <1>2 DEF NestedInv, FramesOnPath
<1>6. ASSUME Pending(p)'
      PROVE  Pending(p) /\ p # NewPath
  <2>1. PICK k \in 1 .. n + 1 :
          k < Len(p) /\ Begins(stack'[k].items, p) /\ p[k + 1] \in Waiting(k)'
    BY <1>1, <1>6 DEF Pending, Begins
  <2>2. CASE k \in 1 .. n - 1
    <3>1. Pending(p)
      BY <1>1, <1>2, <1>3, <2>1, <2>2 DEF Pending
    <3>2. p # NewPath
      BY <1>2, <1>3, <1>5, <2>1, <2>2
    <3> QED
      BY <3>1, <3>2
  <2>3. CASE k = n
    <3>1. Pending(p)
      BY <1>1, <1>2, <1>3, <2>1, <2>3 DEF Pending
    <3>2. p # NewPath
      BY <1>2, <1>3, <2>1, <2>3
    <3> QED
      BY <3>1, <3>2
  <2>4. CASE k = n + 1
    <3>1. p # NewPath
      BY <1>2, <2>1, <2>4
    <3>2. \A i \in 1 .. n + 1 : NewPath[i] = p[i]
      BY <1>1, <1>2, <2>1, <2>4 DEF Begins
    <3>3. Begins(Top.items, p) /\ p[n + 1] = NewName /\ n < Len(p)
      BY <1>2, <1>4, <2>1, <2>4, <3>2 DEF Begins
    <3> QED
      BY <1>2, <3>1, <3>3 DEF Pending
  <2> QED
    BY <1>2, <2>2, <2>3, <2>4
<1>7. ASSUME Pending(p), p # NewPath
      PROVE  Pending(p)'
  <2>1. PICK k \in 1 .. n :
          k < Len(p) /\ Begins(stack[k].items, p) /\ p[k + 1] \in Waiting(k)
    BY <1>2, <1>7 DEF Pending
  <2>2. SUFFICES \E i \in 1 .. n + 1 :
                   i < Len(p) /\ Begins(stack'[i].items, p) /\ p[i + 1] \in Waiting(i)'
    BY <1>1 DEF Pending, Begins
  <2>3. CASE k \in 1 .. n - 1
    <3>1. k \in 1 .. n + 1
      BY <1>2, <2>3
    <3> QED
      BY <1>1, <1>3, <2>1, <2>3, <3>1
  <2>4. CASE k = n /\ p[n + 1] # NewName
    <3>1. n \in 1 .. n + 1
      BY <1>2
    <3> QED
      BY <1>1, <1>2, <1>3, <2>1, <2>4, <3>1
  <2>5. CASE k = n /\ p[n + 1] = NewName
    <3>1. \A i \in 1 .. n + 1 : NewPath[i] = p[i]
      BY <1>2, <2>1, <2>5 DEF Begins
    <3>2. Len(p) > n + 1
      <4>1. Len(p) # n + 1
        <5> SUFFICES ASSUME Len(p) = n + 1
                     PROVE  p = NewPath
          BY <1>7
        <5> QED
          BY <1>2, <1>4, <3>1, SeqEqual
      <4> QED
        BY <1>2, <1>4, <2>1, <2>5, <4>1
    <3>3. n + 1 \in 1 .. Len(p) - 1
      BY <1>2, <1>4, <3>2
    <3>4. p[(n + 1) + 1] \in Subs(NewName)
      BY <2>5, <3>3 DEF Down
    <3>5. Begins(NewPath, p)
      BY <1>2, <3>1, <3>2 DEF Begins
    <3>6. n + 1 \in 1 .. n + 1
      BY <1>2
    <3> QED
      BY <1>1, <1>3, <3>2, <3>4, <3>5, <3>6
  <2> QED
    BY <1>2, <2>1, <2>3, <2>4, <2>5
<1> QED
  BY <1>6, <1>7

LEMMA TurnKeepsRoutes ==
  ASSUME NestedInv, RegisterSubresource, ~refused'
  PROVE  NestedTypes' /\ RoutesAreRest' /\ Refusal'
<1>0. PICK n : n = Len(stack)
  OBVIOUS
<1>1. /\ stack # <<>> /\ Top.todo # <<>>
      /\ NewRoute \in RouteType
      /\ nested' = nested \cup {NewRoute} /\ UNCHANGED <<subresources, refused>>
      /\ stack' \in Seq(FrameType)
  BY <1>0, TurnShape
<1>2. /\ Down(NewPath) /\ NewPath \in Paths /\ Pending(NewPath)
      /\ \A r \in nested : r.tables # NewPath
  BY <1>1, NewPathWaits
<1>3. NestedTypes'
  BY <1>1 DEF NestedInv, NestedTypes
<1>4. NewRoute.tables = NewPath /\ NewRoute.basename = NewBasename
  BY DEF NewRoute
<1>5. Paths' = Paths
  BY <1>1 DEF Paths
<1>6. \A p \in Paths : Pending(p)' <=> Pending(p) /\ p # NewPath
  BY TurnTakesPath, PathsAreDown DEF NestedInv, NestedTypes
<1>7. {r.tables : r \in nested} = {p \in Paths : ~Pending(p)}
  BY DEF NestedInv, RoutesAreRest
<1>8. {r.tables : r \in nested'} = {p \in Paths' : ~Pending(p)'}
  <2>1. {r.tables : r \in nested'} = {r.tables : r \in nested} \cup {NewPath}
    BY <1>1, <1>4
  <2>2. {p \in Paths : ~Pending(p)'} = {p \in Paths : ~Pending(p)} \cup {NewPath}
    BY <1>2, <1>6
  <2> QED
    BY <1>5, <1>7, <2>1, <2>2
<1>9. IsFiniteSet(nested')
  BY <1>1, FS_AddElement DEF NestedInv, RoutesAreRest
<1>10. \A r, s \in nested' : r.tables = s.tables => r = s
  BY <1>1, <1>2, <1>4 DEF NestedInv, RoutesAreRest
<1>11. \A r \in nested' :
         Len(r.basename) >= 1 /\ r.basename[Len(r.basename)] = r.tables[Len(r.tables)]
  <2>1. /\ Len(NewBasename) >= 1 /\ NewBasename[Len(NewBasename)] = NewName
        /\ NewPath[Len(NewPath)] = NewName
    BY <1>0, <1>1, TurnTyped
  <2> QED
    BY <1>1, <1>4, <2>1 DEF NestedInv, RoutesAreRest
<1>12. RoutesAreRest'
  BY <1>8, <1>9, <1>10, <1>11 DEF RoutesAreRest
<1> QED
  BY <1>3, <1>12 DEF Refusal

\* A path of first subresources has the chains for lookups.
LEMMA NewLookupsFit ==
  ASSUME NestedInv, stack # <<>>, Top.todo # <<>>, Eldest(NewPath),
         NEW n, n = Len(stack), NEW i \in 1 .. n
  PROVE  NewLookups[Len(NewLookups) - n + i] = Chain(NewPath, i)
<1>1. PICK l : l = Len(Top.lookups)
  OBVIOUS
<1>2. /\ n \in Nat /\ n >= 1 /\ DOMAIN stack = 1 .. n /\ Top = stack[n] /\ n \in DOMAIN stack
      /\ Top \in FrameType /\ Len(Top.items) = n /\ Top.items \in Seq(Table)
      /\ NewName \in Table /\ NewName \in Waiting(n)
      /\ NewPath \in Seq(Table) /\ Len(NewPath) = n + 1 /\ NewPath[n + 1] = NewName
      /\ \A j \in 1 .. n : NewPath[j] = Top.items[j]
  BY TurnTyped DEF FrameType
<1>3. /\ l \in Nat /\ l >= n - 1
      /\ Len(NewLookups) = l + 1
      /\ NewLookups[l + 1] = <<<<NewName, Top.items[n]>>>>
      /\ \A j \in 1 .. l : NewLookups[j] = <<<<NewName, Top.items[n]>>>> \o Top.lookups[j]
  BY <1>1, LookupsTyped
<1>4. i \in 1 .. Len(NewPath) - 1
  BY <1>2
<1>5. /\ Chain(NewPath, i) \in Seq(Table \X Table)
      /\ Len(Chain(NewPath, i)) = n + 1 - i
      /\ \A j \in 1 .. n + 1 - i : Chain(NewPath, i)[j] = <<NewPath[n + 1 - j + 1], NewPath[n + 1 - j]>>
  BY <1>2, <1>4, ChainTyped DEF Chain
<1>6. CASE i = n
  <2>1. Len(NewLookups) - n + i = l + 1
    BY <1>2, <1>3, <1>6
  <2>2. Chain(NewPath, i) = <<<<NewName, Top.items[n]>>>>
    <3>1. /\ n + 1 - i = 1 /\ 1 \in 1 .. n + 1 - i /\ n \in 1 .. n
          /\ n + 1 - 1 + 1 = n + 1 /\ n + 1 - 1 = n
      BY <1>2, <1>6
    <3>2. Chain(NewPath, i)[1] = <<NewPath[n + 1 - 1 + 1], NewPath[n + 1 - 1]>>
      BY <1>5, <3>1
    <3>3. NewPath[n + 1 - 1 + 1] = NewName /\ NewPath[n + 1 - 1] = Top.items[n]
      BY <1>2, <3>1
    <3>4. Chain(NewPath, i)[1] = <<NewName, Top.items[n]>> /\ Len(Chain(NewPath, i)) = 1
      BY <1>5, <3>1, <3>2, <3>3
    <3> QED
      BY <1>5, <3>4
  <2> QED
    BY <1>3, <2>1, <2>2
<1>7. CASE i # n
  <2>1. i \in 1 .. n - 1 /\ n >= 2
    BY <1>2, <1>7
  <2>2. Down(Top.items)
    BY <1>2 DEF NestedInv, FramesOnPath
  <2>3. Eldest(Top.items)
    <3> SUFFICES ASSUME NEW j \in 2 .. n - 1
                 PROVE  subresources[Top.items[j]][1] = Top.items[j + 1]
      BY <1>2 DEF Eldest
    <3>1. j \in 2 .. Len(NewPath) - 1 /\ j \in 1 .. n /\ j + 1 \in 1 .. n
      BY <1>2
    <3> QED
      BY <1>2, <3>1 DEF Eldest
  <2>4. subresources[Top.items[n]][1] = NewName
    <3>1. n \in 2 .. Len(NewPath) - 1 /\ n \in 1 .. n
      BY <1>2, <2>1
    <3> QED
      BY <1>2, <3>1 DEF Eldest
  <2>5. LookupsFit(Top)
    BY <1>2, <2>4 DEF NestedInv, LookupsOfFrames, Turned
  <2>6. Top.lookups[l - (n - 1) + i] = Chain(Top.items, i)
    BY <1>1, <1>2, <2>1, <2>3, <2>5 DEF LookupsFit
  <2>7. /\ Len(NewLookups) - n + i = l - (n - 1) + i
        /\ l - (n - 1) + i \in 1 .. l
    BY <1>2, <1>3, <2>1
  <2>8. NewLookups[Len(NewLookups) - n + i] = <<<<NewName, Top.items[n]>>>> \o Chain(Top.items, i)
    BY <1>3, <2>6, <2>7
  <2>9. /\ Chain(Top.items, i) \in Seq(Table \X Table)
        /\ Len(Chain(Top.items, i)) = n - i
        /\ \A j \in 1 .. n - i : Chain(Top.items, i)[j] = <<Top.items[n - j + 1], Top.items[n - j]>>
    BY <1>2, <2>1, ChainTyped DEF Chain
  <2> DEFINE field == <<NewName, Top.items[n]>>
             long == <<field>> \o Chain(Top.items, i)
  <2>10. field \in Table \X Table
    BY <1>2
  <2>11. /\ long \in Seq(Table \X Table) /\ Len(long) = n + 1 - i
         /\ long[1] = field
         /\ \A j \in 2 .. n + 1 - i : long[j] = Chain(Top.items, i)[j - 1]
    <3> HIDE DEF field
    <3> QED
      BY <1>2, <2>1, <2>9, <2>10
  <2>12. ASSUME NEW j \in 1 .. n + 1 - i
         PROVE  long[j] = Chain(NewPath, i)[j]
    <3>1. CASE j = 1
      <4>1. n + 1 - j + 1 = n + 1 /\ n + 1 - j = n /\ n \in 1 .. n
        BY <1>2, <3>1
      <4>2. NewPath[n + 1 - j + 1] = NewName /\ NewPath[n + 1 - j] = Top.items[n]
        BY <1>2, <4>1
      <4>3. Chain(NewPath, i)[j] = <<NewPath[n + 1 - j + 1], NewPath[n + 1 - j]>>
        BY <1>5
      <4>4. long[j] = field
        BY <2>11, <3>1
      <4> QED
        BY <4>2, <4>3, <4>4
    <3>2. CASE j # 1
      <4>1. /\ j \in 2 .. n + 1 - i /\ j - 1 \in 1 .. n - i
            /\ n - (j - 1) + 1 = n + 1 - j + 1 /\ n - (j - 1) = n + 1 - j
            /\ n + 1 - j + 1 \in 1 .. n /\ n + 1 - j \in 1 .. n
        BY <1>2, <2>1, <3>2
      <4>2. long[j] = <<Top.items[n + 1 - j + 1], Top.items[n + 1 - j]>>
        <5> HIDE DEF long
        <5> QED
          BY <2>9, <2>11, <4>1
      <4> QED
        BY <1>2, <1>5, <4>1, <4>2
    <3> QED
      BY <3>1, <3>2
  <2>13. long = Chain(NewPath, i)
    <3> HIDE DEF long
    <3>1. Len(long) = Len(Chain(NewPath, i)) /\ \A j \in 1 .. Len(long) : long[j] = Chain(NewPath, i)[j]
      BY <1>5, <2>11, <2>12
    <3> QED
      BY <1>5, <2>11, <3>1, SeqEqual
  <2> QED
    BY <2>8, <2>13
<1> QED
  BY <1>6, <1>7

LEMMA TurnKeepsLookups ==
  ASSUME NestedInv, RegisterSubresource, ~refused'
  PROVE  LookupsOfFrames' /\ CapturesOfRoutes'
<1>0. PICK n : n = Len(stack)
  OBVIOUS
<1>1. /\ stack # <<>> /\ Top.todo # <<>>
      /\ nested' = nested \cup {NewRoute} /\ UNCHANGED subresources
      /\ DOMAIN stack' = 1 .. n + 1
      /\ \A k \in 1 .. n - 1 : stack'[k] = stack[k]
      /\ stack'[n].items = Top.items
      /\ stack'[n + 1].items = NewPath /\ stack'[n + 1].todo = subresources[NewName]
      /\ stack'[n].lookups = NewLookups /\ stack'[n + 1].lookups = NewLookups
  BY <1>0, TurnShape
<1>2. /\ n \in Nat /\ n >= 1 /\ DOMAIN stack = 1 .. n /\ Top = stack[n] /\ n \in DOMAIN stack
      /\ Len(Top.items) = n /\ DOMAIN Top.items = 1 .. n /\ Top.todo \in Seq(Table)
      /\ NewPath \in Seq(Table) /\ Len(NewPath) = n + 1 /\ NewPath[n + 1] = NewName
  BY <1>0, <1>1, TurnTyped DEF FrameType
<1>3. /\ \A k \in 1 .. n - 1 : Waiting(k)' = Waiting(k)
      /\ Waiting(n)' = Waiting(n) \ {NewName}
  BY <1>0, TurnWaiting
<1>4. Len(NewLookups) \in Nat /\ Len(NewLookups) >= n
  <2>1. PICK l : l = Len(Top.lookups)
    OBVIOUS
  <2>2. l \in Nat /\ l >= n - 1 /\ Len(NewLookups) = l + 1
    BY <1>0, <1>1, <2>1, LookupsTyped
  <2> QED
    BY <1>2, <2>2
<1>5. Eldest(NewPath) => \A i \in 1 .. n : NewLookups[Len(NewLookups) - n + i] = Chain(NewPath, i)
  BY <1>0, <1>1, NewLookupsFit
<1>6. \A p : Eldest(p)' <=> Eldest(p)
  BY <1>1 DEF Eldest
<1>7. \A f : LookupsFit(f)' <=> LookupsFit(f)
  BY <1>6 DEF LookupsFit
<1>8. ASSUME NEW k \in 1 .. n + 1
      PROVE  /\ Len(stack'[k].lookups) >= k - 1
             /\ \/ stack'[k].todo = subresources[stack'[k].items[k]] /\ LookupsFit(stack'[k])
                \/ Turned(k)'
  <2>1. CASE k \in 1 .. n - 1
    <3>1. stack'[k] = stack[k] /\ k \in DOMAIN stack /\ Turned(k)' = Turned(k)
      BY <1>1, <1>2, <1>3, <2>1 DEF Turned
    <3> QED
      BY <3>1 DEF NestedInv, LookupsOfFrames
  <2>2. CASE k = n
    <3>1. Turned(n)' <=> subresources[Top.items[n]][1] \notin Waiting(n) \ {NewName}
      BY <1>1, <1>3 DEF Turned
    <3>2. Turned(n) \/ Top.todo = subresources[Top.items[n]]
      BY <1>2 DEF NestedInv, LookupsOfFrames
    <3>3. Top.todo = subresources[Top.items[n]] => NewName = subresources[Top.items[n]][1]
      BY <1>1, <1>2 DEF NewName
    <3>4. Turned(n) => subresources[Top.items[n]][1] \notin Waiting(n)
      BY <1>2 DEF Turned
    <3> QED
      BY <1>1, <1>2, <1>4, <2>2, <3>1, <3>2, <3>3, <3>4
  <2>3. CASE k = n + 1
    <3>1. stack'[k].todo = subresources[stack'[k].items[k]]
      BY <1>1, <1>2, <2>3
    <3>2. LookupsFit(stack'[k])
      <4>1. stack'[k].items = NewPath /\ stack'[k].lookups = NewLookups /\ Len(NewPath) - 1 = n
        BY <1>1, <1>2, <2>3
      <4> QED
        BY <1>5, <4>1 DEF LookupsFit
    <3> QED
      BY <1>1, <1>2, <1>4, <2>3, <3>1, <3>2
  <2> QED
    BY <1>2, <2>1, <2>2, <2>3
<1>9. LookupsOfFrames'
  BY <1>1, <1>7, <1>8 DEF LookupsOfFrames
<1>10. CapturesOfRoutes'
  <2>1. NewRoute.tables = NewPath /\ NewRoute.captures = Captures(Top.items, NewLookups)
    BY DEF NewRoute
  <2>2. Eldest(NewPath) => Captures(Top.items, NewLookups) = [i \in 1 .. n |-> Chain(NewPath, i)]
    BY <1>2, <1>5 DEF Captures
  <2>3. n = Len(NewPath) - 1
    BY <1>2
  <2> QED
    BY <1>1, <1>6, <2>1, <2>2, <2>3 DEF NestedInv, CapturesOfRoutes
<1> QED
  BY <1>9, <1>10

\* The router refuses a name that another path has, which ends at the same table.
LEMMA RefusalHasCause ==
  ASSUME NestedInv, RegisterSubresource, refused'
  PROVE  NestedInv'
<1>1. /\ stack # <<>> /\ Top.todo # <<>>
      /\ UNCHANGED <<subresources, stack, nested>>
      /\ \E r \in nested : r.basename = NewBasename
  BY DEF RegisterSubresource, NewBasename, NewName
<1>2. PICK r \in nested : r.basename = NewBasename
  BY <1>1
<1>3. PICK n : n = Len(stack)
  OBVIOUS
<1>4. r.tables[Len(r.tables)] = NewName /\ NewPath[Len(NewPath)] = NewName
  BY <1>1, <1>2, <1>3, TurnTyped DEF NestedInv, RoutesAreRest
<1>5. r.tables \in Paths /\ NewPath \in Paths /\ r.tables # NewPath
  BY <1>1, <1>2, NewPathWaits DEF NestedInv, RoutesAreRest
<1>6. Paths' = Paths
  BY <1>1 DEF Paths
<1>7. Refusal'
  BY <1>1, <1>4, <1>5, <1>6 DEF Refusal
<1>8. /\ \A t : Subs(t)' = Subs(t)
      /\ \A k : Waiting(k)' = Waiting(k)
      /\ \A p : Eldest(p)' = Eldest(p)
  BY <1>1 DEF Subs, Waiting, Eldest
<1>9. \A p : Down(p)' = Down(p)
  BY <1>8 DEF Down
<1>10. \A p : Pending(p)' = Pending(p)
  BY <1>1, <1>8 DEF Pending, Begins
<1>11. NestedTypes' /\ FramesOnPath' /\ RoutesAreRest'
  <2>1. NestedTypes'
    BY <1>1, refused' \in BOOLEAN DEF NestedInv, NestedTypes
  <2> QED
    BY <1>1, <1>6, <1>8, <1>9, <1>10, <2>1 DEF NestedInv, FramesOnPath, RoutesAreRest, Begins
<1>12. LookupsOfFrames' /\ CapturesOfRoutes'
  <2>1. \A f : LookupsFit(f)' = LookupsFit(f)
    BY <1>8 DEF LookupsFit
  <2>2. \A k : Turned(k)' = Turned(k)
    BY <1>1, <1>8 DEF Turned
  <2> QED
    BY <1>1, <1>8, <2>1, <2>2 DEF NestedInv, LookupsOfFrames, CapturesOfRoutes
<1> QED
  BY <1>7, <1>11, <1>12 DEF NestedInv

\* A loop that is done has nothing that waits.
LEMMA ReturnKeeps ==
  ASSUME NestedInv, Return
  PROVE  NestedInv'
<1>0. PICK n : n = Len(stack)
  OBVIOUS
<1>1. /\ stack # <<>> /\ Top.todo = <<>>
      /\ stack' = SubSeq(stack, 1, n - 1)
      /\ UNCHANGED <<subresources, nested, refused>> /\ ~refused
  BY <1>0 DEF Return
<1>2. /\ stack \in Seq(FrameType) /\ n \in Nat /\ n >= 1 /\ DOMAIN stack = 1 .. n
      /\ Top = stack[n]
  BY <1>0, <1>1 DEF NestedInv, NestedTypes, Top
<1>3. /\ stack' \in Seq(FrameType) /\ DOMAIN stack' = 1 .. n - 1
      /\ \A k \in 1 .. n - 1 : stack'[k] = stack[k] /\ k \in 1 .. n
  BY <1>1, <1>2
<1>4. Waiting(n) = {}
  BY <1>1, <1>2 DEF Waiting
<1>5. /\ \A t : Subs(t)' = Subs(t)
      /\ \A k \in 1 .. n - 1 : Waiting(k)' = Waiting(k)
      /\ \A p : Eldest(p)' = Eldest(p)
      /\ Paths' = Paths
  BY <1>1, <1>3 DEF Subs, Waiting, Eldest, Paths
<1>6. \A p : Down(p)' = Down(p)
  BY <1>5 DEF Down
<1>7. ASSUME NEW p
      PROVE  Pending(p)' <=> Pending(p)
  <2>1. Pending(p)' <=> \E k \in 1 .. n - 1 :
          k < Len(p) /\ Begins(stack[k].items, p) /\ p[k + 1] \in Waiting(k)
    BY <1>3, <1>5 DEF Pending, Begins
  <2>2. Pending(p) <=> \E k \in 1 .. n :
          k < Len(p) /\ Begins(stack[k].items, p) /\ p[k + 1] \in Waiting(k)
    BY <1>2 DEF Pending
  <2>3. \A k \in 1 .. n : k = n \/ k \in 1 .. n - 1
    BY <1>2
  <2> QED
    BY <1>3, <1>4, <2>1, <2>2, <2>3
<1>8. NestedTypes' /\ Refusal'
  BY <1>1, <1>3 DEF NestedInv, NestedTypes, Refusal
<1>9. FramesOnPath'
  <2> SUFFICES ASSUME NEW k \in 1 .. n - 1
               PROVE  /\ Len(stack'[k].items) = k
                      /\ Down(stack'[k].items)
                      /\ \A i, j \in DOMAIN stack'[k].todo :
                           stack'[k].todo[i] = stack'[k].todo[j] => i = j
                      /\ Waiting(k)' \subseteq Subs(stack'[k].items[k])
                      /\ \A i \in 1 .. k - 1 :
                           /\ Begins(stack'[i].items, stack'[k].items)
                           /\ stack'[k].items[i + 1] \notin Waiting(i)'
    BY <1>3, <1>5, <1>6 DEF FramesOnPath, Begins
  <2>1. k \in DOMAIN stack /\ stack'[k] = stack[k]
    BY <1>2, <1>3
  <2>2. \A i \in 1 .. k - 1 : i \in 1 .. n - 1 /\ stack'[i] = stack[i] /\ Waiting(i)' = Waiting(i)
    BY <1>2, <1>3, <1>5
  <2> QED
    BY <1>5, <2>1, <2>2 DEF NestedInv, FramesOnPath
<1>10. RoutesAreRest'
  BY <1>1, <1>5, <1>7 DEF NestedInv, RoutesAreRest
<1>11. LookupsOfFrames' /\ CapturesOfRoutes'
  <2>1. \A f : LookupsFit(f)' = LookupsFit(f)
    BY <1>5 DEF LookupsFit
  <2>2. \A k \in 1 .. n - 1 : Turned(k)' = Turned(k)
    BY <1>1, <1>3, <1>5 DEF Turned
  <2>3. LookupsOfFrames'
    <3> SUFFICES ASSUME NEW k \in 1 .. n - 1
                 PROVE  /\ Len(stack'[k].lookups) >= k - 1
                        /\ \/ /\ stack'[k].todo = subresources[stack'[k].items[k]]
                              /\ LookupsFit(stack'[k])
                           \/ Turned(k)'
      BY <1>1, <1>3, <2>1 DEF LookupsOfFrames
    <3>1. k \in DOMAIN stack /\ stack'[k] = stack[k] /\ Turned(k)' = Turned(k)
      BY <1>2, <1>3, <2>2
    <3> QED
      BY <3>1 DEF NestedInv, LookupsOfFrames
  <2>4. CapturesOfRoutes'
    BY <1>1, <1>5 DEF NestedInv, CapturesOfRoutes
  <2> QED
    BY <2>3, <2>4
<1> QED
  BY <1>8, <1>9, <1>10, <1>11 DEF NestedInv

LEMMA StepNested ==
  ASSUME NestedInv, [NestedNext]_nestedVars
  PROVE  NestedInv'
<1>1. CASE RegisterSubresource /\ ~refused'
  BY <1>1, TurnKeepsFrames, TurnKeepsRoutes, TurnKeepsLookups DEF NestedInv
<1>2. CASE RegisterSubresource /\ refused'
  BY <1>2, RefusalHasCause
<1>3. CASE Return
  BY <1>3, ReturnKeeps
<1>4. CASE UNCHANGED nestedVars
  <2>1. UNCHANGED <<subresources, stack, nested, refused>>
    BY <1>4 DEF nestedVars
  <2>2. /\ \A t : Subs(t)' = Subs(t)
        /\ \A k : Waiting(k)' = Waiting(k)
        /\ \A p : Eldest(p)' = Eldest(p)
        /\ Paths' = Paths
    BY <2>1 DEF Subs, Waiting, Eldest, Paths
  <2>3. \A p : Down(p)' = Down(p) /\ Pending(p)' = Pending(p)
    BY <2>1, <2>2 DEF Down, Pending, Begins
  <2>4. \A f : LookupsFit(f)' = LookupsFit(f)
    BY <2>2 DEF LookupsFit
  <2>5. \A k : Turned(k)' = Turned(k)
    BY <2>1, <2>2 DEF Turned
  <2>6. NestedTypes' /\ FramesOnPath'
    BY <2>1, <2>2, <2>3 DEF NestedInv, NestedTypes, FramesOnPath, Begins
  <2>7. RoutesAreRest' /\ Refusal'
    BY <2>1, <2>2, <2>3 DEF NestedInv, RoutesAreRest, Refusal
  <2>8. LookupsOfFrames' /\ CapturesOfRoutes'
    BY <2>1, <2>2, <2>4, <2>5 DEF NestedInv, LookupsOfFrames, CapturesOfRoutes
  <2> QED
    BY <2>6, <2>7, <2>8 DEF NestedInv
<1> QED
  BY <1>1, <1>2, <1>3, <1>4 DEF NestedNext

LEMMA NestedInvariance ==
  NestedSpec => []NestedInv
<1>1. NestedInv /\ [NestedNext]_nestedVars => NestedInv'
  BY StepNested
<1> QED
  BY <1>1, InitNested, PTL DEF NestedSpec

\* When _build_nested_viewsets has returned, every declared path of subresources has one
\* URL; when the router refuses a name, two paths of the schema end at one table.
THEOREM EveryPathHasUrl ==
  NestedSpec => []EveryPathOnce
<1>1. ASSUME NestedInv, stack = <<>>
      PROVE  /\ {r.tables : r \in nested} = Paths
             /\ Cardinality(nested) = Cardinality(Paths)
  <2>1. \A p : ~Pending(p)
    BY <1>1 DEF Pending
  <2>2. {r.tables : r \in nested} = Paths
    BY <1>1, <2>1 DEF NestedInv, RoutesAreRest
  <2> DEFINE f == [r \in nested |-> r.tables]
  <2>3. f \in Bijection(nested, Paths)
    <3>1. f \in [nested -> Paths]
      BY <2>2
    <3>2. \A r, s \in nested : f[r] = f[s] => r = s
      BY <1>1 DEF NestedInv, RoutesAreRest
    <3>3. \A p \in Paths : \E r \in nested : f[r] = p
      BY <2>2
    <3> QED
      BY <3>1, <3>2, <3>3 DEF Bijection, Injection, Surjection, IsInjective
  <2>4. IsFiniteSet(nested)
    BY <1>1 DEF NestedInv, RoutesAreRest
  <2>5. Cardinality(nested) = Cardinality(Paths)
    BY <2>3, <2>4, FS_Bijection DEF ExistsBijection
  <2> QED
    BY <2>2, <2>5
<1>2. NestedInv => EveryPathOnce
  BY <1>1 DEF EveryPathOnce, NestedInv, Refusal
<1> QED
  BY <1>2, NestedInvariance, PTL

\* A nested list has the objects that lie in those that its URL names, if its path goes
\* to first subresources below the first level: what the loops of _build_nested_viewsets
\* leave behind in their variables does those URLs no harm.
THEOREM EldestAnswer ==
  NestedSpec => []EldestListChildren
<1>1. ASSUME NestedInv, NEW r \in nested, Eldest(r.tables)
      PROVE  Answers(r)
  <2>1. r.tables \in Seq(Table) /\ Len(r.tables) >= 2
    BY <1>1, PathsAreDown DEF NestedInv, NestedTypes, RoutesAreRest, Down
  <2>2. r.captures = [i \in 1 .. Len(r.tables) - 1 |-> Chain(r.tables, i)]
    BY <1>1 DEF NestedInv, CapturesOfRoutes
  <2> QED
    BY <2>1, <2>2, ChainsAnswer
<1>2. NestedInv => EldestListChildren
  BY <1>1 DEF EldestListChildren
<1> QED
  BY <1>2, NestedInvariance, PTL
=============================================================================
