----------------------------- MODULE DatasetUrls -----------------------------
(***************************************************************************)
(* The URL patterns that routers.py derives from the datasets.  A pattern  *)
(* is <<kind, dataset, version>>; its variants with and without a slash,   *)
(* the list and detail routes of a table and the files of a service are    *)
(* one pattern.  The patterns of a sub path have the path instead of the   *)
(* dataset.                                                                *)
(***************************************************************************)
EXTENDS FiniteSets

CONSTANTS
    Dataset,    \* the identifiers of the datasets
    Version,    \* the major versions of the schemas
    DEFAULT,    \* the unversioned URLs, constants.py
    Absent,     \* a dataset that is not in the database
    SubPaths,   \* SubPaths[d]: the sub paths above the path of d
    Published,  \* the datasets that DATASETS_LIST and DATASETS_EXCLUDE leave
    Links,      \* Links[d]: the datasets that relations of d point to
    Rows        \* Rows[d]: the rows that schema imports write for d

\* A row of the table of datasets: are the API and the database enabled, does
\* a table have geometry, the versions of the schema, those of them with the
\* API enabled, and the default one.
Row ==
    [api: BOOLEAN, db: BOOLEAN, geo: BOOLEAN,
     versions: SUBSET Version, open: SUBSET Version, default: Version]

ASSUME ConstantsAssumption ==
    /\ DEFAULT \notin Version
    /\ Published \subseteq Dataset
    /\ Links \in [Dataset -> SUBSET Dataset]
    /\ Rows \in [Dataset -> SUBSET {row \in Row : /\ row.open \subseteq row.versions
                                                 /\ row.default \in row.versions}]

Databases ==
    {rows \in [Dataset -> (UNION {Rows[d] : d \in Dataset}) \cup {Absent}] :
        \A d \in Dataset : rows[d] \in Rows[d] \cup {Absent}}

\* get_active_datasets(api_enabled=None).db_enabled()
DbDatasets(rows) == {d \in Published : rows[d] # Absent /\ rows[d].db}

\* The datasets of those that get an API.
ApiDatasets(rows) == {d \in DbDatasets(rows) : rows[d].api}

\* Mutant: the models of the default version are only known by its name.
VersionsOnly(row) == row.versions

\* The models of a dataset, per version; the default version has them twice.
ModelVersions(row) == row.versions \cup {v \in {DEFAULT} : row.default \in row.versions}

PerVersion(kind, rows, Versions(_)) ==
    UNION {{kind} \X {d} \X Versions(rows[d]) : d \in ApiDatasets(rows)}

EveryVersion(row) == row.versions \cup {DEFAULT}
\* Mutant: the versions whose API is disabled.
ClosedVersions(row) == (row.versions \ row.open) \cup {DEFAULT}

OpenVersions(row) == row.open \cup {DEFAULT}

BuildDocViews(rows) ==
    PerVersion("docs", rows, EveryVersion)
        \cup {<<"docs-wfs", d, DEFAULT>> : d \in {e \in ApiDatasets(rows) : rows[e].geo}}

BuildOpenapiViews(rows) == PerVersion("openapi", rows, OpenVersions)

BuildMvtViews(rows) == PerVersion("mvt", rows, EveryVersion)

BuildWfsViews(rows) == PerVersion("wfs", rows, EveryVersion)

BuildIndexViews(rows) ==
    {<<"index", p, DEFAULT>> : p \in UNION {SubPaths[d] : d \in ApiDatasets(rows)}}

\* The viewsets of the models that were built, as far as their dataset has an API.
BuildDbViewsets(models, rows) ==
    {<<"table", m[1], m[2]>> : m \in {n \in models : n[1] \in ApiDatasets(rows)}}

\* Mutant: the rows for the versions.
RowsOf(rows, datasets) == UNION {{d} \X {rows[d]} : d \in datasets}

ModelsOf(rows, datasets) ==
    UNION {{d} \X ModelVersions(rows[d]) : d \in datasets}
=============================================================================
