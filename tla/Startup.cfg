SPECIFICATION Spec
CONSTANTS
    Threads = {t1, t2}
    Workers = {wrk, gateway}
    Gateway = gateway
    Manifests <- MCManifests
    Config <- MCConfig
    ClassOf <- MCClassOf
    Scripts <- MCScripts
    None = None
    MaxEnds = 2
    MaxUpserts = 2
INVARIANTS
    RecordedIsComplete
    StartsMigrate
    ProjectionIsCurrent
PROPERTIES
    ServerComesUp
