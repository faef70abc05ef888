SPECIFICATION FairSpec
CONSTANTS
    Runs = {r1}
    Services = {web, cron}
    Notifiers = {web}
    Discoverable = {web}
    Registries = {etcd, nacos}
    DrainDelay = TRUE
INVARIANTS
    DeregisterBeforeStop
    DrainBeforeStop
    NothingOutlivesRun
    AdvertisedOnlyWhenReady
PROPERTIES
    ShutdownCompletes
CHECK_DEADLOCK FALSE
