CONSTANTS
    Base = {"a", "b"}
    Endpoint = {"ep1"}
    Platform = {"amd64"}
    Driver = {"docker-container"}
    Setting = {"toml", "default"}
    Proc = {p}
    Key = {"k1", "k2"}
    BuilderName <- SmallNames
    CreateArg <- OneNodeArgs
    Commands = {"create", "use", "rm", "load"}
    NoProc = NoProc
    NoGroup = NoGroup
    NoFile = NoFile
SPECIFICATION Spec
INVARIANT DefaultAgrees
PROPERTY LookupsKeepDefault
