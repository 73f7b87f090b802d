CONSTANTS
    Base = {"a"}
    Endpoint = {"ep1", "ep2"}
    Platform = {"amd64"}
    Driver = {"docker-container"}
    Setting = {"toml", "default"}
    Proc = {p, q, r}
    Key = {"k1"}
    BuilderName <- OneName
    CreateArg <- NodeArgs
    Commands = {"create", "leave", "rm", "load", "build"}
    NoProc = NoProc
    NoGroup = NoGroup
    NoFile = NoFile
SPECIFICATION Spec
SYMMETRY Processes
INVARIANTS GroupsWellFormed RefsHaveBuilder
PROPERTY NoLostUpdate
