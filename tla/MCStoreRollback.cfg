CONSTANTS
    Base = {"a"}
    Endpoint = {"ep1", "ep2"}
    Platform = {"amd64"}
    Driver = {"docker-container"}
    Setting = {"toml", "default"}
    Proc = {p}
    Key = {"k1"}
    BuilderName <- OneName
    CreateArg <- NodeArgs
    Commands = {"create"}
    NoProc = NoProc
    NoGroup = NoGroup
    NoFile = NoFile
SPECIFICATION Spec
INVARIANT RollbackRestores
