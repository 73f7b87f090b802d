-------------------------- MODULE ControllerMessages --------------------------
(***************************************************************************)
(* The messages of the controller protocol (controller/pb/controller.pb.go *)
(* and controller/errdefs/errdefs.pb.go): one record per Go struct, which  *)
(* gives each exported field its kind.  The unexported protobuf state is   *)
(* left out except for unknownFields, which every message has.             *)
(***************************************************************************)

\* string; []byte; uint32; int64; bool.
Str == [kind |-> "string"]
Bytes == [kind |-> "bytes"]
Uint32 == [kind |-> "uint32"]
Int64 == [kind |-> "int64"]
Bool == [kind |-> "bool"]

\* []string; map[string]string; *T; []*T; map[string]*T; a oneof interface.
Strs == [kind |-> "strings"]
StrMap == [kind |-> "map", of |-> "string"]
Msg(t) == [kind |-> "message", of |-> t]
Msgs(t) == [kind |-> "messages", of |-> t]
MsgMap(t) == [kind |-> "map", of |-> t]
OneOf == [kind |-> "oneof"]

ListProcessesRequest == [SessionID |-> Str]
ListProcessesResponse == [Infos |-> Msgs("ProcessInfo")]
ProcessInfo == [ProcessID |-> Str, InvokeConfig |-> Msg("InvokeConfig")]
DisconnectProcessRequest == [SessionID |-> Str, ProcessID |-> Str]
DisconnectProcessResponse == <<>>
BuildRequest == [SessionID |-> Str, Options |-> Msg("BuildOptions")]
BuildOptions == [ContextPath |-> Str, DockerfileName |-> Str, CallFunc |-> Msg("CallFunc"),
    NamedContexts |-> StrMap, Allow |-> Strs, Attests |-> Msgs("Attest"), BuildArgs |-> StrMap,
    CacheFrom |-> Msgs("CacheOptionsEntry"), CacheTo |-> Msgs("CacheOptionsEntry"),
    CgroupParent |-> Str, Exports |-> Msgs("ExportEntry"), ExtraHosts |-> Strs,
    Labels |-> StrMap, NetworkMode |-> Str, NoCacheFilter |-> Strs, Platforms |-> Strs,
    Secrets |-> Msgs("Secret"), ShmSize |-> Int64, SSH |-> Msgs("SSH"), Tags |-> Strs,
    Target |-> Str, Ulimits |-> Msg("UlimitOpt"), Builder |-> Str, NoCache |-> Bool,
    Pull |-> Bool, ExportPush |-> Bool, ExportLoad |-> Bool, SourcePolicy |-> Msg("Policy"),
    Ref |-> Str, GroupRef |-> Str, Annotations |-> Strs, ProvenanceResponseMode |-> Str]
ExportEntry == [Type |-> Str, Attrs |-> StrMap, Destination |-> Str]
CacheOptionsEntry == [Type |-> Str, Attrs |-> StrMap]
Attest == [Type |-> Str, Disabled |-> Bool, Attrs |-> Str]
SSH == [ID |-> Str, Paths |-> Strs]
Secret == [ID |-> Str, FilePath |-> Str, Env |-> Str]
CallFunc == [Name |-> Str, Format |-> Str, IgnoreStatus |-> Bool]
InspectRequest == [SessionID |-> Str]
InspectResponse == [Options |-> Msg("BuildOptions")]
UlimitOpt == [Values |-> MsgMap("Ulimit")]
Ulimit == [Name |-> Str, Hard |-> Int64, Soft |-> Int64]
BuildResponse == [ExporterResponse |-> StrMap]
DisconnectRequest == [SessionID |-> Str]
DisconnectResponse == <<>>
ListRequest == [SessionID |-> Str]
ListResponse == [Keys |-> Strs]
InputMessage == [Input |-> OneOf]
InputMessage_Init == [Init |-> Msg("InputInitMessage")]
InputMessage_Data == [Data |-> Msg("DataMessage")]
InputInitMessage == [SessionID |-> Str]
DataMessage == [EOF |-> Bool, Data |-> Bytes]
InputResponse == <<>>
Message == [Input |-> OneOf]
Message_Init == [Init |-> Msg("InitMessage")]
Message_File == [File |-> Msg("FdMessage")]
Message_Resize == [Resize |-> Msg("ResizeMessage")]
Message_Signal == [Signal |-> Msg("SignalMessage")]
InitMessage == [SessionID |-> Str, ProcessID |-> Str, InvokeConfig |-> Msg("InvokeConfig")]
InvokeConfig == [Entrypoint |-> Strs, Cmd |-> Strs, NoCmd |-> Bool, Env |-> Strs, User |-> Str,
    NoUser |-> Bool, Cwd |-> Str, NoCwd |-> Bool, Tty |-> Bool, Rollback |-> Bool,
    Initial |-> Bool]
FdMessage == [Fd |-> Uint32, EOF |-> Bool, Data |-> Bytes]
ResizeMessage == [Rows |-> Uint32, Cols |-> Uint32]
SignalMessage == [Name |-> Str]
StatusRequest == [SessionID |-> Str]
StatusResponse == [Vertexes |-> Msgs("Vertex"), Statuses |-> Msgs("VertexStatus"),
    Logs |-> Msgs("VertexLog"), Warnings |-> Msgs("VertexWarning")]
InfoRequest == <<>>
InfoResponse == [BuildxVersion |-> Msg("BuildxVersion")]
BuildxVersion == [Package |-> Str, Version |-> Str, Revision |-> Str]
Build == [SessionID |-> Str, Ref |-> Str]

\* The struct of each message, by name.
Fields == [ListProcessesRequest |-> ListProcessesRequest,
    ListProcessesResponse |-> ListProcessesResponse, ProcessInfo |-> ProcessInfo,
    DisconnectProcessRequest |-> DisconnectProcessRequest,
    DisconnectProcessResponse |-> DisconnectProcessResponse, BuildRequest |-> BuildRequest,
    BuildOptions |-> BuildOptions, ExportEntry |-> ExportEntry,
    CacheOptionsEntry |-> CacheOptionsEntry, Attest |-> Attest, SSH |-> SSH, Secret |-> Secret,
    CallFunc |-> CallFunc, InspectRequest |-> InspectRequest,
    InspectResponse |-> InspectResponse, UlimitOpt |-> UlimitOpt, Ulimit |-> Ulimit,
    BuildResponse |-> BuildResponse, DisconnectRequest |-> DisconnectRequest,
    DisconnectResponse |-> DisconnectResponse, ListRequest |-> ListRequest,
    ListResponse |-> ListResponse, InputMessage |-> InputMessage,
    InputMessage_Init |-> InputMessage_Init, InputMessage_Data |-> InputMessage_Data,
    InputInitMessage |-> InputInitMessage, DataMessage |-> DataMessage,
    InputResponse |-> InputResponse, Message |-> Message, Message_Init |-> Message_Init,
    Message_File |-> Message_File, Message_Resize |-> Message_Resize,
    Message_Signal |-> Message_Signal, InitMessage |-> InitMessage,
    InvokeConfig |-> InvokeConfig, FdMessage |-> FdMessage, ResizeMessage |-> ResizeMessage,
    SignalMessage |-> SignalMessage, StatusRequest |-> StatusRequest,
    StatusResponse |-> StatusResponse, InfoRequest |-> InfoRequest,
    InfoResponse |-> InfoResponse, BuildxVersion |-> BuildxVersion, Build |-> Build]

\* The wrapper struct of each case of the two oneof fields.
Cases == [
    Message |-> [Init |-> "Message_Init", File |-> "Message_File",
                 Resize |-> "Message_Resize", Signal |-> "Message_Signal"],
    InputMessage |-> [Init |-> "InputMessage_Init", Data |-> "InputMessage_Data"]]

===============================================================================
