--------------------------- MODULE ControllerClone ---------------------------
(***************************************************************************)
(* What CloneVT and EqualVT of each message do, field by field             *)
(* (controller_vtproto.pb.go, errdefs_vtproto.pb.go).  ControllerCodec     *)
(* interprets the tables:                                                  *)
(*   CloneVT    how a field is taken over: "assign" (r.F = m.F), "copy" (a *)
(*              new container holding the same elements) or "clone" (a new *)
(*              container holding clones);                                 *)
(*   EqualVT    the fields that are compared.                              *)
(***************************************************************************)

ListProcessesRequest_CloneVT == [SessionID |-> "assign"]
ListProcessesRequest_EqualVT == {"SessionID"}
ListProcessesResponse_CloneVT == [Infos |-> "clone"]
ListProcessesResponse_EqualVT == {"Infos"}
ProcessInfo_CloneVT == [ProcessID |-> "assign", InvokeConfig |-> "clone"]
ProcessInfo_EqualVT == {"ProcessID", "InvokeConfig"}
DisconnectProcessRequest_CloneVT == [SessionID |-> "assign", ProcessID |-> "assign"]
DisconnectProcessRequest_EqualVT == {"SessionID", "ProcessID"}
DisconnectProcessResponse_CloneVT == <<>>
DisconnectProcessResponse_EqualVT == {}
BuildRequest_CloneVT == [SessionID |-> "assign", Options |-> "clone"]
BuildRequest_EqualVT == {"SessionID", "Options"}
BuildOptions_CloneVT == [ContextPath |-> "assign", DockerfileName |-> "assign",
    CallFunc |-> "clone", NamedContexts |-> "copy", Allow |-> "copy", Attests |-> "clone",
    BuildArgs |-> "copy", CacheFrom |-> "clone", CacheTo |-> "clone", CgroupParent |-> "assign",
    Exports |-> "clone", ExtraHosts |-> "copy", Labels |-> "copy", NetworkMode |-> "assign",
    NoCacheFilter |-> "copy", Platforms |-> "copy", Secrets |-> "clone", ShmSize |-> "assign",
    SSH |-> "clone", Tags |-> "copy", Target |-> "assign", Ulimits |-> "clone",
    Builder |-> "assign", NoCache |-> "assign", Pull |-> "assign", ExportPush |-> "assign",
    ExportLoad |-> "assign", SourcePolicy |-> "clone", Ref |-> "assign", GroupRef |-> "assign",
    Annotations |-> "copy", ProvenanceResponseMode |-> "assign"]
BuildOptions_EqualVT == {"ContextPath", "DockerfileName", "CallFunc", "NamedContexts", "Allow",
    "Attests", "BuildArgs", "CacheFrom", "CacheTo", "CgroupParent", "Exports", "ExtraHosts",
    "Labels", "NetworkMode", "NoCacheFilter", "Platforms", "Secrets", "ShmSize", "SSH", "Tags",
    "Target", "Ulimits", "Builder", "NoCache", "Pull", "ExportPush", "ExportLoad",
    "SourcePolicy", "Ref", "GroupRef", "Annotations", "ProvenanceResponseMode"}
sharesAttrs == [Type |-> "assign", Attrs |-> "assign", Destination |-> "assign"] \* mutant: the map is shared
ExportEntry_CloneVT == [Type |-> "assign", Attrs |-> "copy", Destination |-> "assign"]
ExportEntry_EqualVT == {"Type", "Attrs", "Destination"}
CacheOptionsEntry_CloneVT == [Type |-> "assign", Attrs |-> "copy"]
CacheOptionsEntry_EqualVT == {"Type", "Attrs"}
Attest_CloneVT == [Type |-> "assign", Disabled |-> "assign", Attrs |-> "assign"]
Attest_EqualVT == {"Type", "Disabled", "Attrs"}
SSH_CloneVT == [ID |-> "assign", Paths |-> "copy"]
SSH_EqualVT == {"ID", "Paths"}
Secret_CloneVT == [ID |-> "assign", FilePath |-> "assign", Env |-> "assign"]
Secret_EqualVT == {"ID", "FilePath", "Env"}
CallFunc_CloneVT == [Name |-> "assign", Format |-> "assign", IgnoreStatus |-> "assign"]
CallFunc_EqualVT == {"Name", "Format", "IgnoreStatus"}
InspectRequest_CloneVT == [SessionID |-> "assign"]
InspectRequest_EqualVT == {"SessionID"}
InspectResponse_CloneVT == [Options |-> "clone"]
InspectResponse_EqualVT == {"Options"}
UlimitOpt_CloneVT == [Values |-> "clone"]
UlimitOpt_EqualVT == {"Values"}
Ulimit_CloneVT == [Name |-> "assign", Hard |-> "assign", Soft |-> "assign"]
Ulimit_EqualVT == {"Name", "Hard", "Soft"}
BuildResponse_CloneVT == [ExporterResponse |-> "copy"]
BuildResponse_EqualVT == {"ExporterResponse"}
DisconnectRequest_CloneVT == [SessionID |-> "assign"]
DisconnectRequest_EqualVT == {"SessionID"}
DisconnectResponse_CloneVT == <<>>
DisconnectResponse_EqualVT == {}
ListRequest_CloneVT == [SessionID |-> "assign"]
ListRequest_EqualVT == {"SessionID"}
ListResponse_CloneVT == [Keys |-> "copy"]
ListResponse_EqualVT == {"Keys"}
InputMessage_CloneVT == [Input |-> "clone"]
InputMessage_EqualVT == {"Input"}
InputMessage_Init_CloneVT == [Init |-> "clone"]
InputMessage_Init_EqualVT == {"Init"}
InputMessage_Data_CloneVT == [Data |-> "clone"]
InputMessage_Data_EqualVT == {"Data"}
InputInitMessage_CloneVT == [SessionID |-> "assign"]
InputInitMessage_EqualVT == {"SessionID"}
DataMessage_CloneVT == [EOF |-> "assign", Data |-> "copy"]
DataMessage_EqualVT == {"EOF", "Data"}
InputResponse_CloneVT == <<>>
InputResponse_EqualVT == {}
Message_CloneVT == [Input |-> "clone"]
Message_EqualVT == {"Input"}
Message_Init_CloneVT == [Init |-> "clone"]
Message_Init_EqualVT == {"Init"}
Message_File_CloneVT == [File |-> "clone"]
Message_File_EqualVT == {"File"}
Message_Resize_CloneVT == [Resize |-> "clone"]
Message_Resize_EqualVT == {"Resize"}
Message_Signal_CloneVT == [Signal |-> "clone"]
Message_Signal_EqualVT == {"Signal"}
InitMessage_CloneVT == [SessionID |-> "assign", ProcessID |-> "assign",
    InvokeConfig |-> "clone"]
InitMessage_EqualVT == {"SessionID", "ProcessID", "InvokeConfig"}
InvokeConfig_CloneVT == [Entrypoint |-> "copy", Cmd |-> "copy", NoCmd |-> "assign",
    Env |-> "copy", User |-> "assign", NoUser |-> "assign", Cwd |-> "assign",
    NoCwd |-> "assign", Tty |-> "assign", Rollback |-> "assign", Initial |-> "assign"]
InvokeConfig_EqualVT == {"Entrypoint", "Cmd", "NoCmd", "Env", "User", "NoUser", "Cwd", "NoCwd",
    "Tty", "Rollback", "Initial"}
FdMessage_CloneVT == [Fd |-> "assign", EOF |-> "assign", Data |-> "copy"]
FdMessage_EqualVT == {"Fd", "EOF", "Data"}
ResizeMessage_CloneVT == [Rows |-> "assign", Cols |-> "assign"]
ResizeMessage_EqualVT == {"Rows", "Cols"}
SignalMessage_CloneVT == [Name |-> "assign"]
SignalMessage_EqualVT == {"Name"}
StatusRequest_CloneVT == [SessionID |-> "assign"]
StatusRequest_EqualVT == {"SessionID"}
StatusResponse_CloneVT == [Vertexes |-> "clone", Statuses |-> "clone", Logs |-> "clone",
    Warnings |-> "clone"]
StatusResponse_EqualVT == {"Vertexes", "Statuses", "Logs", "Warnings"}
InfoRequest_CloneVT == <<>>
InfoRequest_EqualVT == {}
InfoResponse_CloneVT == [BuildxVersion |-> "clone"]
InfoResponse_EqualVT == {"BuildxVersion"}
BuildxVersion_CloneVT == [Package |-> "assign", Version |-> "assign", Revision |-> "assign"]
BuildxVersion_EqualVT == {"Package", "Version", "Revision"}
Build_CloneVT == [SessionID |-> "assign", Ref |-> "assign"]
Build_EqualVT == {"SessionID", "Ref"}

\* The tables of each method, by message.
CloneVTTable == [ListProcessesRequest |-> ListProcessesRequest_CloneVT,
    ListProcessesResponse |-> ListProcessesResponse_CloneVT,
    ProcessInfo |-> ProcessInfo_CloneVT,
    DisconnectProcessRequest |-> DisconnectProcessRequest_CloneVT,
    DisconnectProcessResponse |-> DisconnectProcessResponse_CloneVT,
    BuildRequest |-> BuildRequest_CloneVT, BuildOptions |-> BuildOptions_CloneVT,
    ExportEntry |-> ExportEntry_CloneVT, CacheOptionsEntry |-> CacheOptionsEntry_CloneVT,
    Attest |-> Attest_CloneVT, SSH |-> SSH_CloneVT, Secret |-> Secret_CloneVT,
    CallFunc |-> CallFunc_CloneVT, InspectRequest |-> InspectRequest_CloneVT,
    InspectResponse |-> InspectResponse_CloneVT, UlimitOpt |-> UlimitOpt_CloneVT,
    Ulimit |-> Ulimit_CloneVT, BuildResponse |-> BuildResponse_CloneVT,
    DisconnectRequest |-> DisconnectRequest_CloneVT,
    DisconnectResponse |-> DisconnectResponse_CloneVT, ListRequest |-> ListRequest_CloneVT,
    ListResponse |-> ListResponse_CloneVT, InputMessage |-> InputMessage_CloneVT,
    InputMessage_Init |-> InputMessage_Init_CloneVT,
    InputMessage_Data |-> InputMessage_Data_CloneVT,
    InputInitMessage |-> InputInitMessage_CloneVT, DataMessage |-> DataMessage_CloneVT,
    InputResponse |-> InputResponse_CloneVT, Message |-> Message_CloneVT,
    Message_Init |-> Message_Init_CloneVT, Message_File |-> Message_File_CloneVT,
    Message_Resize |-> Message_Resize_CloneVT, Message_Signal |-> Message_Signal_CloneVT,
    InitMessage |-> InitMessage_CloneVT, InvokeConfig |-> InvokeConfig_CloneVT,
    FdMessage |-> FdMessage_CloneVT, ResizeMessage |-> ResizeMessage_CloneVT,
    SignalMessage |-> SignalMessage_CloneVT, StatusRequest |-> StatusRequest_CloneVT,
    StatusResponse |-> StatusResponse_CloneVT, InfoRequest |-> InfoRequest_CloneVT,
    InfoResponse |-> InfoResponse_CloneVT, BuildxVersion |-> BuildxVersion_CloneVT,
    Build |-> Build_CloneVT]
EqualVTTable == [ListProcessesRequest |-> ListProcessesRequest_EqualVT,
    ListProcessesResponse |-> ListProcessesResponse_EqualVT,
    ProcessInfo |-> ProcessInfo_EqualVT,
    DisconnectProcessRequest |-> DisconnectProcessRequest_EqualVT,
    DisconnectProcessResponse |-> DisconnectProcessResponse_EqualVT,
    BuildRequest |-> BuildRequest_EqualVT, BuildOptions |-> BuildOptions_EqualVT,
    ExportEntry |-> ExportEntry_EqualVT, CacheOptionsEntry |-> CacheOptionsEntry_EqualVT,
    Attest |-> Attest_EqualVT, SSH |-> SSH_EqualVT, Secret |-> Secret_EqualVT,
    CallFunc |-> CallFunc_EqualVT, InspectRequest |-> InspectRequest_EqualVT,
    InspectResponse |-> InspectResponse_EqualVT, UlimitOpt |-> UlimitOpt_EqualVT,
    Ulimit |-> Ulimit_EqualVT, BuildResponse |-> BuildResponse_EqualVT,
    DisconnectRequest |-> DisconnectRequest_EqualVT,
    DisconnectResponse |-> DisconnectResponse_EqualVT, ListRequest |-> ListRequest_EqualVT,
    ListResponse |-> ListResponse_EqualVT, InputMessage |-> InputMessage_EqualVT,
    InputMessage_Init |-> InputMessage_Init_EqualVT,
    InputMessage_Data |-> InputMessage_Data_EqualVT,
    InputInitMessage |-> InputInitMessage_EqualVT, DataMessage |-> DataMessage_EqualVT,
    InputResponse |-> InputResponse_EqualVT, Message |-> Message_EqualVT,
    Message_Init |-> Message_Init_EqualVT, Message_File |-> Message_File_EqualVT,
    Message_Resize |-> Message_Resize_EqualVT, Message_Signal |-> Message_Signal_EqualVT,
    InitMessage |-> InitMessage_EqualVT, InvokeConfig |-> InvokeConfig_EqualVT,
    FdMessage |-> FdMessage_EqualVT, ResizeMessage |-> ResizeMessage_EqualVT,
    SignalMessage |-> SignalMessage_EqualVT, StatusRequest |-> StatusRequest_EqualVT,
    StatusResponse |-> StatusResponse_EqualVT, InfoRequest |-> InfoRequest_EqualVT,
    InfoResponse |-> InfoResponse_EqualVT, BuildxVersion |-> BuildxVersion_EqualVT,
    Build |-> Build_EqualVT]
=============================================================================
