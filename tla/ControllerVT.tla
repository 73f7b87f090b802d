---------------------------- MODULE ControllerVT ----------------------------
(***************************************************************************)
(* What the generated methods that write and read each message do, field   *)
(* by field (controller_vtproto.pb.go, errdefs_vtproto.pb.go).  The        *)
(* methods of one kind differ only in the following tables, which          *)
(* ControllerCodec interprets:                                             *)
(*   SizeVT     the constant that is added for an occurrence of the field, *)
(*              besides what its payload takes;                            *)
(*   MarshalToSizedBufferVT  the fields in the order the code writes them, *)
(*              from the end of the buffer to its start, and the tag bytes *)
(*              that precede each, in the order they are read;             *)
(*   UnmarshalVT  the case numbers, the field each fills and the wire type *)
(*              it insists on.                                             *)
(* Message_X and InputMessage_X are the wrappers of a oneof's cases; they  *)
(* have no UnmarshalVT of their own.                                       *)
(***************************************************************************)

ListProcessesRequest_SizeVT == [SessionID |-> 1]
ListProcessesRequest_MarshalToSizedBufferVT == <<<<"SessionID", <<10>>>>>>
ListProcessesRequest_UnmarshalVT == {<<1, "SessionID", 2>>}

ListProcessesResponse_SizeVT == [Infos |-> 1]
ListProcessesResponse_MarshalToSizedBufferVT == <<<<"Infos", <<10>>>>>>
ListProcessesResponse_UnmarshalVT == {<<1, "Infos", 2>>}

ProcessInfo_SizeVT == [ProcessID |-> 1, InvokeConfig |-> 1]
ProcessInfo_MarshalToSizedBufferVT == <<<<"InvokeConfig", <<18>>>>, <<"ProcessID", <<10>>>>>>
ProcessInfo_UnmarshalVT == {<<1, "ProcessID", 2>>, <<2, "InvokeConfig", 2>>}

DisconnectProcessRequest_SizeVT == [SessionID |-> 1, ProcessID |-> 1]
DisconnectProcessRequest_MarshalToSizedBufferVT == <<<<"ProcessID", <<18>>>>,
    <<"SessionID", <<10>>>>>>
DisconnectProcessRequest_UnmarshalVT == {<<1, "SessionID", 2>>, <<2, "ProcessID", 2>>}

DisconnectProcessResponse_SizeVT == <<>>
DisconnectProcessResponse_MarshalToSizedBufferVT == <<>>
DisconnectProcessResponse_UnmarshalVT == {}

BuildRequest_SizeVT == [SessionID |-> 1, Options |-> 1]
BuildRequest_MarshalToSizedBufferVT == <<<<"Options", <<18>>>>, <<"SessionID", <<10>>>>>>
BuildRequest_UnmarshalVT == {<<1, "SessionID", 2>>, <<2, "Options", 2>>}

BuildOptions_SizeVT == [ContextPath |-> 1, DockerfileName |-> 1, CallFunc |-> 1,
    NamedContexts |-> 1, Allow |-> 1, Attests |-> 1, BuildArgs |-> 1, CacheFrom |-> 1,
    CacheTo |-> 1, CgroupParent |-> 1, Exports |-> 1, ExtraHosts |-> 1, Labels |-> 1,
    NetworkMode |-> 1, NoCacheFilter |-> 1, Platforms |-> 2, Secrets |-> 2, ShmSize |-> 2,
    SSH |-> 2, Tags |-> 2, Target |-> 2, Ulimits |-> 2, Builder |-> 2, NoCache |-> 3,
    Pull |-> 3, ExportPush |-> 3, ExportLoad |-> 3, SourcePolicy |-> 2, Ref |-> 2,
    GroupRef |-> 2, Annotations |-> 2, ProvenanceResponseMode |-> 2]
BuildOptions_MarshalToSizedBufferVT == <<<<"ProvenanceResponseMode", <<130, 2>>>>,
    <<"Annotations", <<250, 1>>>>, <<"GroupRef", <<242, 1>>>>, <<"Ref", <<234, 1>>>>,
    <<"SourcePolicy", <<226, 1>>>>, <<"ExportLoad", <<216, 1>>>>, <<"ExportPush", <<208, 1>>>>,
    <<"Pull", <<200, 1>>>>, <<"NoCache", <<192, 1>>>>, <<"Builder", <<186, 1>>>>,
    <<"Ulimits", <<178, 1>>>>, <<"Target", <<170, 1>>>>, <<"Tags", <<162, 1>>>>,
    <<"SSH", <<154, 1>>>>, <<"ShmSize", <<144, 1>>>>, <<"Secrets", <<138, 1>>>>,
    <<"Platforms", <<130, 1>>>>, <<"NoCacheFilter", <<122>>>>, <<"NetworkMode", <<114>>>>,
    <<"Labels", <<106>>>>, <<"ExtraHosts", <<98>>>>, <<"Exports", <<90>>>>,
    <<"CgroupParent", <<82>>>>, <<"CacheTo", <<74>>>>, <<"CacheFrom", <<66>>>>,
    <<"BuildArgs", <<58>>>>, <<"Attests", <<50>>>>, <<"Allow", <<42>>>>,
    <<"NamedContexts", <<34>>>>, <<"CallFunc", <<26>>>>, <<"DockerfileName", <<18>>>>,
    <<"ContextPath", <<10>>>>>>
BuildOptions_UnmarshalVT == {<<1, "ContextPath", 2>>, <<2, "DockerfileName", 2>>,
    <<3, "CallFunc", 2>>, <<4, "NamedContexts", 2>>, <<5, "Allow", 2>>, <<6, "Attests", 2>>,
    <<7, "BuildArgs", 2>>, <<8, "CacheFrom", 2>>, <<9, "CacheTo", 2>>,
    <<10, "CgroupParent", 2>>, <<11, "Exports", 2>>, <<12, "ExtraHosts", 2>>,
    <<13, "Labels", 2>>, <<14, "NetworkMode", 2>>, <<15, "NoCacheFilter", 2>>,
    <<16, "Platforms", 2>>, <<17, "Secrets", 2>>, <<18, "ShmSize", 0>>, <<19, "SSH", 2>>,
    <<20, "Tags", 2>>, <<21, "Target", 2>>, <<22, "Ulimits", 2>>, <<23, "Builder", 2>>,
    <<24, "NoCache", 0>>, <<25, "Pull", 0>>, <<26, "ExportPush", 0>>, <<27, "ExportLoad", 0>>,
    <<28, "SourcePolicy", 2>>, <<29, "Ref", 2>>, <<30, "GroupRef", 2>>,
    <<31, "Annotations", 2>>, <<32, "ProvenanceResponseMode", 2>>}

ExportEntry_SizeVT == [Type |-> 1, Attrs |-> 1, Destination |-> 1]
ExportEntry_MarshalToSizedBufferVT == <<<<"Destination", <<26>>>>, <<"Attrs", <<18>>>>,
    <<"Type", <<10>>>>>>
ExportEntry_UnmarshalVT == {<<1, "Type", 2>>, <<2, "Attrs", 2>>, <<3, "Destination", 2>>}

CacheOptionsEntry_SizeVT == [Type |-> 1, Attrs |-> 1]
CacheOptionsEntry_MarshalToSizedBufferVT == <<<<"Attrs", <<18>>>>, <<"Type", <<10>>>>>>
CacheOptionsEntry_UnmarshalVT == {<<1, "Type", 2>>, <<2, "Attrs", 2>>}

Attest_SizeVT == [Type |-> 1, Disabled |-> 2, Attrs |-> 1]
Attest_MarshalToSizedBufferVT == <<<<"Attrs", <<26>>>>, <<"Disabled", <<16>>>>,
    <<"Type", <<10>>>>>>
Attest_UnmarshalVT == {<<1, "Type", 2>>, <<2, "Disabled", 0>>, <<3, "Attrs", 2>>}

SSH_SizeVT == [ID |-> 1, Paths |-> 1]
SSH_MarshalToSizedBufferVT == <<<<"Paths", <<18>>>>, <<"ID", <<10>>>>>>
SSH_UnmarshalVT == {<<1, "ID", 2>>, <<2, "Paths", 2>>}

Secret_SizeVT == [ID |-> 1, FilePath |-> 1, Env |-> 1]
Secret_MarshalToSizedBufferVT == <<<<"Env", <<26>>>>, <<"FilePath", <<18>>>>, <<"ID", <<10>>>>>>
Secret_UnmarshalVT == {<<1, "ID", 2>>, <<2, "FilePath", 2>>, <<3, "Env", 2>>}

paddedSize == [Name |-> 1, Format |-> 1, IgnoreStatus |-> 3] \* mutant: a byte too many for a bool
CallFunc_SizeVT == [Name |-> 1, Format |-> 1, IgnoreStatus |-> 2]
CallFunc_MarshalToSizedBufferVT == <<<<"IgnoreStatus", <<24>>>>, <<"Format", <<18>>>>,
    <<"Name", <<10>>>>>>
CallFunc_UnmarshalVT == {<<1, "Name", 2>>, <<2, "Format", 2>>, <<3, "IgnoreStatus", 0>>}

InspectRequest_SizeVT == [SessionID |-> 1]
InspectRequest_MarshalToSizedBufferVT == <<<<"SessionID", <<10>>>>>>
InspectRequest_UnmarshalVT == {<<1, "SessionID", 2>>}

InspectResponse_SizeVT == [Options |-> 1]
InspectResponse_MarshalToSizedBufferVT == <<<<"Options", <<10>>>>>>
InspectResponse_UnmarshalVT == {<<1, "Options", 2>>}

UlimitOpt_SizeVT == [Values |-> 1]
UlimitOpt_MarshalToSizedBufferVT == <<<<"Values", <<10>>>>>>
UlimitOpt_UnmarshalVT == {<<1, "Values", 2>>}

Ulimit_SizeVT == [Name |-> 1, Hard |-> 1, Soft |-> 1]
Ulimit_MarshalToSizedBufferVT == <<<<"Soft", <<24>>>>, <<"Hard", <<16>>>>, <<"Name", <<10>>>>>>
Ulimit_UnmarshalVT == {<<1, "Name", 2>>, <<2, "Hard", 0>>, <<3, "Soft", 0>>}

BuildResponse_SizeVT == [ExporterResponse |-> 1]
BuildResponse_MarshalToSizedBufferVT == <<<<"ExporterResponse", <<10>>>>>>
BuildResponse_UnmarshalVT == {<<1, "ExporterResponse", 2>>}

DisconnectRequest_SizeVT == [SessionID |-> 1]
DisconnectRequest_MarshalToSizedBufferVT == <<<<"SessionID", <<10>>>>>>
DisconnectRequest_UnmarshalVT == {<<1, "SessionID", 2>>}

DisconnectResponse_SizeVT == <<>>
DisconnectResponse_MarshalToSizedBufferVT == <<>>
DisconnectResponse_UnmarshalVT == {}

ListRequest_SizeVT == [SessionID |-> 1]
ListRequest_MarshalToSizedBufferVT == <<<<"SessionID", <<10>>>>>>
ListRequest_UnmarshalVT == {<<1, "SessionID", 2>>}

ListResponse_SizeVT == [Keys |-> 1]
ListResponse_MarshalToSizedBufferVT == <<<<"Keys", <<10>>>>>>
ListResponse_UnmarshalVT == {<<1, "Keys", 2>>}

InputMessage_SizeVT == [Input |-> 0]
InputMessage_MarshalToSizedBufferVT == <<<<"Input", <<>>>>>>
InputMessage_UnmarshalVT == {<<1, "Init", 2>>, <<2, "Data", 2>>}

InputMessage_Init_SizeVT == [Init |-> 1]
InputMessage_Init_MarshalToSizedBufferVT == <<<<"Init", <<10>>>>>>

InputMessage_Data_SizeVT == [Data |-> 1]
InputMessage_Data_MarshalToSizedBufferVT == <<<<"Data", <<18>>>>>>

InputInitMessage_SizeVT == [SessionID |-> 1]
InputInitMessage_MarshalToSizedBufferVT == <<<<"SessionID", <<10>>>>>>
InputInitMessage_UnmarshalVT == {<<1, "SessionID", 2>>}

DataMessage_SizeVT == [EOF |-> 2, Data |-> 1]
DataMessage_MarshalToSizedBufferVT == <<<<"Data", <<18>>>>, <<"EOF", <<8>>>>>>
DataMessage_UnmarshalVT == {<<1, "EOF", 0>>, <<2, "Data", 2>>}

InputResponse_SizeVT == <<>>
InputResponse_MarshalToSizedBufferVT == <<>>
InputResponse_UnmarshalVT == {}

Message_SizeVT == [Input |-> 0]
Message_MarshalToSizedBufferVT == <<<<"Input", <<>>>>>>
Message_UnmarshalVT == {<<1, "Init", 2>>, <<2, "File", 2>>, <<3, "Resize", 2>>,
    <<4, "Signal", 2>>}

Message_Init_SizeVT == [Init |-> 1]
Message_Init_MarshalToSizedBufferVT == <<<<"Init", <<10>>>>>>

Message_File_SizeVT == [File |-> 1]
Message_File_MarshalToSizedBufferVT == <<<<"File", <<18>>>>>>

Message_Resize_SizeVT == [Resize |-> 1]
Message_Resize_MarshalToSizedBufferVT == <<<<"Resize", <<26>>>>>>

Message_Signal_SizeVT == [Signal |-> 1]
Message_Signal_MarshalToSizedBufferVT == <<<<"Signal", <<34>>>>>>

InitMessage_SizeVT == [SessionID |-> 1, ProcessID |-> 1, InvokeConfig |-> 1]
InitMessage_MarshalToSizedBufferVT == <<<<"InvokeConfig", <<26>>>>, <<"ProcessID", <<18>>>>,
    <<"SessionID", <<10>>>>>>
InitMessage_UnmarshalVT == {<<1, "SessionID", 2>>, <<2, "ProcessID", 2>>,
    <<3, "InvokeConfig", 2>>}

InvokeConfig_SizeVT == [Entrypoint |-> 1, Cmd |-> 1, NoCmd |-> 2, Env |-> 1, User |-> 1,
    NoUser |-> 2, Cwd |-> 1, NoCwd |-> 2, Tty |-> 2, Rollback |-> 2, Initial |-> 2]
InvokeConfig_MarshalToSizedBufferVT == <<<<"NoCmd", <<88>>>>, <<"Initial", <<80>>>>,
    <<"Rollback", <<72>>>>, <<"Tty", <<64>>>>, <<"NoCwd", <<56>>>>, <<"Cwd", <<50>>>>,
    <<"NoUser", <<40>>>>, <<"User", <<34>>>>, <<"Env", <<26>>>>, <<"Cmd", <<18>>>>,
    <<"Entrypoint", <<10>>>>>>
InvokeConfig_UnmarshalVT == {<<1, "Entrypoint", 2>>, <<2, "Cmd", 2>>, <<3, "Env", 2>>,
    <<4, "User", 2>>, <<5, "NoUser", 0>>, <<6, "Cwd", 2>>, <<7, "NoCwd", 0>>, <<8, "Tty", 0>>,
    <<9, "Rollback", 0>>, <<10, "Initial", 0>>, <<11, "NoCmd", 0>>}

FdMessage_SizeVT == [Fd |-> 1, EOF |-> 2, Data |-> 1]
FdMessage_MarshalToSizedBufferVT == <<<<"Data", <<26>>>>, <<"EOF", <<16>>>>, <<"Fd", <<8>>>>>>
FdMessage_UnmarshalVT == {<<1, "Fd", 0>>, <<2, "EOF", 0>>, <<3, "Data", 2>>}

ResizeMessage_SizeVT == [Rows |-> 1, Cols |-> 1]
ResizeMessage_MarshalToSizedBufferVT == <<<<"Cols", <<16>>>>, <<"Rows", <<8>>>>>>
ResizeMessage_UnmarshalVT == {<<1, "Rows", 0>>, <<2, "Cols", 0>>}

SignalMessage_SizeVT == [Name |-> 1]
SignalMessage_MarshalToSizedBufferVT == <<<<"Name", <<10>>>>>>
SignalMessage_UnmarshalVT == {<<1, "Name", 2>>}

StatusRequest_SizeVT == [SessionID |-> 1]
StatusRequest_MarshalToSizedBufferVT == <<<<"SessionID", <<10>>>>>>
StatusRequest_UnmarshalVT == {<<1, "SessionID", 2>>}

StatusResponse_SizeVT == [Vertexes |-> 1, Statuses |-> 1, Logs |-> 1, Warnings |-> 1]
StatusResponse_MarshalToSizedBufferVT == <<<<"Warnings", <<34>>>>, <<"Logs", <<26>>>>,
    <<"Statuses", <<18>>>>, <<"Vertexes", <<10>>>>>>
StatusResponse_UnmarshalVT == {<<1, "Vertexes", 2>>, <<2, "Statuses", 2>>, <<3, "Logs", 2>>,
    <<4, "Warnings", 2>>}

InfoRequest_SizeVT == <<>>
InfoRequest_MarshalToSizedBufferVT == <<>>
InfoRequest_UnmarshalVT == {}

InfoResponse_SizeVT == [BuildxVersion |-> 1]
InfoResponse_MarshalToSizedBufferVT == <<<<"BuildxVersion", <<10>>>>>>
InfoResponse_UnmarshalVT == {<<1, "BuildxVersion", 2>>}

BuildxVersion_SizeVT == [Package |-> 1, Version |-> 1, Revision |-> 1]
BuildxVersion_MarshalToSizedBufferVT == <<<<"Revision", <<26>>>>, <<"Version", <<18>>>>,
    <<"Package", <<10>>>>>>
BuildxVersion_UnmarshalVT == {<<1, "Package", 2>>, <<2, "Version", 2>>, <<3, "Revision", 2>>}

Build_SizeVT == [SessionID |-> 1, Ref |-> 1]
Build_MarshalToSizedBufferVT == <<<<"Ref", <<18>>>>, <<"SessionID", <<10>>>>>>
Build_UnmarshalVT == {<<1, "SessionID", 2>>, <<2, "Ref", 2>>}

\* The tables of each method, by message.
SizeVTTable == [ListProcessesRequest |-> ListProcessesRequest_SizeVT,
    ListProcessesResponse |-> ListProcessesResponse_SizeVT, ProcessInfo |-> ProcessInfo_SizeVT,
    DisconnectProcessRequest |-> DisconnectProcessRequest_SizeVT,
    DisconnectProcessResponse |-> DisconnectProcessResponse_SizeVT,
    BuildRequest |-> BuildRequest_SizeVT, BuildOptions |-> BuildOptions_SizeVT,
    ExportEntry |-> ExportEntry_SizeVT, CacheOptionsEntry |-> CacheOptionsEntry_SizeVT,
    Attest |-> Attest_SizeVT, SSH |-> SSH_SizeVT, Secret |-> Secret_SizeVT,
    CallFunc |-> CallFunc_SizeVT, InspectRequest |-> InspectRequest_SizeVT,
    InspectResponse |-> InspectResponse_SizeVT, UlimitOpt |-> UlimitOpt_SizeVT,
    Ulimit |-> Ulimit_SizeVT, BuildResponse |-> BuildResponse_SizeVT,
    DisconnectRequest |-> DisconnectRequest_SizeVT,
    DisconnectResponse |-> DisconnectResponse_SizeVT, ListRequest |-> ListRequest_SizeVT,
    ListResponse |-> ListResponse_SizeVT, InputMessage |-> InputMessage_SizeVT,
    InputMessage_Init |-> InputMessage_Init_SizeVT,
    InputMessage_Data |-> InputMessage_Data_SizeVT,
    InputInitMessage |-> InputInitMessage_SizeVT, DataMessage |-> DataMessage_SizeVT,
    InputResponse |-> InputResponse_SizeVT, Message |-> Message_SizeVT,
    Message_Init |-> Message_Init_SizeVT, Message_File |-> Message_File_SizeVT,
    Message_Resize |-> Message_Resize_SizeVT, Message_Signal |-> Message_Signal_SizeVT,
    InitMessage |-> InitMessage_SizeVT, InvokeConfig |-> InvokeConfig_SizeVT,
    FdMessage |-> FdMessage_SizeVT, ResizeMessage |-> ResizeMessage_SizeVT,
    SignalMessage |-> SignalMessage_SizeVT, StatusRequest |-> StatusRequest_SizeVT,
    StatusResponse |-> StatusResponse_SizeVT, InfoRequest |-> InfoRequest_SizeVT,
    InfoResponse |-> InfoResponse_SizeVT, BuildxVersion |-> BuildxVersion_SizeVT,
    Build |-> Build_SizeVT]
MarshalToSizedBufferVTTable == [
    ListProcessesRequest |-> ListProcessesRequest_MarshalToSizedBufferVT,
    ListProcessesResponse |-> ListProcessesResponse_MarshalToSizedBufferVT,
    ProcessInfo |-> ProcessInfo_MarshalToSizedBufferVT,
    DisconnectProcessRequest |-> DisconnectProcessRequest_MarshalToSizedBufferVT,
    DisconnectProcessResponse |-> DisconnectProcessResponse_MarshalToSizedBufferVT,
    BuildRequest |-> BuildRequest_MarshalToSizedBufferVT,
    BuildOptions |-> BuildOptions_MarshalToSizedBufferVT,
    ExportEntry |-> ExportEntry_MarshalToSizedBufferVT,
    CacheOptionsEntry |-> CacheOptionsEntry_MarshalToSizedBufferVT,
    Attest |-> Attest_MarshalToSizedBufferVT, SSH |-> SSH_MarshalToSizedBufferVT,
    Secret |-> Secret_MarshalToSizedBufferVT, CallFunc |-> CallFunc_MarshalToSizedBufferVT,
    InspectRequest |-> InspectRequest_MarshalToSizedBufferVT,
    InspectResponse |-> InspectResponse_MarshalToSizedBufferVT,
    UlimitOpt |-> UlimitOpt_MarshalToSizedBufferVT, Ulimit |-> Ulimit_MarshalToSizedBufferVT,
    BuildResponse |-> BuildResponse_MarshalToSizedBufferVT,
    DisconnectRequest |-> DisconnectRequest_MarshalToSizedBufferVT,
    DisconnectResponse |-> DisconnectResponse_MarshalToSizedBufferVT,
    ListRequest |-> ListRequest_MarshalToSizedBufferVT,
    ListResponse |-> ListResponse_MarshalToSizedBufferVT,
    InputMessage |-> InputMessage_MarshalToSizedBufferVT,
    InputMessage_Init |-> InputMessage_Init_MarshalToSizedBufferVT,
    InputMessage_Data |-> InputMessage_Data_MarshalToSizedBufferVT,
    InputInitMessage |-> InputInitMessage_MarshalToSizedBufferVT,
    DataMessage |-> DataMessage_MarshalToSizedBufferVT,
    InputResponse |-> InputResponse_MarshalToSizedBufferVT,
    Message |-> Message_MarshalToSizedBufferVT,
    Message_Init |-> Message_Init_MarshalToSizedBufferVT,
    Message_File |-> Message_File_MarshalToSizedBufferVT,
    Message_Resize |-> Message_Resize_MarshalToSizedBufferVT,
    Message_Signal |-> Message_Signal_MarshalToSizedBufferVT,
    InitMessage |-> InitMessage_MarshalToSizedBufferVT,
    InvokeConfig |-> InvokeConfig_MarshalToSizedBufferVT,
    FdMessage |-> FdMessage_MarshalToSizedBufferVT,
    ResizeMessage |-> ResizeMessage_MarshalToSizedBufferVT,
    SignalMessage |-> SignalMessage_MarshalToSizedBufferVT,
    StatusRequest |-> StatusRequest_MarshalToSizedBufferVT,
    StatusResponse |-> StatusResponse_MarshalToSizedBufferVT,
    InfoRequest |-> InfoRequest_MarshalToSizedBufferVT,
    InfoResponse |-> InfoResponse_MarshalToSizedBufferVT,
    BuildxVersion |-> BuildxVersion_MarshalToSizedBufferVT,
    Build |-> Build_MarshalToSizedBufferVT]
UnmarshalVTTable == [ListProcessesRequest |-> ListProcessesRequest_UnmarshalVT,
    ListProcessesResponse |-> ListProcessesResponse_UnmarshalVT,
    ProcessInfo |-> ProcessInfo_UnmarshalVT,
    DisconnectProcessRequest |-> DisconnectProcessRequest_UnmarshalVT,
    DisconnectProcessResponse |-> DisconnectProcessResponse_UnmarshalVT,
    BuildRequest |-> BuildRequest_UnmarshalVT, BuildOptions |-> BuildOptions_UnmarshalVT,
    ExportEntry |-> ExportEntry_UnmarshalVT,
    CacheOptionsEntry |-> CacheOptionsEntry_UnmarshalVT, Attest |-> Attest_UnmarshalVT,
    SSH |-> SSH_UnmarshalVT, Secret |-> Secret_UnmarshalVT, CallFunc |-> CallFunc_UnmarshalVT,
    InspectRequest |-> InspectRequest_UnmarshalVT,
    InspectResponse |-> InspectResponse_UnmarshalVT, UlimitOpt |-> UlimitOpt_UnmarshalVT,
    Ulimit |-> Ulimit_UnmarshalVT, BuildResponse |-> BuildResponse_UnmarshalVT,
    DisconnectRequest |-> DisconnectRequest_UnmarshalVT,
    DisconnectResponse |-> DisconnectResponse_UnmarshalVT,
    ListRequest |-> ListRequest_UnmarshalVT, ListResponse |-> ListResponse_UnmarshalVT,
    InputMessage |-> InputMessage_UnmarshalVT,
    InputInitMessage |-> InputInitMessage_UnmarshalVT, DataMessage |-> DataMessage_UnmarshalVT,
    InputResponse |-> InputResponse_UnmarshalVT, Message |-> Message_UnmarshalVT,
    InitMessage |-> InitMessage_UnmarshalVT, InvokeConfig |-> InvokeConfig_UnmarshalVT,
    FdMessage |-> FdMessage_UnmarshalVT, ResizeMessage |-> ResizeMessage_UnmarshalVT,
    SignalMessage |-> SignalMessage_UnmarshalVT, StatusRequest |-> StatusRequest_UnmarshalVT,
    StatusResponse |-> StatusResponse_UnmarshalVT, InfoRequest |-> InfoRequest_UnmarshalVT,
    InfoResponse |-> InfoResponse_UnmarshalVT, BuildxVersion |-> BuildxVersion_UnmarshalVT,
    Build |-> Build_UnmarshalVT]
=============================================================================
