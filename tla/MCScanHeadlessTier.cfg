SPECIFICATION Spec
CONSTANTS
    None = None
    agent = agent
    tool = tool
    service = service
    w1 = w1
    mic = mic
    loop = loop
    chime = chime
    Pid <- MCPid
    Path = {agent, tool, service}
    Protected = {service}
    File <- MCFiles
    Window = {w1}
    TitleOf <- MCTitles
    Affinity = {"WDA_NONE", "WDA_EXCLUDEFROMCAPTURE"}
    Session = {mic, loop, chime}
    DeviceOf <- MCDevices
    FlowOf <- MCFlows
    SystemSounds = {chime}
    SessionState = {"active", "inactive", "expired"}
    Desktops <- MCDesktops
    MaxChanges = 2
    OwnExe = agent
    MaxTrouble = 2
    MaxCommands = 1
INVARIANTS
    Tier2MeansNoWindow
CHECK_DEADLOCK FALSE
