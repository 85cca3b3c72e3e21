SPECIFICATION EditSpec
CONSTANTS
    Setting <- MCSetting
    Many = {"log_dest"}
    AnyScope = {"max_connections"}
    KnownModule <- MCKnown
    DefaultModule = "alpine/dynsec.so"
    DatabaseFile = "db"
    LocalPort <- MCLocalPort
    Several = "several"
    PortOrder <- MCPorts
    Keyword <- MCText
    Text <- MCText
    StartFile <- MCStart
    SettingsDocument <- MCSettings
    PluginsDocument <- MCPlugins
    BridgesDocument <- MCBridges
    ListenersDocument <- MCListeners
INVARIANTS SaveIsNoChange 
PROPERTIES EditsStayApart
