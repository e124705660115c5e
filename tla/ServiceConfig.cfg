\* What an accepted configuration file guarantees to the service it starts.
CONSTANTS
    high = high
    low = low
    root = root
    data = data
    StorageRule = StorageRule
    NoName = NoName
    NoMount = NoMount
    NaN = NaN
    Names <- MCNames
    Mounts <- MCMounts
    Hosts <- MCHosts
    Ports <- MCPorts
    Files <- MCFiles
SPECIFICATION Spec
INVARIANT RulesUsable
INVARIANT RulesMeasured
INVARIANT IntegrationsConnected
