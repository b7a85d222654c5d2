SPECIFICATION StartupFairSpec
CONSTANTS
    Files = {"page", "acpi", "hpet", "ixgbe", "pci", "apic"}
    Id <- KernelIds
    FileName <- MCFileNames
    init_list <- KernelStages
    Needs <- KernelNeeds
    None = "none"
    PCI_FUNCS = 2
    Registers = 2
    Configs <- MCConfigs
    Absent = "absent"
    High = 64
    IXGBE_NUM_QUEUE_PAIRS = 2
    num_rdesc = 4
    Timeout = 2
    LinkTimeout = 3
    Firmwares <- MCFirmwares
    ixgbe_idlist = {"nic"}
INVARIANTS
    InitsAfterWhatTheyNeed
    DeinitsMirrorInits
    BarsDecoded
    DriverMeetsEveryAdapter
    FlagsTellTheTruth
    PromptAdapterComesUp
PROPERTIES
    CompleteFirmwareStarts
