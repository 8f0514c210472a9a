SPECIFICATION SourcesSpec
CONSTANTS
    Base = 8
    NotNumber = NaN
    AddressSpace = 8
    MaxRegistersPerRead = 3
    MaxGap = 1
    TidSpace = 3
    MaxPDU = 8
    TableSize = 6
    Signals <- DeviceSignals
    Snapshots <- DeviceSnapshots
    Plants <- SmallPlants
    Files <- SmallFiles
    NoFile = NoFile
    Text = Text
    BadRow = BadRow
    Nothing = Nothing
INVARIANT PlanSound
INVARIANT ReadingsGenuine
INVARIANT PassComplete
PROPERTY SourceRecovers
