SPECIFICATION FairSpec
CONSTANTS
    eth0 = eth0  eth1 = eth1
    NumClaims = 2
    Devices = {eth0, eth1}
    DeviceOf <- TwoOnFirst
    StaticDevices = {eth1}
    GatewayOf <- TwoAndStatic
    NoGateway = NoGateway  NoMedium = NoMedium
    DeviceType = "dvd"
    Scenarios <- AllScenarios
INVARIANTS SpecShowsAddresses AddressHeld
PROPERTIES StartsWhole Starts ClaimsFreed
CHECK_DEADLOCK FALSE
