CONSTANTS
    Names <- MCNames
    Docker0 = "docker0"
    Eth0 = "eth0"
    AddrKinds <- MCAddrKinds
    MaxIfaces = 2
    MaxAddrs = 2
SPECIFICATION Spec
INVARIANT AddressAsSpecified
CHECK_DEADLOCK FALSE
