SPECIFICATION ResponseSpec
CONSTANTS
    Packets <- MCPackets
    HeaderSize = 1
    MaxLabel = 2
    Pointer = 9
    OptType = 1
    DNS_MAX_POINTER_HOPS = 3
    Answered <- MCAnswered
    MaxEdits <- MCMaxEdits
    Headers <- MCHeaders
    Names <- MCNames
    Addresses <- MCAddresses
    Letters = {1, 2, 4, 5, 6}
    Hyphen = 3
    NS = 2
    SOA = 3
    MX = 4
    SRV = 5
    A = 1
    AAAA = 6
    TXT = 7
    Ascii = 4
    Arpa <- MCArpa
    MaxName = 11
    MaxText = 1
    OctetsPerIpv4 = 2
    Octet = {0, 1, 2}
    Ipv6Groups = 2
    GroupDigits = 2
    RdlengthWidth = 3
INVARIANTS TypeOK WalkersAgree StatusHonest RoundTrip Decompressed
PROPERTIES Terminates
CHECK_DEADLOCK FALSE
