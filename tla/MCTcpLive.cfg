SPECIFICATION TcpLiveSpec
CONSTANTS
    Parts <- TcpPart
    NULL = NULL
    Senders = {n1, n2}
    LO_QUEUE = 2
    NUM_RX = 2
    NUM_TX = 3
    Mod = 4
    Threads = {n1, n2}
    OnLink = {h1, h2, h3}
    ARP_CACHE_SIZE = 2
    Seqs = {1, 2}
    PING_SLOTS = 2
    Ips = {i1, i2}
    SOCK_MAX = 2
    UDP_RXQ_MAX = 1
    PORTS = 3
    EPHEMERAL = 1
    ANY = ANY
    M = 16
    TCP_BUF_SIZE = 2
    TCP_MSS = 1
    TCP_MAX_RETRIES = 1
    Backlog = 1
    NKIDS = 1
    Iss <- IssWrap
    Plans <- LivePrograms
    FLIGHT = 6
    REORDER = 1
PROPERTY Settles
