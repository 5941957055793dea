SPECIFICATION Spec
CONSTANTS
    LanIps = {l1}
    PublicIps = {p1}
    Macs = {m1, m2}
    Names = {hmi}
    None = None
    MsBrowse = MsBrowse
    Oui <- TheOui
    Words <- Texts
    Networks = {"addresses", "services", "names", "coincidence"}
    Frames <- TheFrames
    Caching <- TheCaching
CHECK_DEADLOCK FALSE
INVARIANTS
    TypeOK
    OneRowPerAddress
    CacheMirrorsQueries
    NoKeyInsertedTwice
    ServiceIsClassified
    ServicesWereSeen
PROPERTY
    IdentityIsKept
