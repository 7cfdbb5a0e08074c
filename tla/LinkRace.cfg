SPECIFICATION Spec
CONSTANTS
    a = a
    b = b
    conf = conf
    e = e
    f = f
    g = g
    h = h
    i = i
    Pkgs <- TwoPkgs
    Rels <- MCRels
    Jobs <- MCJobs
    MaxBackups = 2
INVARIANTS
    TypeOK
    UserFilesKept
    DisjointSucceed
    NothingLeftBehind
    SharedPathLinked
PROPERTIES
    ReplacedInPlace
