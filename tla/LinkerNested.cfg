SPECIFICATION Spec
CONSTANTS
    home = home
    a = a
    b = b
    conf = conf
    e = e
    f = f
    g = g
    m = m
    s = s
    u = u
    Home <- home
    Pkgs <- TwoPkgs
    Rels <- NestedRels
    Data <- AllData
    Hops = 2
    Manifest <- MCManifest
    Scenarios <- NestedScenarios
PROPERTIES
    SourceIntact
