SPECIFICATION Spec
CONSTANTS
    None = None
    Home <- MCHome
    Cwd <- MCCwd
    Pieces <- MCPieces
    Identifiers <- MCIdentifiers
    OnPath = {"sh", "vim"}
    Built = {"p"}
    Fits <- MCFits
    Spans <- MCSpans
    Cut <- MCCut
    Resource <- MCResource
    Template <- MCTemplate
    Junk <- MCJunk
    Terminals = {t1, t2}
    Packages = {"p", "q"}
    Repo <- R
    Files <- MCFiles
    Bundled = {"git", "vim"}
    Removable <- MCRemovable
    Directories <- MCDirectories
    Uses <- MCUses
    Jobs <- MCJobs
SYMMETRY Twins
CHECK_DEADLOCK FALSE
INVARIANTS
    LinksStayReachable
    IgnoredAsDocumented
PROPERTIES
    ImplementsSettings
