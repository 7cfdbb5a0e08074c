SPECIFICATION Spec
CONSTANTS
    p = p
    q = q
    None = None
    Tools <- MCTools
    Names <- MCNames
    Exes <- MCExes
    Tags <- MCTags
    Family <- MCFamily
    SysDistro = "ubuntu"
    Bundled <- MCBundled
    Pkgs = {p, q}
    Required <- MCRequired
    Optional <- MCOptional
    Turns <- MCTurns
    Custom <- MCCustom
    Builtin <- MCBuiltin
    Known <- MCKnown
    Provides <- MCProvides
    Within <- MCWithin
    Answers <- MCAnswers
    MaxCommands = 2
    Starts <- MCStarts
INVARIANTS
    CorrectionTakesEffect
    CompleteAfterInstall
PROPERTIES
    FailedArePrompted
    UnattendedIsQuiet
