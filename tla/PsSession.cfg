SPECIFICATION Spec
CONSTANTS
    Sides <- MCSides
    TeamPick <- MCTeamPick
    MainAnswer <- MCMainAnswer
    Pick <- MCPick
    Pass = Pass
    None = None
    Preview = Preview
    Tie = Tie
    Rng <- MCRng
    Line <- MCLine
    MaxMid = 2
    Opening <- MCOpening
    Play <- MCPlay
    Seed = "g1"
    Verdict <- MCVerdict
    Doubles = TRUE
    CancelMod = TRUE
    ReseedAt <- BetweenTurns
    MaxCommits = 3
INVARIANTS
    ShownIsPlayed
    EveryoneAskedAnswered
    NobodyStuck
    InputLogIsHistory
PROPERTIES
    ImplementsIncremental
    FeedsTheStream
