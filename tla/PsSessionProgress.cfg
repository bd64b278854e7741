SPECIFICATION FairSpec
CONSTANTS
    Sides <- MCSides
    TeamPick <- MCTeamPick
    MainAnswer <- MCMainAnswer
    Pick <- MCPick
    Pass = Pass
    None = None
    Preview = Preview
    Tie = Tie
    Rng <- MCRng
    Line <- MCLine
    MaxMid = 2
    Opening <- MCOpening
    Play <- MCPlay
    Seed = "g1"
    Verdict <- MCVerdict
    Doubles = FALSE
    CancelMod = FALSE
    ReseedAt <- NoReseed
    MaxCommits = 3
PROPERTY Progress
