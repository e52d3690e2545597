SPECIFICATION FairSpec
CONSTANTS
    Bpr = 3
    Depth = 2
    CapDepth = 6
    Chunk = 2
    Group = 2
    StageRows = 7
    Win = 3
    DmMax = 4
    Names = {"job", "norm_feed", "walk_norm", "steps", "qstage", "chain", "chain7", "chain8", "walk_ffn",
             "fuel_proj", "run_e6", "run_d7", "fuel_layer", "walk_layers", "host_fuel",
             "narrow", "sum2", "wd", "fat", "token"}
INVARIANTS
    CapturesAreProduct
    NothingDropped
    VerdictTellsFault
PROPERTY ProgramsEnd
