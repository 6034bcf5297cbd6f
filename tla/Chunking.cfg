SPECIFICATION Spec

CONSTANTS
    Minimum = 2
    Target = 6
    Maximum = 8
    Overlap = 2
    MaxChunks = 3
    brief = brief
    wide = wide
    huge = huge
    Titles <- MCTitles
    TitleSize <- MCTitleSize
    Sizes <- MCSizes
    MaxLevel = 2
    MaxBlocks = 6

INVARIANTS
    ChunksCoverDocument
    OversizeIsStructural
