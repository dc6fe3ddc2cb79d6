\* Corpus: two revisions of a skill, four command lines of the pass, one fault.
CONSTANTS
    s1 = s1
    n1 = n1
    r1 = r1
    r2 = r2
    None = None
    Skill = {s1}
    Name = {n1}
    Sequence = {1, 2}
    Revision = {r1, r2}
    Review <- Reviews
    Command <- Commands
    Seed <- Seeds
    MaxFaults = 1
    MaxRuns = 3
SPECIFICATION CorpusSpec
INVARIANTS RowsSound IndexFollows
PROPERTIES OkMeansEmbedded ForcedMeansFresh ServiceReturns
CHECK_DEADLOCK FALSE
