\* Packs: four review files over two skills, four packs, two commands, two faults.
CONSTANTS
    s1 = s1
    s2 = s2
    n1 = n1
    r1 = r1
    r2 = r2
    lang = lang
    web = web
    core = core
    remote = remote
    None = None
    All = All
    Skill = {s1, s2}
    Name = {n1}
    Sequence = {1, 2, 3}
    Revision = {r1, r2}
    Review <- Reviews
    MaxFaults = 2
    MaxCommands = 2
    Pack = {lang, web, core, remote}
    Local = {lang, web, core}
    NameOrder <- Sorted
    Manifest <- Manifests
    Selected <- Selections
SPECIFICATION PackSpec
INVARIANTS GraphSound PacksWhole
PROPERTIES OkMeansLoaded StuckForever PlanOrdered RepairedByForceOnly CutShortForGood
CHECK_DEADLOCK FALSE
