SPECIFICATION ToolsSpec
CONSTANTS
    read = read
    grep = grep
    write = write
    c1 = c1
    c2 = c2
    x = x
    y = y
    e = e
    f = f
    a1 = a1
    a2 = a2
    t1 = t1
    t2 = t2
    Agents = {a1, a2}
    Types = {t1, t2}
    Builtin = {read, grep, write}
    ReadOnly = {read, grep}
    Read = read
    Writing = {write}
    Ctx = {c1, c2}
    Installed = TRUE
    Other = {x, y}
    Orchestration = {y}
    Exts = {e, f}
    Matched <- MCMatched
    Every = Every
    NoneAtAll = NoneAtAll
    Star = Star
    Unset = Unset
    Missing = Missing
    NoAgent = NoAgent
    Waiting = Waiting
    Configs <- MCConfigs
PROPERTIES
    RestrictionsHold
    PromptFitsTools
