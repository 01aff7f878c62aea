SPECIFICATION Spec
CONSTANTS
    C = C
    E = E
    Tr = Tr
    Seal = Seal
    PTr = PTr
    PEn = PEn
    FTr = FTr
    FTy = FTy
    No = No
    Al = Al
    NT = NT
    Int = Int
    T = T
    F = F
    Self = Self
    show = show
    twice = twice
    Name <- MCName
    Prim = {Int}
    Letter = {T, F, C, E}
    Method = {show, twice}
    SelfName = Self
    None = None
    Programs <- MCPrograms
INVARIANTS
    ImplRulesExact
    MethodRulesExact
CHECK_DEADLOCK FALSE
