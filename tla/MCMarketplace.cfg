CONSTANTS
    slds = slds
    code = code
    t1 = t1
    t2 = t2
    setup = setup
    none = none
    Extension = {slds, code}
    Bundled = {slds}
    Required = {code}
    BundledVersion = 1
    MaxVersion = 2
    Task = {setup, t1, t2}
    Setup = setup
    NoExtension = none
    Raced = slds
    First = t1
SPECIFICATION MCSpec
INVARIANTS
    TypeOK
    SetupRestores
    LossIsReported
