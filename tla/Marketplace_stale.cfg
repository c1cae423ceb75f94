CONSTANTS
    slds = slds
    t1 = t1
    setup = setup
    none = none
    Extension = {slds}
    Bundled = {slds}
    Required = {slds}
    BundledVersion = 1
    MaxVersion = 2
    Task = {setup, t1}
    Setup = setup
    NoExtension = none
SPECIFICATION Spec
PROPERTIES
    UpdateReinstalls
