SPECIFICATION Spec
CONSTANTS
    a = a
    b = b
    Namespaces = {a, b}
    Names = {x}
    CustomTypes = {widgets, zones}
    Namespaced = {widgets}
    MaxCustom = 1
    Options <- OneNamespaceNamed
    Unasked = Unasked
    Refused = Refused
    Unknown = Unknown
CHECK_DEADLOCK FALSE
INVARIANT UncapturedNamespaceUnknown
