SPECIFICATION Spec
CONSTANTS
    a = a
    b = b
    Namespaces = {a}
    Names = {x}
    CustomTypes = {widgets, zones}
    Namespaced = {widgets}
    MaxCustom = 1
    Options <- OneConfigMap
    Unasked = Unasked
    Refused = Refused
    Unknown = Unknown
CHECK_DEADLOCK FALSE
INVARIANT ConfigMapDataHonest
