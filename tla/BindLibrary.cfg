SPECIFICATION Spec
CONSTANTS
    Contexts = {blue, green}
    Pod = pod
    InPod = FALSE
    Supplied = supplied
    Given = {None}
    Groups = {core}
    Direct = direct
    Threads = {t1}
    Main = main
    Library = TRUE
    None = None
INVARIANTS
    OneCluster
    CallFromOneCluster
PROPERTY SelectionKept
