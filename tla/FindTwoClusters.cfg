SPECIFICATION Spec
CONSTANTS
    Contexts = {blue, green}
    Pod = pod
    InPod = FALSE
    Supplied = supplied
    Given = {None}
    Groups = {core, apps}
    Direct = direct
    Threads = {t1, t2}
    Main = main
    Library = FALSE
    None = None
INVARIANT ServerFromOneCluster
