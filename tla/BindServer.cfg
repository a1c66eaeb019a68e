SPECIFICATION FairSpec
CONSTANTS
    Contexts = {blue, green}
    Pod = pod
    InPod = FALSE
    Supplied = supplied
    Given = {None, green}
    Groups = {core, apps}
    Direct = direct
    Threads = {t1}
    Main = main
    Library = FALSE
    None = None
INVARIANTS
    ServerFromOneCluster
PROPERTY Recovers
