SPECIFICATION Spec
CONSTANTS
    Contexts = {blue, green}
    Pod = pod
    InPod = TRUE
    Supplied = supplied
    Given = {None, green}
    Groups = {core}
    Direct = direct
    Threads = {t1, t2}
    Main = main
    Library = FALSE
    None = None
INVARIANTS
    AnswersAsLogged
    SelectionHonoured
