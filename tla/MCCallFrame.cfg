SPECIFICATION Spec
CONSTANTS
    f = f
    g = g
    h = h
    sf = sf
    sg = sg
    sh = sh
    Functions = {f, g, h}
    entryPoint = f
    numArgs <- MCNumArgs
    numLocals <- MCNumLocals
    Sites = {sf, sg, sh}
    caller <- MCCaller
    goSite = goSite
    main = main
    Values = {u, v}
    unset = unset
    MaxFrames = 3
INVARIANTS
    ArgumentsArrive
    LocalsSurvive
    StackIsBalanced
CHECK_DEADLOCK FALSE
