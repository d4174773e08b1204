CONSTANTS
    Outputs = {"stream", "record", "replay", "virtualcam"}
    Scenes <- MCScenes
    Inputs <- MCInputs
    Items <- MCItems
    Chain <- MCChain
    Params <- MCParams
    Fields <- MCFields
    Names <- MCNames
    Full = 2
    RouteGroups <- MCRouteGroups
    Addresses <- MCAddresses
    Arguments <- MCArguments
SPECIFICATION Spec
INVARIANTS TypeOK PollsChangeNothing EchoHarmless DuplicatesHarmless PatternIsEach ReadBack CopyCurrent TreeAgreesWithPolls
