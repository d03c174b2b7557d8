SPECIFICATION ParserSpec
CONSTANT BootArgs <- MCBootArgs
INVARIANT LoopComputesParsed
PROPERTY ReparseIsInvisible
