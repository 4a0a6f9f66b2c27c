CONSTANTS
    None = None
    Symbols <- MCSymbols
    Width <- MCWidth
    LowerCase <- MCLowerCase
    Spaces <- MCSpaces
    Safe <- MCSafe
    Plain <- MCSafe
    Runners = {1}
    PromptA = PromptA
    PromptB = PromptB
    Scripts = {"end_to_end", "chat_turn", "external"}
    RunIds <- MCRunIds
    FreshIds <- MCFreshIds
    Prompts <- MCPrompts
    ModelLists <- MCModelLists
    Optimized <- MCOptimized
    ChatOutcomes <- MCChatOutcomes
    ChatIds <- MCChatIds
    EvaluationIds <- MCEvaluationIds
    Shapes <- MCShapes
    PageLimit = 1
    MaxStarts = 2
    MaxOperations = 9
    MaxExpired = 1
SYMMETRY AnyPrompt
SPECIFICATION Spec
INVARIANTS
    TypeOK
    RerunIsFree
    ReportIsCoherent
    LocalErrorsHaveCause
PROPERTIES
    NothingBilledAhead
