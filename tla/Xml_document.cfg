SPECIFICATION MCSpec
CONSTANTS
    MaxNodes = 8
    Names = {"a"}
    AttrNames = {"x", "y"}
    Values = {"v"}
    Careful = TRUE
    Tags <- MCTags
    Attrs <- MCAttrs
    Workloads <- MCWorkloads
INVARIANTS
    TreeOK
    WritesTree
    ParsedMirrorsInput
    RejectsMalformed
    NamespacesResolved
 
CHECK_DEADLOCK FALSE
