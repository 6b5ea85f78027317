SPECIFICATION Spec
CONSTANTS
    NoModel = NoModel
INVARIANT ModelCatches
