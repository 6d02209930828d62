CONSTANT NumElemChoices = {1, 2, 3}
SPECIFICATION Spec
INVARIANTS IndInBounds ValidIndexMap YFitsElement NoErrorReported
CHECK_DEADLOCK FALSE
