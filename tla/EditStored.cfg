SPECIFICATION SceneSpec
CONSTANTS
    NumRows = 2
    Handlers = {h1}
    Texts = {e1}
    Worked = {0}
    MaxPlans = 0
    MaxOrders = 0
INVARIANT EditStored
CHECK_DEADLOCK FALSE
