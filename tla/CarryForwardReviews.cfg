SPECIFICATION Spec
CONSTANTS
    Blocks = {code}
    Quoted = {}
    Captioned = {}
    Natives = {n1, n2}
    Texts = {t}
    NoText = NoText
    MaxRevisions = 4
    Reach = 1
PROPERTIES ReviewsOutlastReadings
CHECK_DEADLOCK FALSE
