SPECIFICATION FairSpec
CONSTANTS
    MaxEdits = 2
    Panicky = {}
PROPERTY SighupTakesEffect
