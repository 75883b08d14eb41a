SPECIFICATION Spec
CONSTANTS
    w1 = w1
    w2 = w2
    w3 = w3
    w4 = w4
    w5 = w5
    ann = ann
    bob = bob
    fox = fox
    owl = owl
    text = text
    photo = photo
    None = None
    Whispers = {w1, w2, w3, w4, w5}
    Sender <- MCSender
    Media <- MCMedia
    Stored <- MCStored
    Names = {fox, owl}
    FirstNames <- MCNames
    Scenes <- MCScenes
    PageSize = 2
    MaxUpdates = 4
    MaxAttempts = 2
CHECK_DEADLOCK FALSE
INVARIANTS
    CompleteWalk
    TrailIsComplete
    RepliesAreTrue
