\* One page through a call: two shares with a camera in between, or a switch.
SPECIFICATION FairSpec
CONSTANTS
    f1 = f1
    Flips = {f1}
    MaxTracks = 5
CHECK_DEADLOCK FALSE
INVARIANTS TypeOK SentIsShown NoCameraWhileSharing NoResurrection MuteSurvivesShare
PROPERTIES EndedIsUnwound
