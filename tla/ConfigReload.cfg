CONSTANTS
    Good = {"fast", "slow"}
    Bad = {"broken"}
    MaxStamp = 3
SPECIFICATION ReloadSpec
PROPERTIES FileIsFollowed
