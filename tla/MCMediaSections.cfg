\* Two tracks and three sections: tracks meet on sections, lose them to the client's own
\* publishing, and lose their publisher.
SPECIFICATION FairSpec
CONSTANTS
    Track = {t1, t2}
    After = {a1}
    Socket = sock
    NoTrack = none
    MaxSection = 3
    MaxOwn = 1
    NewestFirst = FALSE
    Leavers = {t1}
    Regimes = {"serial", "departures", "takeovers"}
INVARIANTS TypeOK MidsAreExclusive OwnIsNotForwarded SectionInv
 
CHECK_DEADLOCK FALSE
