\* More tracks than tasks, so that requests meet every stage of a negotiation.
CONSTANTS
    Task = {t1, t2, t3}
    Track = {k1, k2, k3, k4}
    Handler = Handler
SPECIFICATION FairSpec
INVARIANTS TypeOK OneOfferAtATime  
 
CHECK_DEADLOCK FALSE
