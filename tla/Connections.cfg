SPECIFICATION Spec
CONSTANTS
 t1=t1 t2=t2 t3=t3 w1=w1
 Trackers={t1,t2,t3} Watchers={w1} MaxMessages=2 MaxFailures=1
SYMMETRY TrackerSymmetry
INVARIANTS TypeOK OneListener Registered UpdatesInOrder SkipsBounded
CHECK_DEADLOCK FALSE
