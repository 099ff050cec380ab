SPECIFICATION FairSpec
CONSTANTS
 t1=t1 t2=t2 t3=t3 w1=w1
 Trackers={t1} Watchers={w1} MaxMessages=1 MaxFailures=0
PROPERTY FleetSubscribed
CHECK_DEADLOCK FALSE
