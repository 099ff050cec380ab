SPECIFICATION Spec
CONSTANTS
 m1=m1 m2=m2
 Messages={m1,m2} ChannelList<-ThreeChannels MaxRetries=3 MaxCrashes=1
 Faults={"provider","redis","database","process"}
SYMMETRY MessageSymmetry
INVARIANTS TypeOK AtMostOnce OneVerdict DeadLettersFailed
CHECK_DEADLOCK FALSE
