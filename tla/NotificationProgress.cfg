SPECIFICATION FairSpec
CONSTANTS
 m1=m1 m2=m2
 Messages={m1,m2} ChannelList<-ProvidersFirst MaxRetries=1 MaxCrashes=1
 Faults={"provider"}
INVARIANT LossPerCrash
PROPERTY EveryChannelReached
CHECK_DEADLOCK FALSE
