SPECIFICATION FairSpec
CONSTANTS
 o1=o1 o2=o2 d1=d1 d2=d2 p1=p1 p2=p2
 Orders={o1} Drivers={d1,d2} Procs={p1,p2} NoOrder=NoOrder NoDriver=NoDriver
 OnlineAtStart={d1,d2} InRange<-AllInRange MaxRequests=2
 Ops={"Patch","Trigger","Accept","Reject","Ping","Availability","Sweep"}
 Patches={"CANCELLED"} Named={NoDriver} Silent={d2} Faults=FALSE
INVARIANTS LockExclusive
PROPERTIES HandlersEnd OfferSettles
CHECK_DEADLOCK FALSE
