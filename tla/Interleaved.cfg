SPECIFICATION Spec
CONSTANTS
 o1=o1 o2=o2 d1=d1 d2=d2 p1=p1 p2=p2
 Orders={o1} Drivers={d1,d2} Procs={p1,p2} NoOrder=NoOrder NoDriver=NoDriver
 OnlineAtStart={d1,d2} InRange<-AllInRange MaxRequests=3
 Ops={"Patch","Trigger","Accept","Reject","Assign"}
 Patches={"PICKED_UP","DELIVERED","CANCELLED"} Named={NoDriver} Silent={} Faults=TRUE
SYMMETRY SlotAndDriverSymmetry
INVARIANTS TypeOK OnlySearchBypasses StatusAudited PickedUpIsTransient EventsAudited TrailCoversAttempts
CHECK_DEADLOCK FALSE
