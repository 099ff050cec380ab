SPECIFICATION ApartSpec
CONSTANTS
 o1=o1 o2=o2 d1=d1 d2=d2 p1=p1 p2=p2
 Orders={o1,o2} Drivers={d1,d2} Procs={p1,p2} NoOrder=NoOrder NoDriver=NoDriver
 OnlineAtStart={d1} InRange<-AllInRange MaxRequests=3
 Ops={"Patch","Assign","Trigger","Accept","Reject","Ping","Availability","Sweep"}
 Patches={"DRIVER_PENDING","ASSIGNED","PICKED_UP","DELIVERED","CANCELLED"}
 Named={NoDriver} Silent={d1,d2} Faults=FALSE
SYMMETRY SlotAndOrderSymmetry
INVARIANTS AuditChained GeoIndexAgrees ChannelAgrees PendingHasTimer
PROPERTIES ImplementsLifecycle NotOfferedAgain
CHECK_DEADLOCK FALSE
