SPECIFICATION Spec
CONSTANTS
 o1=o1 o2=o2 d1=d1 d2=d2 p1=p1 p2=p2
 Orders={o1,o2} Drivers={d1} Procs={p1} NoOrder=NoOrder NoDriver=NoDriver
 OnlineAtStart={d1} InRange<-AllInRange MaxRequests=4
 Ops={"Trigger","Accept"} Patches={} Named={} Silent={} Faults=FALSE
INVARIANT NoDoubleAssignment
CHECK_DEADLOCK FALSE
