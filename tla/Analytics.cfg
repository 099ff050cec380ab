SPECIFICATION Spec
CONSTANTS
 m1=m1 m2=m2 m3=m3 m4=m4 o1=o1 o2=o2 o3=o3 d1=d1 none=none NoDriver=none
 Messages={m1,m2,m3,m4} Orders={o1,o2,o3} Drivers={d1}
 OrderOf<-OrderOfMessage DriverOf<-DriverOfOrder
 Workers=3 DatabaseFails=TRUE MaxCrashes=2
INVARIANTS TypeOK TotalBounded TripRecorded
CHECK_DEADLOCK FALSE
