SPECIFICATION Spec
CONSTANTS
 o1=o1 o2=o2 d1=d1 d2=d2 p1=p1 p2=p2
 Orders={o1} Drivers={d1} Procs={p1,p2} NoOrder=NoOrder NoDriver=NoDriver
 OnlineAtStart={d1} InRange<-AllInRange MaxRequests=3
 Ops={"Trigger","Accept","Patch"} Patches={"CANCELLED"} Named={NoDriver} Silent={} Faults=FALSE
PROPERTY TerminalIsFinal
CHECK_DEADLOCK FALSE
