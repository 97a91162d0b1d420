SPECIFICATION FairSpec
CONSTANTS
    p1 = p1
    p2 = p2
    c1 = c1
    c2 = c2
    d1 = d1
    d2 = d2
    d3 = d3
    NoData = NoData
    Producers <- OneProducer
    Consumers <- OneConsumer
    Data <- ThreeData
    u32Length = 3
    TicksPerSec = 2
    WaitTimes <- AnyWait
INVARIANTS NotFullIsStable NotEmptyIsStable
PROPERTIES BlockedEnqueueReturns Delivered
