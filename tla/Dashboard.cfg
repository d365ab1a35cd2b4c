SPECIFICATION Spec
CONSTANTS
    Devices = {d1}
    Tabs = {t1}
    Sockets = {s1, s2}
    NoSocket = NoSocket
    NoDevice = NoDevice
    MaxDashboardClients = 1
    MaxPolls = 2
INVARIANTS TypeOK ListedIsServed PushMissesOnlyOnRemoval
PROPERTIES PlacesComeBack ListConverges
