SPECIFICATION Spec
CONSTANTS
    me = me  p1 = p1  k1 = k1  k2 = k2  c1 = c1
    None = None
    HashSlots = 3
    Ids = {me, p1}
    Me = me
    MeetIds = {me, p1}
    Keys = {k1, k2}
    SlotOf <- KeySlots
    Conns = {c1}
    SlotSpecs <- Specs
    SlotArgs <- Args
    MaxRanges = 3
INVARIANTS TypeOK OwnersKnown StoredKeysOwned SlotsReportExact
PROPERTIES OwnedSlotsKept OnlyMeetForgetsRanges
