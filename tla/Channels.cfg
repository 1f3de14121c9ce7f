SPECIFICATION ChannelsSpec
CONSTANTS
  Plans = {p1}
  States = {"running", "completed"}
  Writers = {t1, t2}
  Limit = 2
  MaxEvents = 2
  Scouts = 2
  UnderWay = {}
  MaxScoutFaults = 0
  FanTemps = {40000, 90000}
  MaxFanFaults = 1
  Events = {1, 2}
  MaxNotifyFaults = 2
  Urls = {"a", "b"}
  MaxAgings = 1
  MaxCapsFaults = 2
INVARIANTS
  RoomIsFaithful
  StoppedIsAuto
PROPERTIES
  MessagesFlow
  StoredIsPublished
  HotGetsFull
  WrittenIsDelivered
  AskedGetsKnown
CHECK_DEADLOCK FALSE
